------------------------------ MODULE Accounts ------------------------------
(***************************************************************************)
(* Accounts in two stores that know nothing of each other: rows of `users` *)
(* (AccountService) and accounts of the user pool (CognitoIdentityProvider)*)
(* with the avatars of the rows in the bucket of Media.                    *)
(*                                                                         *)
(* Clients sign in with the pool directly; access tokens outlive the pool  *)
(* account they were issued for.  Names, onboarding and memberships are in *)
(* Workspaces: here a deletion is one that found nothing in its way.       *)
(***************************************************************************)
EXTENDS Media

CONSTANTS
  Email,
  Subject,     \* ids of pool accounts, each given out once
  EmailOf,     \* [Subject -> the email it is given out for]
  NoUpload, Absent, Gone

ASSUME EmailAssumption == EmailOf \in [Subject -> Email]

VARIABLES
  pool         \* [Subject -> what the user pool has of it]

vars == <<db, tx, uploads, files, pool>>

-----------------------------------------------------------------------------
(*                              Rows and requests                          *)

(* A row, and its entry in the unique index on emails.                     *)
UserRow(sub) == <<"user", sub>>
EmailRow(e) == <<"email", e>>
Row == {UserRow(sub) : sub \in Subject} \cup {EmailRow(e) : e \in Email}
UserRecord == [avatar : File \cup {NoFile}]

SettingAvatar(sub, u) == [call |-> "set_avatar", by |-> sub, upload |-> u]
Avatars == {SettingAvatar(sub, u) : sub \in Subject, u \in Upload}

(* What a request still has to do for an account: set the password of its  *)
(* pool account, add its row, delete its pool account.                     *)
ForAccount(call, sub) == [call |-> call, by |-> sub]
ForAccounts(calls) == [call : calls, by : Subject]

(* What a request in hand may be.                                          *)
Unfinished ==
  ForAccounts({"creating_in_pool", "adding", "delete", "deleting_in_pool"})
  \cup {SettingAvatar(sub, NoUpload) : sub \in Subject}
  \cup Storings(Avatars)
  \cup Cleanings(ForAccounts({"deleting_in_pool"}) \cup {NoRequest})

(* No marker for a missing row, file or request is a row, file or request. *)
ASSUME MarkersAssumption ==
  /\ Absent # Gone
  /\ {Absent, Gone} \cap (UserRecord \cup Subject) = {}
  /\ NoFile \notin File
  /\ NoRequest \notin Unfinished

Exists(v, row) == v[row] \notin {Absent, Gone}
Avatar(v, sub) == v[UserRow(sub)].avatar

-----------------------------------------------------------------------------
(*                            Registration                                 *)

(* The pool has one account per email.  That an email is taken is answered *)
(* like a registration.                                                    *)
CreateInPool(p, sub) ==
  /\ tx[p] = Idle
  /\ pool[sub] = "unissued"
  /\ \A other \in Subject :
       EmailOf[other] = EmailOf[sub] => pool[other] \notin {"temporary", "confirmed"}
  /\ pool' = [pool EXCEPT ![sub] = "temporary"]
  /\ tx' = [tx EXCEPT ![p].request = ForAccount("creating_in_pool", sub)]
  /\ UNCHANGED <<db, uploads, files>>

(* The second call makes the password permanent; until then nobody can     *)
(* sign in.                                                                *)
SetPassword(p) ==
  /\ InStage(p, {"creating_in_pool"})
  /\ LET sub == tx[p].request.by IN
     \/ /\ pool' = [pool EXCEPT ![sub] = "confirmed"]
        /\ tx' = [tx EXCEPT ![p].request = ForAccount("adding", sub)]
     \/ /\ "password" \in Faults
        /\ tx' = [tx EXCEPT ![p] = Idle]
        /\ UNCHANGED pool
  /\ UNCHANGED <<db, uploads, files>>

(* Mutant: only the id is looked at, and the index follows.                *)
UnlessIdTaken(v, sub) == ~Exists(v, UserRow(sub))

(* ON CONFLICT DO NOTHING, whichever unique index the conflict is in.      *)
UnlessTaken(v, sub) == ~Exists(v, UserRow(sub)) /\ ~Exists(v, EmailRow(EmailOf[sub]))

Added(v, sub) ==
  IF UnlessTaken(v, sub)
    THEN [v EXCEPT ![UserRow(sub)] = [avatar |-> NoFile], ![EmailRow(EmailOf[sub])] = sub]
    ELSE v

(* The transaction of register, and of ensure_account.  Whether there is a *)
(* row then is only answered.                                              *)
AddRow(p) ==
  /\ tx[p].open
  /\ \E sub \in Subject :
       /\ tx[p].request = ForAccount("adding", sub)
       /\ Attempt(p, ForAccount("adding", sub), {}, Added(View(p), sub))
  /\ UNCHANGED <<uploads, files, pool>>

-----------------------------------------------------------------------------
(*                       The signed-in person                              *)

(* The token may be as old as the confirmed account.                       *)
SignedIn(sub) == pool[sub] \in {"confirmed", "deleted"}
Asks(p, sub) == SignedIn(sub) /\ Serves(p, NoRequest)

(* The first request of a subject asks the pool, which answers only while  *)
(* it has the account, and goes on in the snapshot that had no row.        *)
EnsureAccount(p, sub) ==
  /\ Asks(p, sub)
  /\ ~Exists(View(p), UserRow(sub))
  /\ pool[sub] = "confirmed"
  /\ tx' = [tx EXCEPT ![p].request = ForAccount("adding", sub)]
  /\ UNCHANGED <<db, uploads, files, pool>>

RequestAvatarUpload(p, sub) ==
  /\ Asks(p, sub)
  /\ Exists(View(p), UserRow(sub))
  /\ Presign
  /\ tx' = [tx EXCEPT ![p] = Idle]
  /\ UNCHANGED <<db, pool>>

ReadAvatar(p, sub, u) ==
  /\ Asks(p, sub)
  /\ Exists(View(p), UserRow(sub))
  /\ \/ StartStoring(p, SettingAvatar(sub, u))
     \/ RefuseUpload(p, u)
  /\ UNCHANGED pool

(* Mutant: what the row points at now is taken for what it pointed at.     *)
ReplacedByNew(v, sub, new) == Keys(new)
Replaced(v, sub, new) == Keys(Avatar(v, sub))

WithAvatar(v, sub, f) == [v EXCEPT ![UserRow(sub)].avatar = f]

AttachAvatar(p) ==
  /\ InStage(p, {"attaching"})
  /\ tx[p].open
  /\ LET sub == Purpose(p).by IN
     /\ Exists(View(p), UserRow(sub))
     /\ Attach(p, {}, WithAvatar(View(p), sub, InHand(p)),
               Cleaning(Replaced(View(p), sub, InHand(p)), NoRequest))
  /\ UNCHANGED <<uploads, files, pool>>

(* A rerun does not ask who is there: no row, no change.                   *)
RemoveAvatar(p, sub) ==
  /\ SignedIn(sub)
  /\ Serves(p, SettingAvatar(sub, NoUpload))
  /\ Exists(View(p), UserRow(sub))
  /\ AttemptThen(p, SettingAvatar(sub, NoUpload), {}, WithAvatar(View(p), sub, NoFile),
                 Cleaning(Replaced(View(p), sub, NoFile), NoRequest))
  /\ UNCHANGED <<uploads, files, pool>>

-----------------------------------------------------------------------------
(*                             Deletion                                    *)

(* Mutant: an account without an avatar is forgotten in the pool.          *)
AfterAvatar(v, sub) ==
  IF Avatar(v, sub) = NoFile THEN NoRequest
  ELSE Cleaning(Keys(Avatar(v, sub)), ForAccount("deleting_in_pool", sub))

AfterDeletion(v, sub) ==
  Cleaning(Keys(Avatar(v, sub)), ForAccount("deleting_in_pool", sub))

DeleteAccount(p, sub) ==
  /\ SignedIn(sub)
  /\ Serves(p, ForAccount("delete", sub))
  /\ Exists(View(p), UserRow(sub))
  /\ AttemptThen(p, ForAccount("delete", sub), {},
                 [View(p) EXCEPT ![UserRow(sub)] = Gone, ![EmailRow(EmailOf[sub])] = Absent],
                 AfterDeletion(View(p), sub))
  /\ UNCHANGED <<uploads, files, pool>>

(* A failure is only logged.                                               *)
DeleteInPool(p) ==
  /\ InStage(p, {"deleting_in_pool"})
  /\ \/ pool' = [pool EXCEPT ![tx[p].request.by] = "deleted"]
     \/ "pool" \in Faults /\ UNCHANGED pool
  /\ tx' = [tx EXCEPT ![p] = Idle]
  /\ UNCHANGED <<db, uploads, files>>

-----------------------------------------------------------------------------
Init ==
  /\ db = [row \in Row |-> Absent]
  /\ pool = [sub \in Subject |-> "unissued"]
  /\ MediaInit

Next ==
  \E p \in Session :
    \/ MediaStep(p) /\ UNCHANGED pool
    \/ SetPassword(p) \/ AddRow(p) \/ AttachAvatar(p) \/ DeleteInPool(p)
    \/ \E sub \in Subject :
         \/ CreateInPool(p, sub) \/ EnsureAccount(p, sub) \/ DeleteAccount(p, sub)
         \/ RequestAvatarUpload(p, sub) \/ RemoveAvatar(p, sub)
         \/ \E u \in Upload : ReadAvatar(p, sub, u)

Spec == Init /\ [][Next]_vars

-----------------------------------------------------------------------------
(*                              Properties                                 *)

DatabaseOK(v) ==
  /\ DOMAIN v = Row
  /\ \A sub \in Subject : v[UserRow(sub)] \in UserRecord \cup {Absent, Gone}
  /\ \A e \in Email : v[EmailRow(e)] \in Subject \cup {Absent}

TransactionOK(t) ==
  /\ DOMAIN t = {"open", "snapshot", "touched", "attempt", "request"}
  /\ t.open \in BOOLEAN
  /\ t.attempt \in 1 .. ATTEMPTS
  /\ t.touched \subseteq Row
  /\ t.request \in Unfinished \cup {NoRequest}
  /\ IF t.open THEN DatabaseOK(t.snapshot) ELSE t.snapshot = <<>> /\ t.touched = {}

(* Every row, of the database and of every open snapshot, every request,   *)
(* file and pool account has its type.                                     *)
TypeOK ==
  /\ DatabaseOK(db)
  /\ DOMAIN tx = Session
  /\ \A p \in Session : TransactionOK(tx[p])
  /\ pool \in [Subject -> {"unissued", "temporary", "confirmed", "deleted"}]
  /\ MediaTypeOK

(* No two rows share an email, and the index names the row that has it:    *)
(* registrations, first requests and deletions of the accounts an email had*)
(* one after another overlap.                                              *)
OneRowPerEmail ==
  \A e \in Email : {sub \in Subject : EmailOf[sub] = e /\ Exists(db, UserRow(sub))}
                     = IF Exists(db, EmailRow(e)) THEN {db[EmailRow(e)]} ELSE {}

(* "linking it would hand that account's workspaces to whoever holds the   *)
(* address now": an email never goes from one row to another without the   *)
(* first one being deleted in between.                                     *)
NeverHandedOver ==
  [][\A e \in Email : Exists(db, EmailRow(e)) =>
       db'[EmailRow(e)] \in {db[EmailRow(e)], Absent}]_vars

(* Every avatar that is shown has its file, though it is replaced, removed *)
(* and deleted with its account by overlapping requests.                   *)
FilesOf(v, sub) == IF Exists(v, UserRow(sub)) THEN Keys(Avatar(v, sub)) ELSE {}
Shown == UNION {FilesOf(db, sub) : sub \in Subject}
AvatarsHaveFiles == \A f \in Shown : files[f] = "stored"

(* No orphan: a stored file is the avatar of a row, or some request has it *)
(* in hand, also when the account was deleted while the file was stored.   *)
FilesAccountedFor ==
  \A f \in File : files[f] = "stored" => f \in Shown \/ \E p \in Session : HasToDelete(p, f)

Deleting(p, sub) ==
  \/ tx[p].request = ForAccount("deleting_in_pool", sub)
  \/ InStage(p, {"cleaning"}) /\ tx[p].request.then = ForAccount("deleting_in_pool", sub)

(* A deleted account ends in both stores: as long as the pool still has one*)
(* whose row was deleted, the request that deleted it is not done.         *)
DeletedInBoth ==
  \A sub \in Subject : db[UserRow(sub)] = Gone /\ pool[sub] = "confirmed" =>
    \E p \in Session : Deleting(p, sub)

(* Whoever the pool can sign in has a row or can get one: no other row,    *)
(* long left by its own account, holds the email.                          *)
NobodyIsLockedOut ==
  \A sub \in Subject : pool[sub] = "confirmed" => db[EmailRow(EmailOf[sub])] \in {sub, Absent}

-----------------------------------------------------------------------------
(*                     The inductive invariants                            *)

(* OneRowPerEmail, for any view of the database.                           *)
IndexOK(v) ==
  /\ \A sub \in Subject : Exists(v, UserRow(sub)) <=> v[EmailRow(EmailOf[sub])] = sub
  /\ \A e \in Email, sub \in Subject : v[EmailRow(e)] = sub => EmailOf[sub] = e

(* What an open transaction relies on: its snapshot was right about rows   *)
(* and index together, and still is about every row nobody touched since.  *)
Agrees(v, s, touched) == \A row \in Row \ touched : v[row] = s[row]

IInv ==
  /\ TypeOK
  /\ IndexOK(db)
  /\ \A p \in Session : tx[p].open =>
       IndexOK(tx[p].snapshot) /\ Agrees(db, tx[p].snapshot, tx[p].touched)

(* A file is in one place: shown by one row, or in the hands of one request*)
(* that will show or delete it.  A file on its way to a row is in no       *)
(* snapshot, so no request can mistake it for the avatar it replaces.      *)
FilesInOnePlace ==
  /\ \A sub, other \in Subject : sub # other => FilesOf(db, sub) \cap FilesOf(db, other) = {}
  /\ AvatarsHaveFiles
  /\ \A p \in Session, f \in File : HasToDelete(p, f) =>
       /\ files[f] = "stored" /\ f \notin Shown
       /\ \A q \in Session : HasToDelete(q, f) => q = p
  /\ \A p \in Session : tx[p].open =>
       /\ ~InStage(p, {"cleaning"})
       /\ \A sub \in Subject : \A f \in FilesOf(tx[p].snapshot, sub) :
            /\ files[f] # "unused"
            /\ \A q \in Session : InStage(q, {"consuming", "attaching"}) => InHand(q) # f

(* What the two stores know of each other: a row is deleted, and a pool    *)
(* account about to be, only once the pool could sign it in; one request   *)
(* sets the password of an account, and no transaction is open meanwhile.  *)
PoolInStep ==
  /\ \A sub \in Subject :
       db[UserRow(sub)] = Gone \/ (\E p \in Session : Deleting(p, sub)) => SignedIn(sub)
  /\ \A p, q \in Session : InStage(p, {"creating_in_pool"}) =>
       /\ pool[tx[p].request.by] = "temporary"
       /\ InStage(q, {"creating_in_pool"}) /\ tx[q].request.by = tx[p].request.by => q = p
  /\ \A p \in Session : tx[p].open => ~InStage(p, Outside)
=============================================================================
