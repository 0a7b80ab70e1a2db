-------------------------------- MODULE Media --------------------------------
(***************************************************************************)
(* The bucket (S3MediaStorage), and the way use cases work with it around  *)
(* their transactions.  It knows nothing of transactions, so every call is *)
(* a step of its own:                                                      *)
(*  - before: an upload is read, re-encoded, stored under a fresh name and *)
(*    consumed, and only then does a transaction attach the file to a row  *)
(*    (an image of a product, a logo, an avatar); if that raises, the file *)
(*    is deleted again;                                                    *)
(*  - after: the files of rows that are gone, or point elsewhere, are      *)
(*    deleted once the commit is known.                                    *)
(* A thumbnail is stored and deleted with its image.                       *)
(***************************************************************************)
EXTENDS UnitOfWork, FiniteSets

CONSTANTS
  Upload,      \* the keys handed out for uploads
  TooLarge,    \* the uploads that turn out larger than allowed
  File,        \* names for stored files
  NoFile,
  Killable,    \* the sessions that may die, or fail in the bucket, anywhere
  Faults       \* "undeleted": the bucket may refuse to delete an object;
               \* "unanswered": a commit may succeed and report an error;
               \* "password", "pool": the user pool may fail to set the
               \* password of a new account, or to delete one

ASSUME MediaAssumption == TooLarge \subseteq Upload /\ Killable \subseteq Session

VARIABLES
  uploads,     \* [Upload -> whether it waits in the bucket]
  files        \* [File -> whether it is in the bucket]

Bucket == <<uploads, files>>

-----------------------------------------------------------------------------
(* What is left of a request between its transactions.                     *)

(* The file of a request on its way from an upload to a row.               *)
Storing(call, request, f) == [call |-> call, purpose |-> request, file |-> f]
Storings(requests) ==
  [call : {"storing"}, purpose : requests, file : {NoFile}]
  \cup [call : {"consuming", "attaching"}, purpose : requests, file : File]

(* Files to delete, and then whatever else.                                *)
Cleaning(fs, then) ==
  IF fs = {} THEN then ELSE [call |-> "cleaning", files |-> fs, then |-> then]
Cleanings(nexts) == [call : {"cleaning"}, files : (SUBSET File) \ {{}}, then : nexts]

Keys(f) == {f} \ {NoFile}

InStage(p, calls) == tx[p].request # NoRequest /\ tx[p].request.call \in calls
Purpose(p) == tx[p].request.purpose
InHand(p) == tx[p].request.file

-----------------------------------------------------------------------------
(*                            The bucket                                   *)

(* presign, and the client's upload with it.  The key is not tied to what  *)
(* it is for.                                                              *)
Presign ==
  /\ \E u \in Upload : uploads[u] = "unissued" /\ uploads' = [uploads EXCEPT ![u] = "pending"]
  /\ UNCHANGED files

(* What pending_size finds.                                                *)
Readable(u) == uploads[u] = "pending" /\ u \notin TooLarge

(* _read_pending succeeds; what becomes of the upload meanwhile does not   *)
(* matter any more.                                                        *)
StartStoring(p, request) ==
  /\ Readable(request.upload)
  /\ tx' = [tx EXCEPT ![p].request = Storing("storing", request, NoFile)]
  /\ UNCHANGED <<db, uploads, files>>

(* An upload that is not there answers 404; one over the limit is deleted. *)
RefuseUpload(p, u) ==
  /\ ~Readable(u)
  /\ \/ uploads[u] # "pending" /\ UNCHANGED uploads
     \/ uploads[u] = "pending" /\ uploads' = [uploads EXCEPT ![u] = "used"]
     \/ "undeleted" \in Faults /\ UNCHANGED uploads
  /\ tx' = [tx EXCEPT ![p] = Idle]
  /\ UNCHANGED <<db, files>>

StoreFile(p) ==
  /\ InStage(p, {"storing"})
  /\ \E f \in File :
       /\ files[f] = "unused"
       /\ files' = [files EXCEPT ![f] = "stored"]
       /\ tx' = [tx EXCEPT ![p].request = Storing("consuming", @.purpose, f)]
  /\ UNCHANGED <<db, uploads>>

ConsumeUpload(p) ==
  /\ InStage(p, {"consuming"})
  /\ \/ uploads' = [uploads EXCEPT ![Purpose(p).upload] = "used"]
     \/ "undeleted" \in Faults /\ UNCHANGED uploads
  /\ tx' = [tx EXCEPT ![p].request.call = "attaching"]
  /\ UNCHANGED <<db, files>>

(* MediaStorage.delete, for each file in turn: a refusal is only logged.   *)
CleanUp(p) ==
  /\ InStage(p, {"cleaning"})
  /\ \E kept \in SUBSET tx[p].request.files :
       /\ kept # {} => "undeleted" \in Faults
       /\ files' = [f \in File |-> IF f \in tx[p].request.files \ kept
                                     THEN "deleted" ELSE files[f]]
  /\ tx' = [tx EXCEPT ![p].request = tx[p].request.then]
  /\ UNCHANGED <<db, uploads>>

-----------------------------------------------------------------------------
(*                     Attaching a file to a row                           *)

LeavesFiles(p) == NoRequest          \* mutant: nothing is discarded
Discarding(p) == Cleaning({InHand(p)}, NoRequest)

(* Mutant: a rerun would be another run of the whole request.              *)
AttachOnce(p, locked, after, next) ==
  \/ Commit(p, locked, after, next)
  \/ LoseRaceElse(p, tx[p].request, locked, after, NoRequest)

(* The transaction that attaches the file.  Whatever it raises, even after *)
(* the commit, deletes the file again.                                     *)
Attach(p, locked, after, next) ==
  \/ Commit(p, locked, after, next)
  \/ "unanswered" \in Faults /\ Commit(p, locked, after, Discarding(p))
  \/ LoseRaceElse(p, tx[p].request, locked, after, Discarding(p))

(* A check refused, another request was first (a duplicate key), the       *)
(* connection broke, the call was cancelled.                               *)
FailAttach(p) ==
  /\ InStage(p, {"attaching"})
  /\ tx' = [tx EXCEPT ![p] = Waiting(Discarding(p), 1)]
  /\ UNCHANGED <<db, uploads, files>>

-----------------------------------------------------------------------------
(*                              Sessions                                   *)

(* The work a request does between its transactions, or before the first.  *)
Outside == {"cleaning", "creating_in_pool", "deleting_in_pool"}

(* Mutant: a statement is sent in the middle of that work.                 *)
StartAnywhere(p) == Begin(p) /\ UNCHANGED Bucket

(* No statement is sent meanwhile.                                         *)
Start(p) == ~InStage(p, Outside) /\ Begin(p) /\ UNCHANGED Bucket

(* A request that raises where it has no file in hand.                     *)
RollBackRequest(p) ==
  /\ ~InStage(p, {"consuming", "attaching"})
  /\ RollBack(p)
  /\ UNCHANGED Bucket

(* The execution environment dies, or the bucket raises, where nothing is  *)
(* left to tidy up after it.                                               *)
Interrupt(p) ==
  /\ p \in Killable
  /\ tx[p] # Idle
  /\ tx' = [tx EXCEPT ![p] = Idle]
  /\ UNCHANGED <<db, uploads, files>>

MediaStep(p) ==
  \/ Start(p) \/ RollBackRequest(p) \/ Interrupt(p)
  \/ StoreFile(p) \/ ConsumeUpload(p) \/ CleanUp(p) \/ FailAttach(p)

MediaInit ==
  /\ tx = [p \in Session |-> Idle]
  /\ uploads = [u \in Upload |-> "unissued"]
  /\ files = [f \in File |-> "unused"]

-----------------------------------------------------------------------------
MediaTypeOK ==
  /\ uploads \in [Upload -> {"unissued", "pending", "used"}]
  /\ files \in [File -> {"unused", "stored", "deleted"}]

HasToDelete(p, f) ==
  \/ InStage(p, {"consuming", "attaching"}) /\ InHand(p) = f
  \/ InStage(p, {"cleaning"}) /\ f \in tx[p].request.files
=============================================================================
