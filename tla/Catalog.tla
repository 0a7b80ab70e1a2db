------------------------------ MODULE Catalog ------------------------------
(***************************************************************************)
(* Products, their images and the logos of workspaces, with their files:   *)
(* every use case of ProductService, WorkspaceService.set_logo, the        *)
(* deletion of a workspace as far as these notice it, and WorkspacePurge,  *)
(* run by concurrent sessions beside the bucket of Media.                  *)
(*                                                                         *)
(* A request first resolves the workspace and the permission, in the       *)
(* snapshot that its first transaction goes on with; a rerun does not look *)
(* again.  An image is identified with its file: both ids are made         *)
(* together.                                                               *)
(***************************************************************************)
EXTENDS Media, Sequences, FiniteSetsExt

CONSTANTS
  Workspace, Product,
  Value,           \* what the fields of a product may hold
  MAX_VERSION,     \* bound: a product changes at most this often
  MAX_PRODUCTS, MAX_BYTES, MAX_IMAGES, PRODUCT_BATCH,
  PendingBytes,    \* [Upload -> the size that was uploaded]
  StoredBytes,     \* [Upload -> its size once re-encoded]
  Absent, Gone, NoVersion, NoUpload,
  Job,             \* the sessions of the scheduled job
  Requests

ASSUME LimitsAssumption ==
  /\ MAX_PRODUCTS \in Nat /\ MAX_BYTES \in Nat /\ MAX_IMAGES \in Nat \ {0}
  /\ MAX_VERSION \in Nat /\ PRODUCT_BATCH \in Nat \ {0}
  /\ PendingBytes \in [Upload -> Nat] /\ StoredBytes \in [Upload -> Nat]
ASSUME JobAssumption == Job \subseteq Session
ASSUME FiniteAssumption == IsFiniteSet(Product) /\ IsFiniteSet(File)

vars == <<db, tx, uploads, files>>

-----------------------------------------------------------------------------
(*                              Rows and requests                          *)

WorkspaceRow(w) == <<"workspace", w>>
ProductRow(x) == <<"product", x>>
ImageRow(f) == <<"image", f>>

Row == {WorkspaceRow(w) : w \in Workspace}
  \cup {ProductRow(x) : x \in Product} \cup {ImageRow(i) : i \in File}

WorkspaceRecord == [deleted : BOOLEAN, logo : File \cup {NoFile}]
ProductRecord == [workspace : Workspace, value : Value, updated_at : 0 .. MAX_VERSION]
ImageRecord == [workspace : Workspace, product : Product, upload : Upload,
                position : 0 .. MAX_IMAGES - 1]
Orders == UNION {[1 .. n -> File] : n \in 1 .. Cardinality(File)}

Request ==
  [call : {"create"}, workspace : Workspace, value : Value]
  \cup [call : {"update"}, workspace : Workspace, product : Product, value : Value,
        if_match : 0 .. MAX_VERSION \cup {NoVersion}]
  \cup [call : {"delete", "request_upload"}, workspace : Workspace, product : Product]
  \cup [call : {"confirm"}, workspace : Workspace, product : Product, upload : Upload]
  \cup [call : {"remove_image"}, workspace : Workspace, product : Product, image : File]
  \cup [call : {"reorder"}, workspace : Workspace, product : Product, order : Orders]
  \cup [call : {"request_logo", "delete_workspace", "purge"}, workspace : Workspace]
  \cup [call : {"set_logo"}, workspace : Workspace, upload : Upload \cup {NoUpload}]

ASSUME RequestsAssumption == Requests \subseteq Request

(* A purge goes on with the rows of the workspace.                         *)
PurgingRows(w) == [call |-> "purge_rows", workspace |-> w]

Stores == {r \in Requests : r.call = "confirm" \/ (r.call = "set_logo" /\ r.upload # NoUpload)}
Purges == {r \in Requests : r.call = "purge"} \cup {PurgingRows(w) : w \in Workspace}
Unfinished ==
  Requests \cup Purges \cup Cleanings(Purges \cup {NoRequest}) \cup Storings(Stores)

(* No marker for a missing row, file or request is a row, file or request. *)
ASSUME MarkersAssumption ==
  /\ Absent # Gone
  /\ {Absent, Gone} \cap (WorkspaceRecord \cup ProductRecord \cup ImageRecord) = {}
  /\ NoFile \notin File
  /\ NoRequest \notin Unfinished

-----------------------------------------------------------------------------
(*                       What the repositories read                        *)

Exists(v, row) == v[row] \notin {Absent, Gone}
Live(v, w) == Exists(v, WorkspaceRow(w)) /\ ~v[WorkspaceRow(w)].deleted
Deleted(v, w) == Exists(v, WorkspaceRow(w)) /\ v[WorkspaceRow(w)].deleted
ProductsOf(v, w) ==
  {x \in Product : Exists(v, ProductRow(x)) /\ v[ProductRow(x)].workspace = w}
ImagesOf(v, x) ==
  {i \in File : Exists(v, ImageRow(i)) /\ v[ImageRow(i)].product = x}
ImagesIn(v, w) ==
  {i \in File : Exists(v, ImageRow(i)) /\ v[ImageRow(i)].workspace = w}
StorageBytes(v, w) ==
  MapThenSumSet(LAMBDA i : StoredBytes[v[ImageRow(i)].upload], ImagesIn(v, w))
ImagesByUpload(v, x, u) == {i \in ImagesOf(v, x) : v[ImageRow(i)].upload = u}
Positions(v, x) == {v[ImageRow(i)].position : i \in ImagesOf(v, x)}

UniqueWhateverKey(v, x, u) == TRUE   \* mutant: no unique index on the key
UniqueUpload(v, x, u) == ImagesByUpload(v, x, u) = {}

Put(v, rows, contents) == [row \in DOMAIN v |-> IF row \in rows THEN contents ELSE v[row]]
WithoutCascade(v, xs) ==             \* mutant: the images stay behind
  Put(v, {ProductRow(x) : x \in xs}, Gone)
WithoutProducts(v, xs) ==
  Put(Put(v, {ProductRow(x) : x \in xs}, Gone),
      {ImageRow(i) : i \in UNION {ImagesOf(v, x) : x \in xs}}, Absent)

RoomForProduct(v, w) == Cardinality(ProductsOf(v, w)) < MAX_PRODUCTS
RoomForBytes(v, w, bytes) == StorageBytes(v, w) + bytes <= MAX_BYTES
RoomForImage(v, x) == Cardinality(ImagesOf(v, x)) < MAX_IMAGES

(* Locking a workspace that is not live finds nothing, and locks nothing;  *)
(* nobody looks at the answer.                                             *)
QuotaUnlocked(v, w) == {}            \* mutant: rooms are counted without lock
QuotaLock(v, w) == IF Live(v, w) THEN {WorkspaceRow(w)} ELSE {}

-----------------------------------------------------------------------------
(*                               Sessions                                  *)

(* The route resolved a live workspace in the snapshot of the first run.   *)
Handles(p, r, call) ==
  /\ r.call = call
  /\ p \notin Job
  /\ Serves(p, r)
  /\ tx[p].attempt > 1 \/ Live(View(p), r.workspace)

(* products.get: the product, locked, if it is one of this workspace.      *)
ProductUnlocked(r) == {}             \* mutant: read without FOR UPDATE
ProductLock(r) == {ProductRow(r.product)}
GetsProduct(p, r) == r.product \in ProductsOf(View(p), r.workspace)

(* What the session has in hand is for a request of this kind.             *)
Attaches(p, call) == InStage(p, {"attaching"}) /\ tx[p].open /\ Purpose(p).call = call

-----------------------------------------------------------------------------
(*                               Products                                  *)

NewProduct(r) == [workspace |-> r.workspace, value |-> r.value, updated_at |-> 0]

CreateProduct(p, r) ==
  /\ Handles(p, r, "create")
  /\ RoomForProduct(View(p), r.workspace)
  /\ \E x \in Product :
       /\ db[ProductRow(x)] = Absent
       /\ Attempt(p, r, QuotaLock(View(p), r.workspace),
                  [View(p) EXCEPT ![ProductRow(x)] = NewProduct(r)])
  /\ UNCHANGED Bucket

(* Mutant: the version is compared before the first run only.              *)
CheckedOnce(p, r) ==
  tx[p].attempt > 1 \/ r.if_match \in {NoVersion, View(p)[ProductRow(r.product)].updated_at}

EnsureUnchangedSince(p, r) ==
  r.if_match \in {NoVersion, View(p)[ProductRow(r.product)].updated_at}

(* updated_at moves with the fields of the product, not with its images.   *)
Updated(product, value) ==
  IF product.value = value THEN product
  ELSE [product EXCEPT !.value = value, !.updated_at = @ + 1]

UpdateProduct(p, r) ==
  /\ Handles(p, r, "update")
  /\ GetsProduct(p, r)
  /\ EnsureUnchangedSince(p, r)
  /\ View(p)[ProductRow(r.product)].updated_at < MAX_VERSION
  /\ Attempt(p, r, ProductLock(r),
             [View(p) EXCEPT ![ProductRow(r.product)] = Updated(@, r.value)])
  /\ UNCHANGED Bucket

DeleteProduct(p, r) ==
  /\ Handles(p, r, "delete")
  /\ GetsProduct(p, r)
  /\ AttemptThen(p, r, ProductLock(r), WithoutProducts(View(p), {r.product}),
                 Cleaning(ImagesOf(View(p), r.product), NoRequest))
  /\ UNCHANGED Bucket

-----------------------------------------------------------------------------
(*                  Uploading and confirming an image                      *)

RequestUpload(p, r) ==
  /\ Handles(p, r, "request_upload")
  /\ GetsProduct(p, r)
  /\ RoomForImage(View(p), r.product)
  /\ Presign
  /\ tx' = [tx EXCEPT ![p] = Idle]
  /\ UNCHANGED db

NotConfirmed(p, r) ==
  /\ Handles(p, r, "confirm")
  /\ tx[p].request = NoRequest
  /\ GetsProduct(p, r)
  /\ ImagesByUpload(View(p), r.product, r.upload) = {}

(* The checks, then the upload is read.  The transaction the checks ran in *)
(* stays open while the image is worked on.                                *)
ReadUpload(p, r) ==
  /\ NotConfirmed(p, r)
  /\ RoomForBytes(View(p), r.workspace, PendingBytes[r.upload])
  /\ RoomForImage(View(p), r.product)
  /\ StartStoring(p, r)

UploadNotFound(p, r) == NotConfirmed(p, r) /\ RefuseUpload(p, r.upload)

(* The image comes last.                                                   *)
AddedImage(v, r) ==
  [workspace |-> r.workspace, product |-> r.product, upload |-> r.upload,
   position |-> Cardinality(ImagesOf(v, r.product))]

AttachImage(p) ==
  /\ Attaches(p, "confirm")
  /\ LET v == View(p)
         r == Purpose(p)
     IN /\ GetsProduct(p, r)
        /\ RoomForImage(v, r.product)
        /\ RoomForBytes(v, r.workspace, StoredBytes[r.upload])
        /\ UniqueUpload(v, r.product, r.upload)
        /\ Attach(p, QuotaLock(v, r.workspace) \cup ProductLock(r),
                  [v EXCEPT ![ImageRow(InHand(p))] = AddedImage(v, r)], NoRequest)
  /\ UNCHANGED Bucket

(* The product is gone, or full, or the quota is: the checks of attach.    *)
RefuseAttach(p) ==
  /\ Attaches(p, "confirm")
  /\ LET r == Purpose(p) IN
     \/ ~GetsProduct(p, r)
     \/ ~RoomForImage(View(p), r.product)
     \/ ~RoomForBytes(View(p), r.workspace, StoredBytes[r.upload])
  /\ FailAttach(p)

-----------------------------------------------------------------------------
(*                          Arranging images                               *)

(* The gap closes: those left keep their order and count from zero.        *)
Closed(v, x, i) ==
  LET left == ImagesOf(v, x) \ {i}
      before(j) == {k \in left : v[ImageRow(k)].position < v[ImageRow(j)].position}
  IN [row \in DOMAIN v |->
        IF row = ImageRow(i) THEN Absent
        ELSE IF row \in {ImageRow(j) : j \in left}
          THEN [v[row] EXCEPT !.position = Cardinality(before(row[2]))]
          ELSE v[row]]

RemoveImage(p, r) ==
  /\ Handles(p, r, "remove_image")
  /\ GetsProduct(p, r)
  /\ r.image \in ImagesOf(View(p), r.product)
  /\ AttemptThen(p, r, ProductLock(r), Closed(View(p), r.product, r.image),
                 Cleaning({r.image}, NoRequest))
  /\ UNCHANGED Bucket

ListsEachOnce(order, images) ==
  Len(order) = Cardinality(images) /\ {order[n] : n \in DOMAIN order} = images

ReorderImages(p, r) ==
  /\ Handles(p, r, "reorder")
  /\ GetsProduct(p, r)
  /\ ListsEachOnce(r.order, ImagesOf(View(p), r.product))
  /\ Attempt(p, r, ProductLock(r),
             [row \in Row |->
                IF \E n \in DOMAIN r.order : row = ImageRow(r.order[n])
                  THEN [View(p)[row] EXCEPT !.position =
                          (CHOOSE n \in DOMAIN r.order : row = ImageRow(r.order[n])) - 1]
                  ELSE View(p)[row]])
  /\ UNCHANGED Bucket

-----------------------------------------------------------------------------
(*                                Logos                                    *)

RequestLogoUpload(p, r) ==
  /\ Handles(p, r, "request_logo")
  /\ Presign
  /\ tx' = [tx EXCEPT ![p] = Idle]
  /\ UNCHANGED db

ReadLogo(p, r) ==
  /\ Handles(p, r, "set_logo")
  /\ tx[p].request = NoRequest
  /\ r.upload # NoUpload
  /\ \/ StartStoring(p, r)
     \/ RefuseUpload(p, r.upload)

Logo(v, w) == v[WorkspaceRow(w)].logo
(* Mutant: to remove the logo is taken for leaving it as it is.            *)
WithLogoIfAny(v, w, f) == IF f = NoFile THEN v ELSE [v EXCEPT ![WorkspaceRow(w)].logo = f]
WithLogo(v, w, f) == [v EXCEPT ![WorkspaceRow(w)].logo = f]

(* The locked workspace is looked at again, in every run.  The logo it had *)
(* goes after the commit.                                                  *)
AttachLogo(p) ==
  /\ Attaches(p, "set_logo")
  /\ LET w == Purpose(p).workspace IN
     /\ Live(View(p), w)
     /\ Attach(p, {WorkspaceRow(w)}, WithLogo(View(p), w, InHand(p)),
               Cleaning(Keys(Logo(View(p), w)), NoRequest))
  /\ UNCHANGED Bucket

RemoveLogo(p, r) ==
  /\ Handles(p, r, "set_logo")
  /\ r.upload = NoUpload
  /\ Live(View(p), r.workspace)
  /\ AttemptThen(p, r, {WorkspaceRow(r.workspace)}, WithLogo(View(p), r.workspace, NoFile),
                 Cleaning(Keys(Logo(View(p), r.workspace)), NoRequest))
  /\ UNCHANGED Bucket

-----------------------------------------------------------------------------
(*                    Deleting and purging a workspace                     *)

DeleteWorkspace(p, r) ==
  /\ Handles(p, r, "delete_workspace")
  /\ Live(View(p), r.workspace)
  /\ Attempt(p, r, {WorkspaceRow(r.workspace)},
             [View(p) EXCEPT ![WorkspaceRow(r.workspace)].deleted = TRUE])
  /\ UNCHANGED Bucket

(* Mutant: no batch is ever the last one.                                  *)
AlwaysAnotherBatch(r, batch) == IF Cardinality(batch) > PRODUCT_BATCH THEN PurgingRows(r.workspace) ELSE r

(* A batch that is not full was the last one.                              *)
AfterBatch(r, batch) ==
  IF Cardinality(batch) < PRODUCT_BATCH THEN PurgingRows(r.workspace) ELSE r

(* One batch, whose files go once it is committed.  The purge was given    *)
(* the workspace as a deleted one; another purge may have ended since.     *)
PurgeBatch(p, r) ==
  /\ r.call = "purge"
  /\ Serves(p, r)
  /\ ~Live(View(p), r.workspace)
  /\ LET v == View(p)
         products == ProductsOf(v, r.workspace)
     IN \E batch \in SUBSET products :
          /\ Cardinality(batch) = Min({PRODUCT_BATCH, Cardinality(products)})
          /\ AttemptThen(p, r, {}, WithoutProducts(v, batch),
                         Cleaning(UNION {ImagesOf(v, x) : x \in batch}, AfterBatch(r, batch)))
  /\ UNCHANGED Bucket

PurgeRows(p, w) ==
  /\ tx[p].open
  /\ tx[p].request = PurgingRows(w)
  /\ IF Deleted(View(p), w)
       THEN AttemptThen(p, PurgingRows(w), {}, [View(p) EXCEPT ![WorkspaceRow(w)] = Gone],
                        Cleaning(Keys(Logo(View(p), w)), NoRequest))
       ELSE Attempt(p, PurgingRows(w), {}, View(p))
  /\ UNCHANGED Bucket

-----------------------------------------------------------------------------
Init ==
  /\ db = [row \in Row |-> IF row \in {WorkspaceRow(w) : w \in Workspace}
                             THEN [deleted |-> FALSE, logo |-> NoFile] ELSE Absent]
  /\ MediaInit

Next ==
  \E p \in Session :
    \/ MediaStep(p)
    \/ AttachImage(p) \/ RefuseAttach(p) \/ AttachLogo(p)
    \/ \E w \in Workspace : PurgeRows(p, w)
    \/ \E r \in Requests :
         \/ CreateProduct(p, r) \/ UpdateProduct(p, r) \/ DeleteProduct(p, r)
         \/ RequestUpload(p, r) \/ ReadUpload(p, r) \/ UploadNotFound(p, r)
         \/ RemoveImage(p, r) \/ ReorderImages(p, r)
         \/ RequestLogoUpload(p, r) \/ ReadLogo(p, r) \/ RemoveLogo(p, r)
         \/ DeleteWorkspace(p, r) \/ PurgeBatch(p, r)

Spec == Init /\ [][Next]_vars

(* The schedule invokes the job for ever, and a run that fails is retried: *)
(* no step of a purge that is possible again and again is put off for ever,*)
(* and no run waits for ever (its Lambda times out).                       *)
(* Nothing is assumed of the sessions that serve clients.                  *)
Fairness ==
  \A p \in Job, w \in Workspace :
    /\ SF_vars(Start(p))
    /\ WF_vars(RollBackRequest(p))
    /\ SF_vars(Start(p) /\ tx[p].request = PurgingRows(w))
    /\ SF_vars(CleanUp(p))
    /\ SF_vars(\E r \in Requests : r.workspace = w /\ PurgeBatch(p, r))
    /\ SF_vars(PurgeRows(p, w))

FairSpec == Spec /\ Fairness

-----------------------------------------------------------------------------
(*                              Properties                                 *)

DatabaseOK(v) ==
  /\ DOMAIN v = Row
  /\ \A w \in Workspace : v[WorkspaceRow(w)] \in WorkspaceRecord \cup {Gone}
  /\ \A x \in Product : v[ProductRow(x)] \in ProductRecord \cup {Absent, Gone}
  /\ \A i \in File : v[ImageRow(i)] \in ImageRecord \cup {Absent}

TransactionOK(t) ==
  /\ DOMAIN t = {"open", "snapshot", "touched", "attempt", "request"}
  /\ t.open \in BOOLEAN
  /\ t.attempt \in 1 .. ATTEMPTS
  /\ t.touched \subseteq Row
  /\ t.request \in Unfinished \cup {NoRequest}
  /\ IF t.open THEN DatabaseOK(t.snapshot) ELSE t.snapshot = <<>> /\ t.touched = {}

(* Every row, of the database and of every open snapshot, every request,   *)
(* upload and file has its type.                                           *)
TypeOK ==
  /\ DatabaseOK(db)
  /\ DOMAIN tx = Session
  /\ \A p \in Session : TransactionOK(tx[p])
  /\ MediaTypeOK

(* A live workspace never holds more products or bytes than its quotas:    *)
(* two creations, or two attached images, cannot both take the last room,  *)
(* because both lock the workspace (_lock_quota).                          *)
QuotasHold ==
  \A w \in Workspace : Live(db, w) =>
    /\ Cardinality(ProductsOf(db, w)) <= MAX_PRODUCTS
    /\ StorageBytes(db, w) <= MAX_BYTES

(* The images of a product are in positions 0 to n-1, each once, however   *)
(* attaching, removing and reordering overlap (product.py, remove_image);  *)
(* and there are at most MAX_IMAGES of them.                               *)
PositionsAreDense ==
  \A x \in Product :
    /\ Positions(db, x) = 0 .. Cardinality(ImagesOf(db, x)) - 1
    /\ Cardinality(ImagesOf(db, x)) <= MAX_IMAGES

(* No image outlives its product: attaching one overlaps with deleting the *)
(* product, or with a batch of the purge that takes it, and loses.         *)
ImagesHaveProducts ==
  \A i \in File : Exists(db, ImageRow(i)) =>
    db[ImageRow(i)].product \in ProductsOf(db, db[ImageRow(i)].workspace)

(* The file that an image is, or that a workspace shows as its logo.       *)
FilesOf(v, row) ==
  {f \in File : /\ Exists(v, row)
                /\ \/ row = ImageRow(f)
                   \/ \E w \in Workspace : row = WorkspaceRow(w) /\ Logo(v, w) = f}
Shown == UNION {FilesOf(db, row) : row \in Row}

(* Every image that is listed, and every logo, can be shown: its file is   *)
(* stored before the row points at it and deleted after nothing does, a    *)
(* request that lost discards its own file and never the winner's.         *)
ShownFilesExist == \A f \in Shown : files[f] = "stored"

(* No orphan file: one that is stored is shown, or some session still has  *)
(* it in hand and will attach or delete it (the tests of confirm_image and *)
(* set_logo: a failed change "leaves no orphan").                          *)
FilesAccountedFor ==
  \A f \in File : files[f] = "stored" => f \in Shown \/ \E p \in Session : HasToDelete(p, f)

(* One upload gives a product at most one image, though two confirms of it *)
(* may have passed the lookup by its key.                                  *)
OneImagePerUpload ==
  \A x \in Product, u \in Upload : Cardinality(ImagesByUpload(db, x, u)) <= 1

VersionedUpdates == {r \in Requests : r.call = "update" /\ r.if_match # NoVersion}

(* An update sent with If-Match changes the very version the client saw,   *)
(* though it was checked in a snapshot and commits later.                  *)
NoLostUpdate ==
  [][\A p \in Session, r \in VersionedUpdates :
       UpdateProduct(p, r) /\ db' # db
         => db[ProductRow(r.product)].updated_at = r.if_match]_vars

(* Products belong to workspaces whose rows exist, live or deleted.        *)
ProductsHaveWorkspaces ==
  \A x \in Product :
    Exists(db, ProductRow(x)) => Exists(db, WorkspaceRow(db[ProductRow(x)].workspace))

(* A deleted workspace is purged in the end, whatever the clients do and   *)
(* wherever the job is interrupted (purge.py: it resumes on the next run). *)
PurgeCompletes == \A w \in Workspace : Deleted(db, w) ~> ~Exists(db, WorkspaceRow(w))

-----------------------------------------------------------------------------
(*                     The inductive invariants                            *)

(* One product and its images, for any view of the database: the images    *)
(* belong to it, in positions of their own from 0, from uploads of their   *)
(* own, and are not too many.                                              *)
ImagesOK(v, x) ==
  LET images == ImagesOf(v, x) IN
  /\ \A i \in images : x \in ProductsOf(v, v[ImageRow(i)].workspace)
  /\ Cardinality(images) <= MAX_IMAGES
  /\ Positions(v, x) = 0 .. Cardinality(images) - 1
  /\ \A i, j \in images : i # j =>
       /\ v[ImageRow(i)].position # v[ImageRow(j)].position
       /\ v[ImageRow(i)].upload # v[ImageRow(j)].upload

SameImages(v, s, x) ==
  \A i \in ImagesOf(v, x) \cup ImagesOf(s, x) : v[ImageRow(i)] = s[ImageRow(i)]

(* Nothing counts against the quotas of w in v that did not in s.          *)
NoProductsAdded(v, s, w) == ProductsOf(v, w) \subseteq ProductsOf(s, w)
NoImagesAdded(v, s, w) ==
  \A i \in ImagesIn(v, w) :
    i \in ImagesIn(s, w) /\ v[ImageRow(i)].upload = s[ImageRow(i)].upload

(* What an open transaction relies on.  Its snapshot is still right about  *)
(* every row nobody touched; about all the images of a product nobody      *)
(* touched, because whoever changes one locks or writes the product; and a *)
(* live workspace nobody touched holds nothing it does not know of, because*)
(* whoever adds to a live workspace locks it.                              *)
Relies(v, s, touched) ==
  /\ \A row \in Row \ touched : v[row] = s[row]
  /\ \A x \in Product :
       /\ v[ProductRow(x)] = Absent => s[ProductRow(x)] = Absent
       /\ ProductRow(x) \notin touched => SameImages(v, s, x)
  /\ \A w \in Workspace :
       IF Live(s, w)
         THEN WorkspaceRow(w) \notin touched =>
                NoProductsAdded(v, s, w) /\ NoImagesAdded(v, s, w)
         ELSE ~Live(v, w)

(* A file that is not shown yet: no row, and no row of a snapshot, has it. *)
InNoRow(f) ==
  /\ \A row \in Row : f \notin FilesOf(db, row)
  /\ \A q \in Session : tx[q].open => \A row \in Row : f \notin FilesOf(tx[q].snapshot, row)

FilesAreNew ==
  /\ \A f \in File : files[f] = "unused" => InNoRow(f)
  /\ \A p \in Session : InStage(p, {"consuming", "attaching"}) =>
       /\ InNoRow(InHand(p))
       /\ files[InHand(p)] # "unused"
       /\ \A q \in Session :
            InStage(q, {"consuming", "attaching"}) /\ InHand(q) = InHand(p) => q = p

IInv ==
  /\ TypeOK
  /\ \A x \in Product : ImagesOK(db, x)
  /\ QuotasHold
  /\ FilesAreNew
  /\ \A p \in Session : tx[p].open =>
       /\ ~InStage(p, {"cleaning"})
       /\ \A x \in Product : ImagesOK(tx[p].snapshot, x)
       /\ Relies(db, tx[p].snapshot, tx[p].touched)

(* A file is in one place: shown by one row, or in the hands of one request*)
(* that will show or delete it.                                            *)
FilesInOnePlace ==
  /\ ShownFilesExist
  /\ \A row, other \in Row : row # other => FilesOf(db, row) \cap FilesOf(db, other) = {}
  /\ \A p \in Session, f \in File : HasToDelete(p, f) =>
       /\ files[f] = "stored" /\ f \notin Shown
       /\ \A q \in Session : HasToDelete(q, f) => q = p
=============================================================================
