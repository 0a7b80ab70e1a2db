# Specifications of mvp-api

TLA+ models of the parts of this repository where concurrency, partial failure and
ordering decide whether it is correct, TLC configurations that check them on small
instances, and proofs checked by TLAPS.

## The system

`app/` is a FastAPI service that runs on Lambda, one request per execution environment,
many environments at once. All of them share an Aurora DSQL database, a user pool
(Cognito), a bucket (S3), a rate limit table (DynamoDB), a mail service and a realtime
channel. A scheduled Lambda runs the purge.

| Component | State | Operations | What makes it hard | Correct when |
|---|---|---|---|---|
| Unit of work (`infrastructure/db/unit_of_work.py`) | the open transaction of each session, attempts | `transaction`, `flush` | optimistic concurrency: snapshots, SQLSTATE 40001, reruns of the work | a rerun starts from nothing; the last attempt leaves nothing |
| Accounts (`application/accounts.py`, `domain/user.py`) | users: onboarding status, name, avatar | register, ensure_account, rename, avatar, delete | no foreign keys; deletion overlaps everything the account still does; two stores (pool, database) | the status agrees with the memberships; no two rows share an email; a deleted account leaves nothing behind, in either store |
| Workspaces (`application/workspaces.py`, `domain/workspace.py`) | workspaces, roles and permissions, members, invitations | create, update, logo, delete, roles, members, transfer, invitations | locks on the workspace row, checks on other rows, invitations found before the lock | one owner; roles in use exist; usable invitations are live; no change without its permission |
| Access (`application/access.py`, `domain/access.py`) | none | require, permits | read in the transaction it guards, or (products) when the request is routed | what commits is allowed when it commits |
| Products (`application/products.py`, `domain/product.py`) | products, images, their positions and sizes | create, update, delete, confirm, remove, reorder | quotas, If-Match, positions; storage before and after the commit | quotas hold; positions are 0..n-1; no row of a purged workspace |
| Media (`infrastructure/aws/storage.py`) | uploads, stored objects | presign, store, delete | objects outlive crashes; an upload is consumed before its file is attached | no row points at a missing object; a file nobody shows is on its way out |
| Purge (`application/purge.py`, `jobs.py`) | progress in the database only | purge_all, purge | batches of their own, crashes, overlapping runs, retries | every deleted workspace is gone in the end |
| Identity (`infrastructure/aws/cognito.py`) | pool accounts | create, email_of, delete | two calls to create; the row is written after both, and deleted before it | an account in the pool can get a row; one whose row is gone goes too |
| Rate limiter (`infrastructure/aws/rate_limiter.py`) | a counter per window | hit | windows, an unavailable table | at most the limit per window |
| Listing (`repositories.py`, `page`, `after`) | none | pages and cursors | rows change between pages, the one the cursor was made of included; ties | a scroll stays in order; a row that stays put is listed once |
| Realtime, mail | none | notify, send | best effort after the commit | nothing depends on them |

They interact through the database only, except that account deletion calls the purge,
registration joins by invitation inside its own transaction, and products call the storage
around theirs. Every shared state is a row; the only tool the code has against a race is the
conflict at commit, so the central question is always the same: *which rows does a use case
write or lock, and which rows did its decision depend on?*

## Modules

| Module | Models |
|---|---|
| `UnitOfWork` | `SqlUnitOfWork.transaction` over an abstract database, for any number of sessions |
| `Workspaces` (extends `UnitOfWork`) | every use case that changes memberships, roles, ownership, invitations and onboarding |
| `Teams` | what workspaces promise to the people in them, in atomic steps: the abstract specification that `Workspaces` implements |
| `Media` (extends `UnitOfWork`) | the bucket, and how use cases store and delete files around their transactions |
| `Catalog` (extends `Media`) | products and their images, logos, the deletion of a workspace and the purge job |
| `Accounts` (extends `Media`) | account rows against the user pool, and avatars |
| `Listing` | pages of products, by cursor and by number, between edits |
| `MCWorkspaces`, `MCCatalog`, `MCAccounts`, `MCListing` | the requests, sizes and symmetries of the runs |
| `UnitOfWorkProofs` | what a commit does to the rows and to the other sessions, whatever the use cases are |
| `WorkspacesProofs` | proofs about `Workspaces`: types and ownership |
| `LocksProofs` (extends `WorkspacesProofs`) | what the lock on a workspace's row is worth: invitations, roles in use, the purge, permissions |
| `TeamsProofs` (extends `LocksProofs`) | that `Workspaces` implements `Teams` |
| `CatalogProofs` | proofs about `Catalog`: quotas, positions, uploads, versions, and the files in the bucket |
| `AccountsProofs` | proofs about the rows, the index and the requests of `Accounts` |
| `AccountStoresProofs` (extends `AccountsProofs`) | proofs about the avatars in the bucket, and about the user pool |
| `ListingProofs` | proofs about `Listing`: order, completeness, the end |

```
UnitOfWork --- Workspaces --- MCWorkspaces        Teams <- (refined by) - Workspaces
     |             \--------- WorkspacesProofs --- LocksProofs --- TeamsProofs
     |--- Media --- Catalog --- MCCatalog         Listing --- MCListing
     |        |        \------ CatalogProofs             \--- ListingProofs
     |        \---- Accounts --- MCAccounts
     |                  \------ AccountsProofs --- AccountStoresProofs
     \--- UnitOfWorkProofs  (used by WorkspacesProofs, AccountsProofs and CatalogProofs)
```

### UnitOfWork

`db` is a function from rows to contents. `tx[p]` is the transaction of session `p`: whether
it is open, its snapshot, the rows other transactions committed changes to (or locks of)
since, the attempt, the request. `Begin` takes the snapshot. A use case is one run of `work`:
it computes from the snapshot the view it wants to leave; the rows it writes are those that
differ, because the ORM flushes changed attributes only. `Commit` merges them if the footprint
(written and locked rows) is disjoint from what others touched; `LoseRace` is the 40001
branch, with another attempt or, after the last, nothing. `RollBack` is every other exception,
a refusal included: a request that is refused changes nothing, so the use cases below only
model the runs that reach the commit.

Running `work` and committing are one step: between them a transaction sees nothing but its
snapshot and shows nothing to anybody, so only the moments of the snapshot and of the commit
matter. Two facts about DSQL, which is not in this repository, are used (head of the module):
reads come from the snapshot of the first statement, and a commit fails with 40001 when a row
it wrote or locked was written or locked by a transaction that committed since. README
("Transactions are optimistic") and `ports.py` ("locked until the transaction ends") rely on
both.

### Workspaces

`db` holds the rows of `users`, `workspaces`, `roles` (with `role_permissions`), `members` and
`invitations`. An account row is its onboarding status, a member row its role. `Absent` is a
row that does not exist, `Gone` one that was deleted and whose random id is not used again.
`expired` is the set of invitations whose seven days are over: it is read from the clock, not
from the snapshot, so it is a variable outside `db`.

Each action is a handler of `WorkspaceService` or `AccountService` under its own name, with
its checks as conjuncts, in the order lock, permission, guards, writes, checks of the result.
`Changes` is the common head "lock the live workspace, require the permission"; that the
lock's row is in the footprint is `AttemptLocked`. `Deletion` is what remains of an account
deletion after its first check: a purge in a transaction of its own per deleted workspace
(`PurgeOwned`), then the deletion itself, which checks again.

Abstracted: names and slugs (only role names matter; `UpdateWorkspace` keeps its lock and its
permission, which is what other requests notice of it), mails, hashes of tokens. An email is
its account: what becomes of an email that another account holds is in `Accounts`, and the logo
is in `Catalog`. Two unique indexes (role name in a workspace, member) are guards. An id chosen
at random is one nobody uses yet.

### Teams, and how Workspaces implements it

`Teams` has no rows, locks, snapshots or reruns: a team is a state and a role per person, an
offer is somebody's right to join, and every change happens at once in the state everybody
sees. `ImplementsTeams` maps a workspace's member rows to the roles of its team, its `deleted`
flag to `closed`, and the invitations that are pending, unexpired and of a role that still
exists to the offers; then every step of `Workspaces` is a step of `Teams` or changes nothing in
it. That is more than the invariants say: a role is only given to somebody who has one *now*,
ownership only moves from whoever holds it *now*, joining needs an offer that nobody withdrew,
and the offers of a team end in the same step as the team, although each handler decided all of
that in an old snapshot. `Forget` is the one change that touches several teams: the deletion
of an account. What the refinement hides (onboarding, permissions, purged rows) has
properties of its own.

### Media

`uploads` says whether an upload waits in the bucket, `files` whether a stored file is in it. The
bucket takes part in no transaction, so what a request still has to do is its `tx[p].request`:
`storing` (the upload was read), then `consuming`, then `attaching`, the transaction that puts
the file in a row; `cleaning` are files to delete after a commit, or after an attach that
raised. `Presign` joins the presigned POST and the client's upload with it. An upload that is
missing or too large is refused (`RefuseUpload`); decoding an image is success or an exception.

Three kinds of failure are modelled: `FailAttach`, any exception while a file is in hand, always
possible; `Interrupt`, the execution environment that disappears, or an exception of the bucket
where nothing tidies up, at any step of a session in `Killable`; and `Faults`, a bucket that
refuses to delete (which is only logged), a commit that succeeds and reports an error, a user
pool that fails.

### Catalog

`db` holds the rows of `workspaces` (whether it is deleted, its logo), `products` and
`product_images`. An image is its file: both ids are made together, and its thumbnail is stored
and deleted with it. A product's `updated_at` counts its changes.

Each action is again a handler under its name, and two things differ from `Workspaces`:

- The route resolves the workspace and the permission, in the session and the snapshot that
  the first run of `work` goes on with; a rerun starts from the use case, so it does not look
  again (`Handles`). `_lock_quota` does not look at what it locked (`QuotaLock`).
- The transaction opened by the checks of a confirmation stays open while the image is worked
  on, so its first attach runs in that old snapshot. A purge goes on from batch to batch and then
  to the row of the workspace (`PurgingRows`).

The permission is not looked up here (`Workspaces` has it for its own use cases; composing the
two is in the plan). Left out: announcements, uploads that expire.

### Accounts

`db` holds the rows of `users`, as their avatar, and the unique index on emails as rows of its own
(`EmailRow`), so that two inserts of one email share a row of their footprints. `pool` is what
the user pool has of each subject: `temporary` after the first of the two calls of
`create_account`, `confirmed` after the second, `deleted`. A subject is given out once; several
may be given out for one email, one after another. Clients sign in with the pool directly, so a
first request (`EnsureAccount`) may come from anybody whose pool account is or was confirmed: a
token outlives its account.

`ensure_account` reads the row, asks the pool and inserts in the same transaction; the question
to the pool is the step between. An insert that conflicts changes nothing and raises nothing
(`Added`). A deletion removes the row, then the avatar, then the pool account. Memberships do
not occur here, and avatars not in `Workspaces`: a deletion here is one that found no workspace
in its way.

### Listing

One client lists the products of a workspace, page after page; between two pages members create,
change, move, hide and delete products. `After` and `Page` are the two queries with their order
(the field, then the id), filter and end. `stayed` is a ghost variable: the products nobody
touched since the first page, and whether anything happened at all.

## Properties and runs

| Run | Instance | States | Checks |
|---|---|---|---|
| `membership` | 2 sessions, 2 accounts, 1 workspace, 2 invitations, 1 attempt | 35,000 | `TypeOK`, `IInv`, `OwnersAreSingle`, `UsableInvitationIsLive`, `OneUsableInvitation`, `PurgedForGood`, `ReturnedToWorkspaceStep`, `MembersPassedWorkspaceStep`, `SettledOnce`, `ImplementsTeams` |
| `roles` | the same with one invitation, one custom role and reruns | 47,000 | `RolesInUseExist`, `AuthorisedWhenCommitted`, `LockInv` |
| `images` | 2 sessions, 2 products for 1 place, 3 uploads (two of which grow when re-encoded) for 2 places and 3 bytes, commits that report an error | 42,000 | `TypeOK`, `QuotasHold`, `PositionsAreDense`, `OneImagePerUpload`, `FilesAccountedFor`, `IInv` |
| `details` | 2 sessions, 1 workspace with its logo, 2 uploads of which one is too large, 3 files; 1 product with 2 values, edits up to version 2 | 26,000 | `ShownFilesExist`, `FilesAccountedFor`, `FilesInOnePlace`, `NoLostUpdate` |
| `purge` | 2 clients and the job, 1 product, 1 upload, batches of 1; all may die, deletes may fail; `FairSpec` | 71,000 | `ImagesHaveProducts`, `FilesInOnePlace`, `PurgeCompletes` |
| `accounts` | 3 sessions, 2 subjects of one email, 1 upload, a pool that may fail between its two calls | 132,000 | `TypeOK`, `OneRowPerEmail`, `NeverHandedOver`, `AvatarsHaveFiles`, `FilesAccountedFor`, `DeletedInBoth`, `IInv`, `FilesInOnePlace`, `PoolInStep` |
| `listing` | every list of up to 4 products with 2 keys, pages of 2, both ways, both kinds of pages | 379,000 | `TypeOK`, `IInv`, `ScrolledInOrder`, `StayersListedOnce`, `QuietListingIsComplete` |

Bounds: the sets of the constants, and `ATTEMPTS` (3 in the code, 2 in the runs: a first
attempt, a rerun, and the last one that gives up are all there; `membership` has no reruns, where
a rerun is a first attempt in the state it starts from, and leaves them to `roles`, which runs the
same module, and to the proofs, which hold for any number). Nearly every race is between
two transactions, so two sessions show it; a third would only repeat one of them, except in
`purge`, where a client that confirms, one that deletes and the job are three roles, and in
`accounts`, where a registration, a first request of the account before it and its deletion are.
Two accounts are an owner and somebody else; `roles` lets the owner alone found the workspace,
and asks of everybody only what concerns roles, people to give them to, and permissions. One
upload is enough for avatars: two requests may have read it before either consumes it, and each
stores a file of its own. One workspace is enough where a property is about
one; the person who belongs to two is in `onboarding_skew`, where the property fails. Two
invitations compete for one email, or one is handed out after the other was settled. Every limit
(quotas, images per product, the batch, the page) is small enough to be reached, and the quotas
have one item more competing for them; with a batch of one, the purge of one product is a full
batch and an empty one; with pages of two, four products fill the last page and three do not.
`MAX_VERSION` bounds how often a product changes: two changes let a version be read and overtaken
twice. Ids, files and uploads run out because a used one is not used again, which bounds the
runs: TLC explores every reachable state. Sessions, products, files, uploads of
one size and subjects, where the requests treat them alike, are symmetric; `purge` uses no symmetry, since it checks a
liveness property. A listing ends when the client is told that there is no more, so `listing`
does not check deadlock.

### Conditions of what holds

Some properties hold in runs that leave something out on purpose, because with it they do not
hold, and the code accepts that or could not know better:

- `FilesAccountedFor` is checked where nobody dies and the bucket deletes what it is told to. A
  purge that dies between the commit of a batch and the deletion of its files leaves them for
  good, since only that run knew their keys; likewise a confirmation that dies. `ports.py` calls
  the deletion best effort.
- `ShownFilesExist` and `AvatarsHaveFiles` are checked without the fault `unanswered`, which
  `images` has: an error reported by a commit that succeeded makes the use case delete the file
  of a row that keeps pointing at it. For a logo or an avatar that is replaced this also loses
  track of the previous file, so `FilesAccountedFor` of `details` and `accounts` goes without it.
- `DeletedInBoth` goes without the fault `pool`: a pool that refuses to delete is only logged, and
  the account signs in again and gets a new row, as the code says.
- `AuthorisedWhenCommitted` exempts one case: the deletion of the sender's own account takes no
  lock on the workspaces it was a member of, so a change may commit just after the account that
  asked for it is gone.
- `ReturnedToWorkspaceStep` and `MembersPassedWorkspaceStep` hold in `membership`, with one
  workspace, where nobody names a profile late; the two cases left out are the runs
  `onboarding_skew` and `stuck_member` below.
- `ScrolledInOrder` and `StayersListedOnce` are about cursor pages. Numbered pages count rows
  from the start each time, so an edit before the page shifts the rest; of them only a listing
  during which nothing happens is required to be complete.

### Fairness

Only `PurgeCompletes` needs any. `Fairness` covers the sessions of the job and nothing else: no
client is assumed to come back, go on or give up. The schedule invokes the job every day for
ever, Lambda retries a failed run and its timeout ends one that hangs (`infra/lambda.tf`), so
every step of a purge that is possible again and again is taken at some time (strong fairness:
the job may die, and lose races, any number of times in between), and an open transaction ends
(weak fairness). The safety properties do not depend on it.

### Disagreements with the documentation

Each is a run of its own that finds the property violated: two sessions, two attempts and the
few rows the story needs.

- **Onboarding write skew** (`onboarding_skew`). `_return_to_workspace_step` promises that
  people who no longer belong to any workspace go back to that step. Two transactions that take
  somebody out of two workspaces lock different rows, each sees the other membership in its
  snapshot, and neither writes the account's row: both commit and the person stays `completed`
  without a workspace.
- **A member held at the workspace step** (`stuck_member`). The same pair of rows, the other way
  round: somebody names the profile, which moves an account without memberships to
  `workspace_pending`, while accepting an invitation, which leaves an account that has no name
  yet as it is. The first writes the account's row, the second the member's: both commit, and
  the member is refused in the workspace they have joined.
- **A member without an account** (`dangling_member`). README says the use cases keep references
  consistent. `AccountService.delete` overlapping a `create` or an accepted invitation of the
  same account (already `completed`, so its row is not written) touches no common row: the
  membership, or the whole workspace, outlives its owner.
- **A product without a workspace** (`late_product`). The rerun of a creation that lost against
  the deletion of the workspace does not resolve it again and locks nothing: it commits a
  product behind the back of the purge.
- **An email held by nobody** (`held_email`). A first request that found no row asks the pool
  while the account exists; before it inserts, another request of the same account gets the row
  and deletes it. The insert then succeeds, the pool account is deleted, and the row holds the
  email against whoever registers it next: every request of theirs is refused.

Two more are modelled and told here, without a run of their own. Of two confirmations of the
upload that takes the last place, the loser's rerun meets the full product before the duplicate
key, and is refused though the image is there (`RefuseAttach`). And a confirmation that lost
every attempt answers "try again", but has consumed its upload and discarded what it stored
(`ConsumeUpload`, `FailAttach`).

## Proofs

Every theorem holds for every number of sessions and attempts and for every set of requests; what
else it ranges over is said with it. Where there is no condition it holds whoever dies and whatever
fails.

### Memberships: `WorkspacesProofs`, `LocksProofs`, `TeamsProofs`

For every number of accounts, workspaces, roles and invitations:

| Theorem | States |
|---|---|
| `WorkspacesProofs!TypeCorrect`, `SingleOwnership`, `SnapshotsAgree` | `Spec => []TypeOK`, `[]OwnersAreSingle`, `[]IInv` |
| `LocksProofs!LocksHold` | `Spec => []LockInv` |
| `UsableInvitationsLive`, `OneInvitationIsUsable` | `Spec => []UsableInvitationIsLive`, `[]OneUsableInvitation` |
| `PurgesAreForGood`, `RolesInUseStay` | `Spec => []PurgedForGood`, `[]RolesInUseExist` |
| `AuthorisedChanges` | `Spec => AuthorisedWhenCommitted` |
| `TeamsProofs!InvitationsSettleOnce` | `Spec => SettledOnce` |
| `TeamsProofs!TeamsImplemented` | `Spec => ImplementsTeams` |

- *Ownership* (`IInv`). `OwnersAreSingle` is not inductive: a commit merges a view computed from an
  old snapshot into a database that moved on. `IInv` adds what makes that safe: every open snapshot
  satisfies ownership too, and *agrees* with the database wherever nobody touched it since: rows
  outside `touched` are equal, and as long as a workspace's row is untouched its members are the
  same except for people whose account was deleted (the one change of members that takes no lock).
  `Disciplined` says what a use case must do to keep that: change member rows only when the
  workspace's row is locked or written, or to remove somebody who does not own it. One lemma shows
  that a disciplined commit keeps `IInv` (`CommitKeepsIInv`); one lemma per use case shows that it
  is disciplined. The argument is therefore also the rule for adding a use case.
- *What a lock is worth* (`LockInv`). The other properties relate several rows of one workspace:
  a member or an invitation and its role, an invitation and the state of the workspace. `WorkspaceOK`
  puts them together, for the database and for every open snapshot, and `LockInv` says how far a
  snapshot can be trusted: while nobody else touched the row of a workspace, everything in it `Remains`
  as it was read, but for the members who `Left` by deleting their account, and the invitations they
  had sent. `Governed` is the discipline: a use case that changes anything in a workspace locks or
  writes its row, or only removes members and invitations that nothing depends on. So of two
  governed commits to one workspace either one loses, or one of them is a deletion of an account,
  which can only make `WorkspaceOK` easier (`RemainsOK`). `AuthorisedWhenCommitted` follows because
  the permission was read from the same rows; the exception it states is the member who `Left`.
- *Teams*. A commit decided in an old snapshot must be one atomic step of the state that everybody
  sees now. Nine relations between a snapshot and a view say what a use case did in terms of rows
  (`Cleans`, `Founds`, `Closes`, `Invites`, `Revokes`, `Joins`, `Assigns`, `HandsOver`, `Leaves`);
  one lemma per use case shows that it does one of them, one per relation that, merged into a
  database that satisfies `LockInv`, it is the step of `Teams` of the same meaning. Where the step of
  `Teams` has a guard ("who is in the team *now*"), `LockInv` is what carries it from the snapshot.
  `TeamsImplemented` combines this with the initial states: all of `Workspaces` implements `Teams`.

Assumed: `ATTEMPTS` is at least 1, the requests are well formed (`RequestsAssumption`), and
`Absent` and `Gone` are not contents of rows (`RowContentsAssumption`).

### Products and files: `CatalogProofs`

For every number of workspaces, uploads and values, any finite numbers of products and files, and all
limits and sizes:

| Theorem | States | Provided that |
|---|---|---|
| `TypeCorrect`, `SnapshotsAgree` | `Spec => []TypeOK`, `[]IInv` | |
| `QuotasAreKept` | `Spec => []QuotasHold` | |
| `PositionsStayDense`, `UploadsAreUsedOnce` | `Spec => []PositionsAreDense`, `[]OneImagePerUpload` | |
| `ImagesGoWithProducts` | `Spec => []ImagesHaveProducts` | |
| `NoUpdateIsLost` | `Spec => NoLostUpdate` | |
| `FilesAreInOnePlace`, `ShownFilesAreThere` | `Spec => []FilesInOnePlace`, `[]ShownFilesExist` | no commit succeeds and reports an error (`AnswersAreTrue`) |
| `NoFileIsForgotten` | `Spec => []FilesAccountedFor` | nobody dies, the bucket deletes what it is told to, and no commit succeeds and reports an error unless no logos are set (`NothingIsLost`) |

- *Rows* (`IInv`). `Relies` says what a snapshot stays right about: every row nobody touched; all
  the images of a product nobody touched, because whoever changes one locks or writes the product;
  and that a live workspace nobody touched holds nothing the snapshot does not know of, because
  whoever adds to one locks it (`_lock_quota`). A deleted workspace holds no promise: there products
  and images may appear behind a snapshot (the run `late_product`), and `IInv` does not say
  otherwise. `Sound` is the discipline that follows for a use case: the view it leaves fits together
  (`ImagesOK`), it `Guards` the product whose images it changes and the live workspace it adds to, and
  a guarded addition respects the quota. `Merges` describes a commit as an exchange: each row ends
  as the database had it or as the view has it, and in the second case the snapshot was right about
  it. From that one lemma per part of `IInv` shows that a sound commit keeps it (`MergedImagesOK`,
  `MergedQuotas`, `MergedRelies`, `MergedNewFiles`), and one per use case that it is sound.
- *Sums.* The quota of bytes is a sum over a finite set, defined by recursion over subsets. `Sums`
  characterises it, and what the proof needs (the sum exists, in any order, grows with the set) is
  proved by taking a minimal counterexample (`MinimalSet`, from the well-foundedness of strict
  inclusion on finite sets). `CountBefore` does the same for numbers: if n images have the n
  positions from 0, then as many are before one as its position says. That is why closing the gap
  in `remove_image` keeps the positions dense.
- *Files* (`FilesInOnePlace`). `IInv` already keeps a file that is on its way out of every row and
  every snapshot. A commit then exchanges files between rows and its request (`CommitKeepsPlaces`,
  `CommitKeepsAccount`): what a row shows afterwards it showed before, or it is the file the request
  brought; what rows let go of (`LetGo`) is exactly what the request has to delete next. The
  request read those files in an old snapshot, but if a row it changes had shown another file by
  then, the commit would have failed. So no file is shown twice or both shown and about to be
  deleted, and none is lost but by `CleanUp`, a death, or a commit that was taken for failed.

Assumed: the limits are numbers, at least one image and a batch of at least one product are allowed
(`LimitsAssumption`), products and files are finitely many, and the markers for missing rows, files and
requests are no rows, files or requests (`MarkersAssumption`).

### Accounts: `AccountsProofs`, `AccountStoresProofs`

For every number of subjects, emails, uploads and files:

| Theorem | States | Provided that |
|---|---|---|
| `TypeCorrect`, `SnapshotsAgree` | `Spec => []TypeOK`, `Spec => []IInv` | |
| `EmailsAreUnique` | `Spec => []OneRowPerEmail` | |
| `EmailsAreNotHandedOver` | `Spec => NeverHandedOver` | |
| `FilesAreInOnePlace`, `AvatarsAreThere` | `Spec => []FilesInOnePlace`, `Spec => []AvatarsHaveFiles` | no commit succeeds and reports an error |
| `NoFileIsForgotten` | `Spec => []FilesAccountedFor` | besides, nobody dies and the bucket deletes what it is told to |
| `PoolAndRowsInStep` | `Spec => []PoolInStep` | |
| `DeletionsReachThePool` | `Spec => []DeletedInBoth` | nobody dies and the pool deletes what it is told to |

The conditions are those of "Conditions of what holds" above, as assumptions about `Killable` and
`Faults`.

- *Rows and index* (`IInv`). The rows and the index on emails fit together (`IndexOK`) in the
  database and in every open snapshot, and a snapshot is still right about every row nobody touched
  (`Agrees`). A use case leaves a view in which they fit again and in which no email has another
  holder than before (`Sound`). The merge of such a view into a database that moved on could still
  mix two holders of one email; it does not, because whoever gives a row to an email writes that
  email's entry in the index, so the two commits share a row and one of them loses
  (`MergedIndexOK`, `MergedEmails`). No lock is needed: the unique index is one.
- *Files* (`FilesInOnePlace`). A commit of an avatar exchanges two files between the row and the
  request: the new one was in the request's hands and in no row or snapshot, the old one is in the row
  and goes to the request's hands. The snapshot the request read the old one from is right about
  that row, or the commit would fail. So no file is ever in two places, which keeps the shown ones
  from being deleted, and none leaves both places but by `CleanUp`, which deletes it.
- *The pool* (`PoolInStep`). The pool takes part in no transaction, so the row and the pool account
  are tied by the request that has both in hand: a row is `Gone` only once the pool could sign its
  account in, and until the pool account is deleted a request still has that to do. A request in
  which a call of the pool is left has no transaction open, so nothing can roll it back.

Assumed: that `EmailOf` gives every subject an email, and that the markers for missing rows, files and
requests are no rows, files or requests (`MarkersAssumption`).

### Pages: `ListingProofs`

For every finite set of products, any keys (a number may stand for any ordered field) and any size of
a page:

| Theorem | States | Provided that |
|---|---|---|
| `InductiveInvariant` | `Spec => []IInv` | |
| `ScrollsStayInOrder` | `Spec => []ScrolledInOrder` | |
| `StayersAreListed` | `Spec => []StayersListedOnce` | |
| `QuietListings` | `Spec => []QuietListingIsComplete` | |
| `TypeCorrect` | `Spec => []TypeOK` | there are finitely many keys |

- *Sorting.* `Ordered` is defined without recursion: the n-th position is the one with n - 1 before it.
  `RanksTaken` shows that there is one (ranks are an injection of the positions into as many numbers,
  hence onto them), `SortedLists` that the result shows every position once and in order, and `OneList`
  that nothing else does. The last one is what makes part of an ordered list the ordered list of a part.
- *Scrolls* (`CursorOK`). A page shows only rows beyond the cursor, and what was shown lies up to it:
  the two together are the order over all pages. A product that stays is either shown where it is or
  still beyond the cursor, because a cursor passes nothing that the page before it did not show; when
  the last page says that there is no more, only the first is left. The row the cursor was made of
  does not occur in the argument, so it may be moved or deleted.
- *Undisturbed listings* (`QuietOK`). While nothing happens the client has the first full pages of one
  list, and a page is its next part: for a scroll because what lies beyond the cursor is the rest of
  the list (`QuietRest`), for a numbered page by its offset. `PagesHold` says which page is the last.
- *The end* (`Bounded`). Every page of a scroll that has a next one shows a row, and no position twice;
  a numbered page has a next one only if there are more rows than the pages up to it hold, and shows
  at most what is missing. So a listing asks for at most one page more than there are positions.

Assumed: keys and ids are numbers, a page holds at least one row (`ListingAssumption`), and the markers
are no rows or positions (`MarkersAssumption`).

### Only model-checked

- `ReturnedToWorkspaceStep` and `MembersPassedWorkspaceStep`: they hold in the run `membership`, with
  one workspace and nobody who names a profile late, and not in general; `onboarding_skew` and
  `stuck_member` show how they fail. The properties of the other violation runs are not provable
  either.
- `PurgeCompletes`: a liveness property under fairness, which is out of the prover's reach.

## Not modelled, and the plan

Done: the unit of work, `Workspaces` with the abstract `Teams` it implements, the bucket, `Catalog`
with logos and the batches of the purge, `Accounts` with the user pool and avatars, `Listing`, and the
proofs above. In order:

1. The permission of the products: `Catalog` composed with the memberships of `Workspaces`, for what
   somebody removed meanwhile may still change.
2. The row limit of a transaction: how large a workspace the purge can still finish.

Not modelled, and why:

- **Rate limiter**: one atomic update of a counter whose key comes from the clock. No two steps
  share state, so there is nothing for a model to interleave.
- **HTTP layer**: routing, schemas, status codes and token verification keep no state; what they
  decide reaches the models as the requests that are asked.
- **Realtime events and mail**: sent after the commit, and nothing reads their outcome. That an
  error in the one query they make keeps the files of a deleted product is an `Interrupt`.
- **Configuration, logging, AWS clients**: no state that a property could depend on.
