----------------------------- MODULE UnitOfWork -----------------------------
(***************************************************************************)
(* The unit of work: many sessions over one database, each running the     *)
(* transactions of the requests it serves (SqlUnitOfWork.transaction).     *)
(*                                                                         *)
(* The database is a function from rows to their contents.  A transaction  *)
(* reads one snapshot of it and computes, from that snapshot alone, the    *)
(* view it wants to leave behind.  The database itself (Aurora DSQL) is    *)
(* not under src/; two facts about it are used:                            *)
(*  - reads come from the snapshot taken by the first statement, and       *)
(*    writes become visible at commit, all at once;                        *)
(*  - the commit fails with SQLSTATE 40001 when a row the transaction      *)
(*    wrote, or locked with FOR UPDATE, was written or locked by another   *)
(*    transaction that committed since the snapshot.                       *)
(* The second is what "locked until the transaction ends" (ports.py)       *)
(* amounts to when nothing ever waits.                                     *)
(***************************************************************************)
EXTENDS Naturals

CONSTANTS
  Session,     \* database sessions; a session serves one request at a time
  ATTEMPTS,    \* how often the work of a transaction is run before giving up
  NoRequest    \* a session whose request is not decided, or which has none

ASSUME AttemptsAssumption == ATTEMPTS \in Nat \ {0}

VARIABLES
  db,          \* [row -> contents]: the committed state
  tx           \* [Session -> its transaction]

-----------------------------------------------------------------------------
(* touched: the rows written or locked by the transactions that committed  *)
(* since the snapshot was taken.                                           *)
Waiting(request, attempt) ==
  [open |-> FALSE, snapshot |-> <<>>, touched |-> {},
   attempt |-> attempt, request |-> request]

Idle == Waiting(NoRequest, 1)

(* The first statement of a session: the database takes its snapshot.      *)
Begin(p) ==
  /\ ~tx[p].open
  /\ tx' = [tx EXCEPT ![p].open = TRUE, ![p].snapshot = db]
  /\ UNCHANGED db

(* Which request a session serves matters to nobody before its work runs,  *)
(* so it is chosen then; a rerun keeps the request it is a rerun of.       *)
Serves(p, request) == tx[p].open /\ tx[p].request \in {NoRequest, request}

View(p) == tx[p].snapshot

(* A row whose contents the work did not change is not written at all: the *)
(* session only flushes attributes that differ.                            *)
Written(p, after) == {row \in DOMAIN db : after[row] # tx[p].snapshot[row]}

FootprintOfWrites(p, locked, after) == Written(p, after)  \* mutant: locks forgotten
Footprint(p, locked, after) == locked \cup Written(p, after)

Commit(p, locked, after, next) ==
  LET footprint == Footprint(p, locked, after) IN
  /\ footprint \cap tx[p].touched = {}
  /\ db' = [row \in DOMAIN db |->
              IF row \in Written(p, after) THEN after[row] ELSE db[row]]
  /\ tx' = [q \in Session |->
              IF q = p THEN Waiting(next, 1)
              ELSE IF tx[q].open
                THEN [tx[q] EXCEPT !.touched = @ \cup footprint]
                ELSE tx[q]]

(* Mutant: one rerun too many.                                             *)
LoseRaceOnceMore(p, request, locked, after, failed) ==
  /\ Footprint(p, locked, after) \cap tx[p].touched # {}
  /\ tx' = [tx EXCEPT ![p] = IF tx[p].attempt > ATTEMPTS THEN Waiting(failed, 1)
                             ELSE Waiting(request, tx[p].attempt + 1)]
  /\ UNCHANGED db

(* 40001: roll back, sleep, run the work again on a new snapshot; the last *)
(* attempt raises ConcurrencyConflictError instead, after which the        *)
(* request still has `failed` to do.                                       *)
LoseRaceElse(p, request, locked, after, failed) ==
  /\ Footprint(p, locked, after) \cap tx[p].touched # {}
  /\ tx' = [tx EXCEPT ![p] = IF tx[p].attempt = ATTEMPTS THEN Waiting(failed, 1)
                             ELSE Waiting(request, tx[p].attempt + 1)]
  /\ UNCHANGED db

LoseRace(p, request, locked, after) ==
  LoseRaceElse(p, request, locked, after, NoRequest)

(* One run of `work` and its commit.  locked: the rows read FOR UPDATE or  *)
(* rewritten whatever they held; after: the view the work leaves; next:    *)
(* what the request still has to do once this transaction is committed.    *)
AttemptThen(p, request, locked, after, next) ==
  \/ Commit(p, locked, after, next)
  \/ LoseRace(p, request, locked, after)

Attempt(p, request, locked, after) ==
  AttemptThen(p, request, locked, after, NoRequest)

(* Any other exception ends the request and leaves no trace: a refusal     *)
(* (DomainError), a DuplicateError, a lost connection, a cancelled call.   *)
RollBack(p) ==
  /\ tx[p].open
  /\ tx' = [tx EXCEPT ![p] = Idle]
  /\ UNCHANGED db
=============================================================================
