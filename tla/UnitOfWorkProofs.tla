-------------------------- MODULE UnitOfWorkProofs --------------------------
(* What a commit does to the rows and to the other sessions, whatever the  *)
(* rows and the requests are.                                              *)
EXTENDS UnitOfWork, TLAPS

(* What a commit leaves in one row.                                        *)
LEMMA MergedRow ==
  ASSUME NEW p \in Session, NEW locked, NEW after, NEW next,
         Commit(p, locked, after, next), NEW row \in DOMAIN db
  PROVE  db'[row] = IF after[row] # tx[p].snapshot[row] THEN after[row] ELSE db[row]
BY DEF Commit, Written, Footprint

(* A row the transaction wrote or locked is one nobody touched.            *)
LEMMA FootprintUntouched ==
  ASSUME NEW p \in Session, NEW locked, NEW after, NEW next,
         Commit(p, locked, after, next), NEW row \in DOMAIN db,
         row \in locked \/ after[row] # tx[p].snapshot[row]
  PROVE  row \in Footprint(p, locked, after) /\ row \notin tx[p].touched
BY DEF Commit, Written, Footprint

(* The other sessions after a commit: an open one learns what was touched. *)
LEMMA OtherSessions ==
  ASSUME NEW p \in Session, NEW locked, NEW after, NEW next,
         Commit(p, locked, after, next), NEW q \in Session \ {p}
  PROVE  /\ tx[q].open =>
              tx'[q] = [tx[q] EXCEPT !.touched = @ \cup Footprint(p, locked, after)]
         /\ ~tx[q].open => tx'[q] = tx[q]
BY DEF Commit
=============================================================================
