------------------------------- MODULE Listing -------------------------------
(***************************************************************************)
(* The list of products of a workspace, page by page, while members go on  *)
(* editing it: infinite scroll with a cursor (SqlProductRepository.after), *)
(* and numbered pages (page).  Every page is a request of its own and one  *)
(* snapshot, taken after the page before it was answered.                  *)
(*                                                                         *)
(* Of a product, only what a listing looks at is kept: the field it is     *)
(* ordered by, and whether the search and the status filter let it through.*)
(***************************************************************************)
EXTENDS Naturals, Sequences, FiniteSets

CONSTANTS
  Product,       \* ids, which break ties
  Key,           \* values of the field the list is ordered by
  SIZE,          \* rows per page
  NoCursor, Absent, Gone

ASSUME ListingAssumption ==
  /\ Product \subseteq Nat /\ IsFiniteSet(Product)
  /\ Key \subseteq Nat
  /\ SIZE \in Nat \ {0}

VARIABLES
  rows,          \* [Product -> its row, Absent or Gone]
  query,         \* what the client lists: which way, and with what pages
  cursor,        \* where the next page starts
  page,          \* the number of the next page
  listed,        \* what the client was shown, in order
  done,          \* it was told that there is no more
  stayed         \* ghost: the products nobody moved, hid or deleted, and
                 \* whether nothing at all happened, since the first page

vars == <<rows, query, cursor, page, listed, done, stayed>>

-----------------------------------------------------------------------------
RowRecord == [key : Key, matches : BOOLEAN]
Query == [mode : {"cursor", "numbered"}, descending : BOOLEAN]
PositionRecord == [key : Key, id : Product]

(* No marker is a row or a position.                                       *)
ASSUME MarkersAssumption ==
  /\ Absent # Gone
  /\ {Absent, Gone} \cap RowRecord = {}
  /\ NoCursor \notin PositionRecord

Exists(x) == rows[x] \notin {Absent, Gone}
Filtered == {x \in Product : Exists(x) /\ rows[x].matches}
Position(x) == [key |-> rows[x].key, id |-> x]

Before(a, b) == a.key < b.key \/ (a.key = b.key /\ a.id < b.id)
Order(a, b) == IF query.descending THEN Before(b, a) ELSE Before(a, b)

(* The list in which each position has as many before it as it has here.   *)
Rank(a, positions) == Cardinality({b \in positions : Order(b, a)})
Sorted(positions) ==
  [n \in 1 .. Cardinality(positions) |-> CHOOSE a \in positions : Rank(a, positions) = n - 1]
Ordered(xs) == Sorted({Position(x) : x \in xs})

-----------------------------------------------------------------------------
(*                              Pages                                      *)

(* Mutants: the cursor's row again; no tie-breaker.                        *)
BeyondOrAt(position) == cursor = NoCursor \/ ~Order(position, cursor)
BeyondItsKey(position) ==
  cursor = NoCursor \/ (position.key # cursor.key /\ Order(cursor, position))

Beyond(position) == cursor = NoCursor \/ Order(cursor, position)

FetchPage(n) ==
  LET found == Ordered({x \in Filtered : Beyond(Position(x))})
  IN SubSeq(found, 1, IF Len(found) < n THEN Len(found) ELSE n)

(* One row more than a page is fetched, to know whether there is a next.   *)
(* Mutant: a page that is exactly full has a next one.                     *)
NoMoreWhenShort(found) == Len(found) < SIZE
NoMore(found) == Len(found) <= SIZE

After ==
  /\ query.mode = "cursor"
  /\ LET found == FetchPage(SIZE + 1) IN
     IF NoMore(found)
       THEN /\ listed' = listed \o found
            /\ done' = TRUE
            /\ UNCHANGED cursor
       ELSE /\ listed' = listed \o SubSeq(found, 1, SIZE)
            /\ cursor' = found[SIZE]
            /\ UNCHANGED done

(* Mutant: the page that is not full is not counted.                       *)
FullPages(total) == total \div SIZE
Pages(total) == (total + SIZE - 1) \div SIZE

Page ==
  /\ query.mode = "numbered"
  /\ LET found == Ordered(Filtered)
         total == Len(found)
         offset == (page - 1) * SIZE
     IN /\ listed' = listed \o (IF offset >= total THEN <<>>
                                ELSE SubSeq(found, offset + 1,
                                            IF total < offset + SIZE THEN total ELSE offset + SIZE))
        /\ done' = (page >= Pages(total))
  /\ UNCHANGED cursor

Fetch ==
  /\ ~done
  /\ After \/ Page
  /\ page' = page + 1
  /\ stayed' = IF page = 1 THEN [products |-> Filtered, quiet |-> TRUE] ELSE stayed
  /\ UNCHANGED <<rows, query>>

-----------------------------------------------------------------------------
(*                          What members do                                *)

Changed(xs) ==
  /\ stayed' = [products |-> stayed.products \ xs, quiet |-> FALSE]
  /\ UNCHANGED <<query, cursor, page, listed, done>>

Create(x, row) ==
  /\ rows[x] = Absent
  /\ rows' = [rows EXCEPT ![x] = row]
  /\ Changed({})

Update(x, row) ==
  /\ Exists(x)
  /\ row # rows[x]
  /\ rows' = [rows EXCEPT ![x] = row]
  /\ Changed({x})

Delete(x) ==
  /\ Exists(x)
  /\ rows' = [rows EXCEPT ![x] = Gone]
  /\ Changed({x})

(* Only what happens after the first page matters.                         *)
Edit ==
  /\ page > 1 /\ ~done
  /\ \E x \in Product :
       \/ Delete(x)
       \/ \E row \in RowRecord : Create(x, row) \/ Update(x, row)

-----------------------------------------------------------------------------
Init ==
  /\ rows \in [Product -> RowRecord \cup {Absent}]
  /\ query \in Query
  /\ cursor = NoCursor
  /\ page = 1
  /\ listed = <<>>
  /\ done = FALSE
  /\ stayed = [products |-> {}, quiet |-> TRUE]

Next == Fetch \/ Edit
Spec == Init /\ [][Next]_vars

-----------------------------------------------------------------------------
(*                              Properties                                 *)

Shows(x) == {n \in DOMAIN listed : listed[n].id = x}

(* Everything has its type, and a scroll comes to an end: no position is   *)
(* reached twice, however the rows are moved meanwhile.                    *)
TypeOK ==
  /\ rows \in [Product -> RowRecord \cup {Absent, Gone}]
  /\ cursor \in PositionRecord \cup {NoCursor}
  /\ page \in 1 .. Cardinality(Product) * Cardinality(Key) + 2
  /\ \A n \in DOMAIN listed : listed[n] \in PositionRecord
  /\ Len(listed) <= Cardinality(Product) * Cardinality(Key)
  /\ stayed.products \subseteq Product

(* A scroll shows rows in their order, strictly, over all its pages: none  *)
(* is out of place or repeated, unless somebody moved it further on after  *)
(* it was shown.                                                           *)
ScrolledInOrder ==
  query.mode = "cursor" =>
    \A m, n \in DOMAIN listed : m < n => Order(listed[m], listed[n])

(* A product nobody touches is neither skipped nor repeated by a scroll,   *)
(* whatever is created, moved, hidden and deleted around it, the row the   *)
(* cursor was made of included.                                            *)
StayersListedOnce ==
  query.mode = "cursor" /\ done => \A x \in stayed.products : Cardinality(Shows(x)) = 1

(* "numbered and cursor pages visit every row exactly once, ties included, *)
(* both ways" (tests), when nothing changes, and no page beyond the last   *)
(* one that has rows is asked for.                                         *)
QuietListingIsComplete ==
  done /\ stayed.quiet =>
    /\ listed = Ordered(Filtered)
    /\ page - 1 = IF listed = <<>> THEN 1 ELSE (Len(listed) + SIZE - 1) \div SIZE

-----------------------------------------------------------------------------
(*                     The inductive invariant                             *)

(* How far a scroll has come: what it showed lies up to the cursor, and a  *)
(* product that stayed was shown where it is, or lies beyond.              *)
CursorOK ==
  /\ page > 1 /\ ~done =>
       /\ cursor # NoCursor
       /\ \A n \in DOMAIN listed : listed[n] = cursor \/ Order(listed[n], cursor)
  /\ \A x \in stayed.products :
       /\ \A n \in Shows(x) : listed[n] = Position(x)
       /\ Shows(x) # {} \/ (~done /\ Beyond(Position(x)))

(* While nothing happens, full pages of one list were shown.               *)
QuietOK ==
  LET all == Ordered(Filtered)
      offset == (page - 1) * SIZE
  IN IF done
       THEN listed = all /\ (page = 2 \/ offset < Len(all) + SIZE) /\ Len(all) <= offset
       ELSE /\ listed = SubSeq(all, 1, offset)
            /\ page > 1 => /\ offset < Len(all)
                           /\ query.mode = "cursor" => cursor = all[offset]

Typed ==
  /\ rows \in [Product -> RowRecord \cup {Absent, Gone}]
  /\ query \in Query /\ cursor \in PositionRecord \cup {NoCursor}
  /\ page \in Nat \ {0} /\ done \in BOOLEAN
  /\ listed \in Seq(PositionRecord)
  /\ stayed \in [products : SUBSET Filtered, quiet : BOOLEAN]

Fresh ==
  page = 1 => listed = <<>> /\ cursor = NoCursor /\ ~done /\ stayed.products = {}

IInv ==
  /\ Typed
  /\ Fresh
  /\ ScrolledInOrder
  /\ query.mode = "cursor" => CursorOK
  /\ stayed.quiet => QuietOK
=============================================================================
