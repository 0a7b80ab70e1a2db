------------------------------ MODULE MCCatalog ------------------------------
(* Small instances of Catalog: what the clients of each run may ask.       *)
EXTENDS Catalog, TLC

Calls(names) == {r \in Request : r.call \in names}

(* The other uploads grow when they are re-encoded.                        *)
FirstUpload == CHOOSE u \in Upload : TRUE
SizesWhenPending == [u \in Upload |-> 1]
SizesWhenStored == [u \in Upload |-> IF u = FirstUpload THEN 1 ELSE 2]

(* Everything that makes and ends products and changes their images.       *)
Repeats(order) == \E m, n \in DOMAIN order : m # n /\ order[m] = order[n]
ImageRequests ==
  Calls({"create", "delete", "request_upload", "confirm", "remove_image"})
  \cup {r \in Calls({"reorder"}) : ~Repeats(r.order)}

(* Everything that changes what is set anew as a whole, the logo of a      *)
(* workspace and the fields of a product, or ends both.  Products have the *)
(* second value at first: edits of the first version restore it, and       *)
(* others, unasked, set the first.                                         *)
FirstValue == CHOOSE value \in Value : TRUE
DetailRequests ==
  {r \in Calls({"create"}) : r.value # FirstValue}
  \cup {r \in Calls({"update"}) : r.if_match = IF r.value = FirstValue THEN NoVersion ELSE 0}
  \cup Calls({"request_logo", "set_logo", "delete_workspace", "purge"})

(* What a purge meets: products and images that appear while it runs.      *)
PurgeRequests == Calls({"create", "request_upload", "confirm", "delete_workspace", "purge"})
LateRequests == Calls({"create", "delete_workspace", "purge"})

Symmetry ==
  Permutations(Session \ Job) \cup Permutations(Product) \cup Permutations(File)
  \cup Permutations({u \in Upload \ TooLarge : StoredBytes[u] = 2})
=============================================================================
