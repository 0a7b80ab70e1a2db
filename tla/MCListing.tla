------------------------------ MODULE MCListing ------------------------------
(* A small instance of Listing: enough products for ties on both sides of  *)
(* the end of a page, and for a page that is exactly the last.             *)
EXTENDS Listing

Ids == 1 .. 4
Keys == 1 .. 2
=============================================================================
