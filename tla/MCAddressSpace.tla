--------------------------- MODULE MCAddressSpace ---------------------------
(***************************************************************************)
(* AddressSpace.tla with an image of one page and one of two, the second   *)
(* writable. An exec in the second program finds too few frames if both    *)
(* have the large image.                                                   *)
(***************************************************************************)
EXTENDS AddressSpace

MCImages == {[pages |-> 1, writable |-> {}], [pages |-> 2, writable |-> {1}]}

\* Negative, inside a page, across two and three pages, and one whose end
\* overflows.
MCLengths == {-1, 1, 2, 4, 15}
=============================================================================
