------------------------------ MODULE MCLoader ------------------------------
(***************************************************************************)
(* Loader.tla with maps of up to five entries and one descriptor to spare, *)
(* so that the map may outgrow its buffer, and up to eight changes: three  *)
(* are the loader's own, which leaves several refused exits.               *)
(***************************************************************************)
EXTENDS Loader
=============================================================================
