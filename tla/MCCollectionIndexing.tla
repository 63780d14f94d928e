------------------------ MODULE MCCollectionIndexing ------------------------
(* A small instance of CollectionIndexing. *)
EXTENDS CollectionIndexing
=============================================================================
