----------------------------- MODULE MCIndexing -----------------------------
(* Indexing for TLC: a hash and a root are terms of what they are made of.  *)
EXTENDS Indexing

MCKeccak(pieces) == [hash |-> pieces]
MCRoot(leaves) == [root |-> leaves]
=============================================================================
