------------------------ MODULE MCDataLoaderPipeline ------------------------
(* Small instances of DataLoaderPipeline for TLC: a split of a few windows *)
(* with every step able to raise.                                         *)
EXTENDS DataLoaderPipeline

Faulty == {"access", "launch", "finish"}
=============================================================================
