--------------------------- MODULE MCRamobsFile ---------------------------
(***************************************************************************)
(* An instance of RamobsFile: tasks that share two handles, one open for   *)
(* reading and one for writing.                                            *)
(***************************************************************************)
EXTENDS RamobsFile, TLC

CONSTANTS t1, t2, reader, writer

BackAndForth == {-1, 1}

TaskSymmetry == Permutations({t1, t2})
=============================================================================
