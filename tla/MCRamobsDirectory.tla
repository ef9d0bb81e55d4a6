------------------------- MODULE MCRamobsDirectory -------------------------
(***************************************************************************)
(* Instances of RamobsDirectory small enough for TLC.                      *)
(***************************************************************************)
EXTENDS RamobsDirectory, TLC

(* A directory any caller may delete and rename, and a file only a         *)
(* privileged one may.                                                     *)
DirectoryAndGuardedFile ==
  {[kind |-> "Directory", grants |-> Right],
   [kind |-> "File", grants |-> {}]}

OpenDirectories == {[kind |-> "Directory", grants |-> Right]}

ReadWriteOnly == {OpenFlag}

(* chmod takes all rights away, or gives them back. *)
AllOrNone == {{}, Right}

NameSymmetry == Permutations(Names)
TaskSymmetry == Permutations(Tasks) \cup NameSymmetry
=============================================================================
