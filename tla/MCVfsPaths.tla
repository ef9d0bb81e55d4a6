----------------------------- MODULE MCVfsPaths -----------------------------
(***************************************************************************)
(* An instance of VfsPaths: a privileged context and an ordinary one.      *)
(***************************************************************************)
EXTENDS VfsPaths, TLC

CONSTANTS admin, user

(* "/a/b", and what resolution refuses: "/..". *)
SomePaths == {<<Slash, "a", Slash, "b">>, <<Slash, "..">>}

(* "/", and "//a", which is what resolution asks the table for at "/a". *)
FoundMounts == {<<Slash>>, <<Slash, Slash, "a">>}

(* "/" and "/a". *)
PlainMounts == {<<Slash>>, <<Slash, "a">>}

(* A directory everybody may enter and read, or nobody but its owner.      *)
SomeGrants == {{}, {"EXECUTE", "READ"}}
=============================================================================
