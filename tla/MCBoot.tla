------------------------------- MODULE MCBoot -------------------------------
(***************************************************************************)
(* An instance of Boot: directories and tables of 8 entries, pages of 2    *)
(* bytes, so that the two tables map 32 bytes; an arena at an odd address, *)
(* 25, whose last bytes, 32 to 34, are beyond what is mapped; layouts that *)
(* need padding or none, up to the largest there are.                      *)
(***************************************************************************)
EXTENDS Boot

Layout(size, align) == [size |-> size, align |-> align]
SomeLayouts ==
  {Layout(1, 1), Layout(2, 2), Layout(4, 4), Layout(8, 4), Layout(63, 1), Layout(32, 32)}
=============================================================================
