---------------------------- MODULE EarlyPaging ----------------------------
(***************************************************************************)
(* The page tables early_boot builds and turns on.  A step is one turn of  *)
(* a loop, or a run of writes nothing else reads before paging is on.      *)
(* Addresses go by pages: page number s * Entries + e is behind entry e of *)
(* the table in slot s of the directory.                                   *)
(***************************************************************************)
EXTENDS Integers

CONSTANTS
  Entries,     \* of a directory and of a table
  Tables,      \* the tables there are
  HigherHalf,  \* the slot where the higher half begins
  PdFrame,     \* the frame PD is in
  FirstTable   \* the frame of the first of PAGE_TABLES; the others follow

ASSUME PagingAssumption ==
  /\ Entries \in Nat
  /\ Tables \in Nat \ {0}
  /\ HigherHalf \in Nat
  /\ Tables <= HigherHalf
  /\ HigherHalf + Tables < Entries
  /\ PdFrame \in Nat
  /\ FirstTable \in Nat
  /\ PdFrame \notin FirstTable .. (FirstTable + Tables - 1)

Slot == 0 .. (Entries - 1)
Table == 0 .. (Tables - 1)

(* What is in an entry: the frame it leads to, if it is present. *)
NotPresent == -1
Entry == Nat \cup {NotPresent}

VARIABLES
  directory,   \* PD
  table,       \* PAGE_TABLES
  building,    \* how far setup_higher_half_mapping has come
  table_idx, pte,   \* its loop counters; table_idx is also i
  paging       \* whether cr0 has paging on, with PD in cr3

pagingVars == <<directory, table, building, table_idx, pte, paging>>

PagingInit ==
  /\ directory = [s \in Slot |-> NotPresent]
  /\ table = [t \in Table |-> [e \in Slot |-> NotPresent]]
  /\ building = "clear"
  /\ table_idx = 0
  /\ pte = 0
  /\ paging = FALSE

ClearEntry ==
  /\ building = "clear"
  /\ directory' = [directory EXCEPT ![table_idx] = NotPresent]
  /\ IF table_idx + 1 < Entries
     THEN table_idx' = table_idx + 1 /\ UNCHANGED building
     ELSE table_idx' = 0 /\ building' = "fill"
  /\ UNCHANGED <<table, pte, paging>>

(* The frame an entry leads to: by its place in the table alone, and by    *)
(* its place among all of them.                                            *)
FrameInTable(t, e) == e
Frame(t, e) == t * Entries + e

(* A loop that does not count the tables. *)
FillForever ==
  /\ building = "fill"
  /\ table' = [table EXCEPT ![table_idx] = [@ EXCEPT ![pte] = Frame(table_idx, pte)]]
  /\ pte' = (pte + 1) % Entries
  /\ UNCHANGED <<directory, building, table_idx, paging>>

FillEntry ==
  /\ building = "fill"
  /\ table' = [table EXCEPT ![table_idx] = [@ EXCEPT ![pte] = Frame(table_idx, pte)]]
  /\ IF pte + 1 < Entries
     THEN pte' = pte + 1 /\ UNCHANGED <<table_idx, building>>
     ELSE /\ pte' = 0
          /\ IF table_idx + 1 < Tables
             THEN table_idx' = table_idx + 1 /\ UNCHANGED building
             ELSE table_idx' = 0 /\ building' = "windows"
  /\ UNCHANGED <<directory, paging>>

(* A higher half that goes on to the last slot, over and over the tables,  *)
(* and a last slot that leads to a table.                                  *)
PdeRepeats(s) ==
  IF s < Tables THEN FirstTable + s
  ELSE IF HigherHalf <= s /\ s < Entries - 1
  THEN FirstTable + ((s - HigherHalf) % Tables)
  ELSE IF s = Entries - 1 THEN PdFrame ELSE directory[s]
PdeOfTable(s) ==
  IF s < Tables THEN FirstTable + s
  ELSE IF HigherHalf <= s /\ s < HigherHalf + Tables
  THEN FirstTable + s - HigherHalf
  ELSE IF s = Entries - 1 THEN FirstTable ELSE directory[s]

(* A low window that goes on to the higher half, over and over the tables. *)
PdeWraps(s) ==
  IF s < HigherHalf THEN FirstTable + (s % Tables)
  ELSE IF s < HigherHalf + Tables
  THEN FirstTable + s - HigherHalf
  ELSE IF s = Entries - 1 THEN PdFrame ELSE directory[s]

(* What the directory has in a slot once both windows lead to the same     *)
(* tables and the last slot to PD itself.                                  *)
Pde(s) ==
  IF s < Tables THEN FirstTable + s
  ELSE IF HigherHalf <= s /\ s < HigherHalf + Tables
  THEN FirstTable + s - HigherHalf
  ELSE IF s = Entries - 1 THEN PdFrame ELSE directory[s]

MapWindows ==
  /\ building = "windows"
  /\ directory' = [s \in Slot |-> Pde(s)]
  /\ building' = "done"
  /\ UNCHANGED <<table, table_idx, pte, paging>>

(* early_enable_paging *)
EnablePaging ==
  /\ building = "done"
  /\ ~paging
  /\ paging' = TRUE
  /\ UNCHANGED <<directory, table, building, table_idx, pte>>

PagingNext == ClearEntry \/ FillEntry \/ MapWindows \/ EnablePaging

PagingSpec == PagingInit /\ [][PagingNext]_pagingVars

-----------------------------------------------------------------------------

(* What the processor finds behind entry e of the table in slot s: it      *)
(* takes whatever frame the directory names for a table, PD's own too.     *)
TableAt(frame) ==
  IF frame = PdFrame THEN directory ELSE table[frame - FirstTable]

Translate(s, e) ==
  IF directory[s] = NotPresent THEN NotPresent ELSE TableAt(directory[s])[e]

(* Every page of the low window and of the higher half leads to the frame  *)
(* that follows from its place in the window, whichever way it is reached: *)
(* early_boot goes on at its physical address, the kernel at its virtual.  *)
WindowsAgree ==
  paging =>
    \A t \in Table, e \in Slot :
      /\ Translate(t, e) = t * Entries + e
      /\ Translate(HigherHalf + t, e) = t * Entries + e

(* Nothing else is mapped below the last slot: a stray pointer faults.     *)
NothingElseMapped ==
  paging =>
    \A s \in Slot, e \in Slot :
      \/ s \in Table \/ s - HigherHalf \in Table \/ s = Entries - 1
      \/ Translate(s, e) = NotPresent

(* "Recursive mapping (to reach the tables from the VMM)": the pages of    *)
(* the last slot are the tables, in the order of the slots they serve, and *)
(* the very last is PD.                                                    *)
TablesShow ==
  paging =>
    /\ \A t \in Table : /\ Translate(Entries - 1, t) = FirstTable + t
                       /\ Translate(Entries - 1, HigherHalf + t) = FirstTable + t
    /\ Translate(Entries - 1, Entries - 1) = PdFrame

(* The frame a slot leads to once the windows are mapped.                  *)
SlotLeadsTo(s) ==
  IF s \in Table THEN FirstTable + s
  ELSE IF s - HigherHalf \in Table THEN FirstTable + s - HigherHalf
  ELSE IF s = Entries - 1 THEN PdFrame ELSE NotPresent

(* The entries the loops have been through.                                *)
Filled(t, e) ==
  \/ building \in {"windows", "done"}
  \/ building = "fill" /\ (t < table_idx \/ (t = table_idx /\ e < pte))

(* How far the loops have come is what directory and tables show.          *)
PagingInvariant ==
  /\ directory \in [Slot -> Entry]
  /\ table \in [Table -> [Slot -> Entry]]
  /\ building \in {"clear", "fill", "windows", "done"}
  /\ paging \in BOOLEAN
  /\ paging => building = "done"
  /\ building = "clear" => table_idx \in Slot /\ pte = 0
  /\ building = "fill" => table_idx \in Table /\ pte \in Slot
  /\ building # "done" => \A s \in Slot : directory[s] = NotPresent
  /\ building = "done" => \A s \in Slot : directory[s] = SlotLeadsTo(s)
  /\ \A t \in Table, e \in Slot : Filled(t, e) => table[t][e] = t * Entries + e

=============================================================================
