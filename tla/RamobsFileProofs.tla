------------------------- MODULE RamobsFileProofs -------------------------
(***************************************************************************)
(* Proofs about RamobsFile, for any tasks, handles and sizes.              *)
(***************************************************************************)
EXTENDS RamobsFile, TLAPS

(* What the code comes to, and more than it promises: nothing but a seek   *)
(* or a truncate moves a position, the seek lands at 0, and nothing writes *)
(* the metadata's size.  So both stay 0, whatever the length of the data,  *)
(* and a write that is about to copy has been told that nothing fits.      *)
StuckCalls ==
       [at: {"idle"},
        result: {"none", "Ok", "PermissionDenied", "OutOfFile", "IoError"}]
  \cup [at: {"read"}, h: Handles, n: Size, unblocked: BOOLEAN]
  \cup [at: {"copy"}, h: Handles, n: Size, unblocked: BOOLEAN, offset: Size,
        seeks: BOOLEAN]
  \cup [at: {"line"}, h: Handles, n: Size, unblocked: BOOLEAN, offset: Size,
        seeks: BOOLEAN, whole: BOOLEAN]
  \cup [at: {"write_check"}, h: Handles, n: Size, offset: Size, seeks: BOOLEAN]
  \cup [at: {"write_copy"}, h: Handles, n: {0}, offset: {0}, seeks: BOOLEAN]
  \cup [at: {"seek"}, h: Handles, whence: SeekWhence,
        offset: SeekOffsets \cup {0}]
  \cup [at: {"seek_policy"}, h: Handles, whence: SeekWhence,
        offset: SeekOffsets \cup {0}, size: {0}]
  \cup [at: {"seek_target"}, h: Handles, whence: SeekWhence,
        offset: SeekOffsets \cup {0}, size: {0}, policy: SeekPolicy]
  \cup [at: {"seek_write"}, h: Handles, position: {0}]

Stuck ==
  /\ length \in Size
  /\ size = 0
  /\ position = [h \in Handles |-> 0]
  /\ policy \in [Handles -> SeekPolicy]
  /\ call \in [Tasks -> StuckCalls]

(* A step that only moves a call, to a form the invariant knows. *)
LEMMA GotoTypes ==
  ASSUME Stuck, NEW t \in Tasks, NEW r \in StuckCalls, Goto(t, r),
         UNCHANGED <<length, size, position, policy>>
  PROVE  Stuck'
BY DEF Stuck, Goto

(* Every task is in a call of a known form. *)
LEMMA CallTypes ==
  ASSUME Stuck, NEW t \in Tasks
  PROVE  call[t] \in StuckCalls
BY DEF Stuck

LEMMA Answers ==
  ASSUME NEW r \in {"none", "Ok", "PermissionDenied", "OutOfFile", "IoError"}
  PROVE  Done(r) \in StuckCalls
BY DEF Done, StuckCalls

LEMMA EnterTypes ==
  ASSUME Stuck, NEW t \in Tasks, NEW h, NEW open, NEW r \in StuckCalls,
         Enter(t, h, open), Goto(t, r)
  PROVE  Stuck'
BY GotoTypes DEF Enter

-----------------------------------------------------------------------------
(* A call begins. *)

LEMMA BeginTypes ==
  ASSUME Stuck, NEW t \in Tasks, NEW h \in Handles, Begin(t, h)
  PROVE  Stuck'
<1>1. position[h] = 0 /\ 0 \in Size
  BY SizesAssumption DEF Stuck, Size
<1>2. CASE Denied(t, h, Readable) \/ Denied(t, h, Writable)
  <2>1. Goto(t, Done("PermissionDenied"))
        /\ UNCHANGED <<length, size, position, policy>>
    BY <1>2 DEF Denied
  <2>2. QED
    BY <2>1, Answers, GotoTypes
<1>3. ASSUME NEW n \in Size, NEW unblocked \in BOOLEAN, Read(t, h, n, unblocked)
      PROVE  Stuck'
  <2>1. [at |-> "read", h |-> h, n |-> n, unblocked |-> unblocked] \in StuckCalls
    BY DEF StuckCalls
  <2>2. QED
    BY <1>3, <2>1, EnterTypes DEF Read
<1>4. ASSUME NEW n \in Size, NEW unblocked \in BOOLEAN, NEW o \in Size,
             ReadAt(t, h, n, unblocked, o)
      PROVE  Stuck'
  <2>1. [at |-> "copy", h |-> h, n |-> n, unblocked |-> unblocked,
         offset |-> o, seeks |-> FALSE] \in StuckCalls
    BY DEF StuckCalls
  <2>2. QED
    BY <1>4, <2>1, EnterTypes DEF ReadAt
<1>5. ASSUME NEW n \in Size, NEW unblocked \in BOOLEAN, NEW whole \in BOOLEAN,
             Line(t, h, n, unblocked, whole)
      PROVE  Stuck'
  <2>1. [at |-> "line", h |-> h, n |-> n, unblocked |-> unblocked,
         offset |-> position[h], seeks |-> TRUE, whole |-> whole] \in StuckCalls
    BY <1>1 DEF StuckCalls
  <2>2. QED
    BY <1>5, <2>1, EnterTypes DEF Line
<1>6. ASSUME NEW n \in Size, NEW unblocked \in BOOLEAN, NEW whole \in BOOLEAN,
             NEW o \in Size, LineAt(t, h, n, unblocked, whole, o)
      PROVE  Stuck'
  <2>1. [at |-> "line", h |-> h, n |-> n, unblocked |-> unblocked,
         offset |-> o, seeks |-> FALSE, whole |-> whole] \in StuckCalls
    BY DEF StuckCalls
  <2>2. QED
    BY <1>6, <2>1, EnterTypes DEF LineAt
<1>7. ASSUME NEW n \in Size, Write(t, h, n)
      PROVE  Stuck'
  <2>1. [at |-> "write_check", h |-> h, n |-> n, offset |-> position[h],
         seeks |-> TRUE] \in StuckCalls
    BY <1>1 DEF StuckCalls
  <2>2. QED
    BY <1>7, <2>1, EnterTypes DEF Write
<1>8. ASSUME NEW n \in Size, NEW o \in Size, WriteAt(t, h, n, o)
      PROVE  Stuck'
  <2>1. [at |-> "write_check", h |-> h, n |-> n, offset |-> o,
         seeks |-> FALSE] \in StuckCalls
    BY DEF StuckCalls
  <2>2. QED
    BY <1>8, <2>1, EnterTypes DEF WriteAt
<1>9. ASSUME NEW n \in Size, Truncate(t, h, n)
      PROVE  Stuck'
  <2>1. Least(0, n) = 0
    BY SizesAssumption DEF Least, Size
  <2>2. position' = position
    BY <1>1, <1>9, <2>1 DEF Truncate, Stuck
  <2>3. Done("Ok") \in StuckCalls
    BY Answers
  <2>4. QED
    BY <1>9, <2>2, <2>3 DEF Truncate, Goto, Stuck
<1>10. ASSUME NEW w \in SeekWhence, NEW o \in SeekOffsets, Seek(t, h, w, o)
       PROVE  Stuck'
  <2>1. [at |-> "seek", h |-> h, whence |-> w, offset |-> o] \in StuckCalls
    BY DEF StuckCalls
  <2>2. QED
    BY <1>10, <2>1, EnterTypes DEF Seek
<1>11. ASSUME NEW p \in SeekPolicy, SetSeekPolicy(t, h, p)
       PROVE  Stuck'
  <2>1. Done("Ok") \in StuckCalls
    BY Answers
  <2>2. QED
    BY <1>11, <2>1 DEF SetSeekPolicy, Goto, Stuck
<1>12. QED
  BY <1>2, <1>3, <1>4, <1>5, <1>6, <1>7, <1>8, <1>9, <1>10, <1>11 DEF Begin

-----------------------------------------------------------------------------
(* A call goes on.  Nothing is ever copied: with size 0, what does not     *)
(* answer OutOfFile copies no byte, at offset 0.                           *)

LEMMA CopyAnswers ==
  ASSUME Stuck, NEW c \in StuckCalls, c.at = "copy"
  PROVE  AfterCopy(c) \in StuckCalls
<1>1. c \in [at: {"copy"}, h: Handles, n: Size, unblocked: BOOLEAN,
             offset: Size, seeks: BOOLEAN]
  BY DEF StuckCalls
<1>2. size = 0 /\ c.offset \in Nat /\ c.n \in Nat
  BY <1>1, SizesAssumption DEF Stuck, Size
<1>3. CASE c.offset > 0
  BY <1>2, <1>3, Answers DEF AfterCopy
<1>4. CASE c.offset = 0
  <2>1. Least(c.n, size - c.offset) = 0
    BY <1>2, <1>4 DEF Least
  <2>2. AfterCopy(c) \in {Done("OutOfFile"), Moves(c, 0)}
    BY <1>2, <1>4, <2>1 DEF AfterCopy
  <2>3. Moves(c, 0) \in StuckCalls
    BY <1>1, Answers DEF Moves, StuckCalls, SeekWhence
  <2>4. QED
    BY <2>2, <2>3, Answers
<1>5. QED
  BY <1>2, <1>3, <1>4

LEMMA ContinueTypes ==
  ASSUME Stuck, NEW t \in Tasks, Continue(t)
  PROVE  Stuck'
<1>1. call[t] \in StuckCalls
  BY CallTypes
<1>2. CASE ReadPosition(t)
  <2> DEFINE r == [at |-> "copy", h |-> call[t].h, n |-> call[t].n,
                   unblocked |-> call[t].unblocked,
                   offset |-> position[call[t].h], seeks |-> TRUE]
  <2>1. call[t] \in [at: {"read"}, h: Handles, n: Size, unblocked: BOOLEAN]
    BY <1>1, <1>2 DEF ReadPosition, At, StuckCalls
  <2>2. position[call[t].h] = 0 /\ 0 \in Size
    BY <2>1, SizesAssumption DEF Stuck, Size
  <2>3. r \in StuckCalls
    BY <2>1, <2>2 DEF StuckCalls
  <2>4. QED
    BY <1>2, <2>3, GotoTypes DEF ReadPosition
<1>3. CASE ReadCopy(t)
  <2>1. AfterCopy(call[t]) \in StuckCalls
    BY <1>1, <1>3, CopyAnswers DEF ReadCopy, At
  <2>2. QED
    BY <1>3, <2>1, GotoTypes DEF ReadCopy
<1>4. CASE LineSize(t)
  <2>1. call[t].offset \in Nat /\ size = 0
    BY <1>1, <1>4, SizesAssumption DEF LineSize, At, StuckCalls, Stuck, Size
  <2>2. AfterLine(call[t]) \in {{Done("OutOfFile")}, {Done("Ok")}}
    BY <2>1 DEF AfterLine
  <2>3. PICK r \in AfterLine(call[t]) : Goto(t, r)
    BY <1>4 DEF LineSize
  <2>4. r \in StuckCalls
    BY <2>2, <2>3, Answers
  <2>5. QED
    BY <1>4, <2>3, <2>4, GotoTypes DEF LineSize
<1>5. CASE WriteCheck(t)
  <2> DEFINE passed == [call[t] EXCEPT !.at = "write_copy"]
  <2>1. call[t] \in [at: {"write_check"}, h: Handles, n: Size, offset: Size,
                     seeks: BOOLEAN]
    BY <1>1, <1>5 DEF WriteCheck, At, StuckCalls
  <2>2. size = 0 /\ call[t].offset \in Nat /\ call[t].n \in Nat
    BY <2>1, SizesAssumption DEF Stuck, Size
  <2>3. CASE call[t].offset + call[t].n > size
    BY <1>5, <2>3, Answers, GotoTypes DEF WriteCheck
  <2>4. CASE ~(call[t].offset + call[t].n > size)
    <3>1. call[t].offset = 0 /\ call[t].n = 0
      BY <2>2, <2>4
    <3>2. passed \in [at: {"write_copy"}, h: Handles, n: {0}, offset: {0},
                      seeks: BOOLEAN]
      BY <2>1, <3>1
    <3>3. passed \in StuckCalls
      BY <3>2 DEF StuckCalls
    <3>4. Goto(t, passed)
      BY <1>5, <2>4 DEF WriteCheck
    <3>5. QED
      BY <1>5, <3>3, <3>4, GotoTypes DEF WriteCheck
  <2>5. QED
    BY <2>3, <2>4
<1>6. CASE WriteCopy(t)
  <2>1. call[t] \in [at: {"write_copy"}, h: Handles, n: {0}, offset: {0},
                     seeks: BOOLEAN]
    BY <1>1, <1>6 DEF WriteCopy, At, StuckCalls
  <2>2. ~(call[t].offset + call[t].n > length)
    BY <2>1, SizesAssumption DEF Stuck, Size
  <2>3. Moves(call[t], call[t].n) \in StuckCalls
    BY <2>1, Answers DEF Moves, StuckCalls, SeekWhence
  <2>4. QED
    BY <1>6, <2>2, <2>3, GotoTypes DEF WriteCopy
<1>7. CASE SeekSize(t)
  <2> DEFINE r == [at |-> "seek_policy", h |-> call[t].h,
                   whence |-> call[t].whence, offset |-> call[t].offset,
                   size |-> size]
  <2>1. call[t] \in [at: {"seek"}, h: Handles, whence: SeekWhence,
                     offset: SeekOffsets \cup {0}]
    BY <1>1, <1>7 DEF SeekSize, At, StuckCalls
  <2>2. r \in StuckCalls
    BY <2>1 DEF Stuck, StuckCalls
  <2>3. QED
    BY <1>7, <2>2, GotoTypes DEF SeekSize
<1>10. CASE SeekPolicyRead(t)
  <2> DEFINE r == [at |-> "seek_target", h |-> call[t].h,
                   whence |-> call[t].whence, offset |-> call[t].offset,
                   size |-> call[t].size, policy |-> policy[call[t].h]]
  <2>1. call[t] \in [at: {"seek_policy"}, h: Handles, whence: SeekWhence,
                     offset: SeekOffsets \cup {0}, size: {0}]
    BY <1>1, <1>10 DEF SeekPolicyRead, At, StuckCalls
  <2>2. r \in StuckCalls
    BY <2>1 DEF Stuck, StuckCalls
  <2>3. QED
    BY <1>10, <2>2, GotoTypes DEF SeekPolicyRead
<1>8. CASE SeekTarget(t)
  <2> DEFINE r == [at |-> "seek_write", h |-> call[t].h,
                   position |-> Landing(call[t])]
  <2>1. call[t].h \in Handles
    BY <1>1, <1>8 DEF SeekTarget, At, StuckCalls
  <2>2. r \in StuckCalls
    BY <2>1 DEF Landing, StuckCalls
  <2>3. \/ Goto(t, Done("OutOfFile"))
        \/ Goto(t, r)
    BY <1>8 DEF SeekTarget
  <2>4. QED
    BY <1>8, <2>2, <2>3, Answers, GotoTypes DEF SeekTarget
<1>9. CASE SeekWrite(t)
  <2>1. call[t] \in [at: {"seek_write"}, h: Handles, position: {0}]
    BY <1>1, <1>9 DEF SeekWrite, At, StuckCalls
  <2>2. position' = position
    BY <1>9, <2>1 DEF SeekWrite, Stuck
  <2>3. QED
    BY <1>9, <2>2, Answers, GotoTypes DEF SeekWrite
<1>11. QED
  BY <1>2, <1>3, <1>4, <1>5, <1>6, <1>7, <1>8, <1>9, <1>10 DEF Continue

-----------------------------------------------------------------------------

(* The invariant the two theorems rest on. *)
THEOREM PositionsAreStuck == Spec => []Stuck
<1>1. Init => Stuck
  BY SizesAssumption, Answers DEF Init, Stuck, Size, SeekPolicy
<1>2. Stuck /\ [Next]_vars => Stuck'
  BY BeginTypes, ContinueTypes DEF Next, vars, Stuck
<1>3. QED
  BY <1>1, <1>2, PTL DEF Spec

LEMMA StuckCallsAreCalls == StuckCalls \subseteq Calls
<1>0. 0 \in Size /\ Size \subseteq Nat /\ SeekOffsets \cup {0} \subseteq Int /\ {0} \subseteq Nat
  BY SizesAssumption DEF Size
<1>1. [at: {"idle"}, result: {"none", "Ok", "PermissionDenied", "OutOfFile", "IoError"}] \subseteq Calls
  BY <1>0 DEF Calls
<1>2. [at: {"read"}, h: Handles, n: Size, unblocked: BOOLEAN] \subseteq Calls
  BY <1>0 DEF Calls
<1>3. [at: {"copy"}, h: Handles, n: Size, unblocked: BOOLEAN, offset: Size,
       seeks: BOOLEAN] \subseteq Calls
  BY <1>0 DEF Calls
<1>4. [at: {"line"}, h: Handles, n: Size, unblocked: BOOLEAN, offset: Size,
       seeks: BOOLEAN, whole: BOOLEAN] \subseteq Calls
  BY <1>0 DEF Calls
<1>5. [at: {"write_check"}, h: Handles, n: Size, offset: Size, seeks: BOOLEAN] \subseteq Calls
  BY <1>0 DEF Calls
<1>6. [at: {"write_copy"}, h: Handles, n: {0}, offset: {0}, seeks: BOOLEAN] \subseteq Calls
  BY <1>0 DEF Calls
<1>7. [at: {"seek"}, h: Handles, whence: SeekWhence, offset: SeekOffsets \cup {0}] \subseteq Calls
  BY <1>0 DEF Calls
<1>8. [at: {"seek_policy"}, h: Handles, whence: SeekWhence,
       offset: SeekOffsets \cup {0}, size: {0}] \subseteq Calls
  BY <1>0 DEF Calls
<1>9. [at: {"seek_target"}, h: Handles, whence: SeekWhence,
       offset: SeekOffsets \cup {0}, size: {0}, policy: SeekPolicy] \subseteq Calls
  BY <1>0 DEF Calls
<1>10. [at: {"seek_write"}, h: Handles, position: {0}] \subseteq Calls
  BY <1>0 DEF Calls
<1>11. QED
  BY <1>1, <1>2, <1>3, <1>4, <1>5, <1>6, <1>7, <1>8, <1>9, <1>10
     DEF StuckCalls

(* No target, and no order of seeks, writes and truncates, stores a         *)
(* position from before the start of the file.                             *)
THEOREM FileTypeCorrect == Spec => []TypeOK
<1>1. Stuck => TypeOK
  <2> SUFFICES ASSUME Stuck PROVE TypeOK
    OBVIOUS
  <2>1. length \in Nat /\ size \in Nat /\ position \in [Handles -> Nat]
    BY SizesAssumption DEF Stuck, Size
  <2>2. call \in [Tasks -> Calls]
    BY StuckCallsAreCalls DEF Stuck
  <2>3. QED
    BY <2>1, <2>2 DEF Stuck, TypeOK
<1>2. QED
  BY <1>1, PositionsAreStuck, PTL

(* No order of reads, writes, seeks and truncates copies beyond the end of  *)
(* the vector.                                                             *)
THEOREM NothingPanics == Spec => []NoPanic
<1>1. Stuck => NoPanic
  <2> SUFFICES ASSUME Stuck, NEW t \in Tasks, call[t].at = "idle"
               PROVE  call[t].result # "panic"
    BY DEF NoPanic, Idle, At
  <2>1. call[t] \in StuckCalls
    BY CallTypes
  <2>2. QED
    BY <2>1 DEF StuckCalls
<1>2. QED
  BY <1>1, PositionsAreStuck, PTL

=============================================================================
