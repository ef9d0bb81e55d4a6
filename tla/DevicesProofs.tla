--------------------------- MODULE DevicesProofs ---------------------------
(***************************************************************************)
(* Proofs about Devices, for any tasks, devices, ids and lists.            *)
(***************************************************************************)
EXTENDS Devices, SequenceTheorems, TLAPS

(* A search under way: its manager is global, so that its list no longer    *)
(* grows; what it has been through does not have the id, which is that of  *)
(* a device bound since the call began.                                    *)
Searching(t) ==
  At(t, "find") =>
    LET c == call[t] IN
      /\ c.kind \in ready
      /\ c.next <= Len(listed[c.kind]) + 1
      /\ \A i \in 1 .. c.next - 1 : Id[listed[c.kind][i]] # c.id
      /\ \E d \in since[t].held \ {NoDevice} : Id[d] = c.id

(* What is known of a call wherever it is.                                  *)
Calling(t) ==
  ~At(t, "idle") =>
    /\ device \in since[t].held
    /\ since[t].first # NoDevice => device # NoDevice
    /\ since[t].ready \subseteq ready
    /\ At(t, "cell") /\ call[t].kind # AnyKind => call[t].kind \in ready

(* What a call that is over got right.                                      *)
Fits(t) ==
  At(t, "idle") /\ call[t].answer.is = "Ok" =>
    /\ call[t].kind \in {AnyKind, DType[call[t].answer.device]}
    /\ \E d \in since[t].held \ {NoDevice} : Id[d] = Id[call[t].answer.device]
True(t) ==
  At(t, "idle") /\ call[t].answer = NotReady =>
    \/ since[t].first = NoDevice
    \/ call[t].kind # AnyKind /\ call[t].kind \notin since[t].ready
Known(t) == Searching(t) /\ Calling(t) /\ Fits(t) /\ True(t)

DevicesInvariant ==
  /\ TypeOK
  /\ ready # {} => shared
  /\ \A t \in Tasks : Known(t)

(* What a task's own state says of it stays, if no list, no Once and no     *)
(* device changes.                                                         *)
LEMMA OthersKept ==
  ASSUME NEW u \in Tasks, Known(u),
         call'[u] = call[u], since'[u] = since[u],
         listed' = listed, ready' = ready, device' = device
  PROVE  Known(u)'
BY DEF Known, Searching, Calling, Fits, True, At

LEMMA InitKeeps == Init => DevicesInvariant
<1> SUFFICES ASSUME Init
             PROVE  DevicesInvariant
  OBVIOUS
<1>1. TypeOK
  <2>1. listed \in [Kinds -> Seq(Devices)]
    BY DEF Init
  <2>2. call \in [Tasks -> Call]
    BY DEF Init, Call, Asking, Answer
  <2>3. since \in [Tasks -> Begun]
    BY DEF Init, Begun
  <2>4. \A k \in Kinds : \A i \in DOMAIN listed[k] : DType[listed[k][i]] = k
    <3>1. ASSUME NEW k \in Kinds
          PROVE  listed[k] = <<>>
      BY DEF Init
    <3>2. QED
      BY <3>1
  <2>5. QED
    BY <2>1, <2>2, <2>3, <2>4 DEF Init, TypeOK
<1>2. ASSUME NEW t \in Tasks
      PROVE  Known(t)
  BY DEF Init, Known, Searching, Calling, Fits, True, At, NotReady
<1>3. QED
  BY <1>1, <1>2 DEF Init, DevicesInvariant

LEMMA RegisterKeeps ==
  ASSUME DevicesInvariant, NEW d \in Devices, Register(d)
  PROVE  DevicesInvariant'
<1>1. PICK k : k = DType[d]
  OBVIOUS
<1>2. k \in Kinds /\ listed[k] \in Seq(Devices)
  BY <1>1, DevicesAssumption DEF DevicesInvariant, TypeOK
<1>3. PICK s : s = Append(listed[k], d)
  OBVIOUS
<1>4. /\ s \in Seq(Devices)
      /\ \A i \in DOMAIN s : \/ i \in DOMAIN listed[k] /\ s[i] = listed[k][i]
                            \/ s[i] = d
  BY <1>2, <1>3
<1>5. listed' = [listed EXCEPT ![k] = s]
  BY <1>1, <1>3 DEF Register
<1>6. TypeOK'
  <2>1. listed' \in [Kinds -> Seq(Devices)]
    BY <1>2, <1>4, <1>5 DEF DevicesInvariant, TypeOK
  <2>2. ASSUME NEW j \in Kinds, NEW i \in DOMAIN listed'[j]
        PROVE  DType[listed'[j][i]] = j
    BY <1>1, <1>2, <1>4, <1>5 DEF DevicesInvariant, TypeOK
  <2>3. QED
    BY <2>1, <2>2 DEF Register, DevicesInvariant, TypeOK
<1>7. ready = {} /\ ready' = {}
  BY DEF Register, DevicesInvariant
<1>8. ASSUME NEW t \in Tasks
      PROVE  Known(t)'
  <2>1. Known(t) /\ ~At(t, "find")
    BY <1>7 DEF DevicesInvariant, Known, Searching
  <2>2. QED
    BY <2>1 DEF Register, Known, Searching, Calling, Fits, True, At
<1>9. QED
  BY <1>6, <1>7, <1>8 DEF DevicesInvariant

LEMMA SetupKeeps ==
  ASSUME DevicesInvariant, FinalizeSetup \/ \E k \in Kinds : InitGlobal(k)
  PROVE  DevicesInvariant'
<1>1. TypeOK' /\ shared'
  BY DEF FinalizeSetup, InitGlobal, DevicesInvariant, TypeOK
<1>2. /\ ready \subseteq ready'
      /\ UNCHANGED <<listed, device, call, since>>
  BY DEF FinalizeSetup, InitGlobal
<1>3. ASSUME NEW t \in Tasks
      PROVE  Known(t)'
  BY <1>2 DEF DevicesInvariant, Known, Searching, Calling, Fits, True, At
<1>4. QED
  BY <1>1, <1>3 DEF DevicesInvariant

LEMMA SetDeviceKeeps ==
  ASSUME DevicesInvariant, NEW d \in Devices, SetDevice(d)
  PROVE  DevicesInvariant'
<1>1. /\ UNCHANGED <<listed, shared, ready, call>>
      /\ device' = d
      /\ \A t \in Tasks : since'[t] = IF At(t, "idle") THEN since[t]
                                      ELSE [since[t] EXCEPT !.held = @ \cup {d}]
  BY DEF SetDevice
<1>2. ASSUME NEW t \in Tasks
      PROVE  /\ since[t] \in Begun
             /\ since'[t] \in Begun
  <2>1. since[t] \in Begun
    BY DEF DevicesInvariant, TypeOK
  <2>2. [since[t] EXCEPT !.held = @ \cup {d}]
          \in Begun
    BY <2>1 DEF Begun
  <2>3. QED
    BY <1>1, <2>1, <2>2
<1>3. TypeOK'
  <2>1. since' \in [Tasks -> Begun]
    BY <1>2 DEF SetDevice
  <2>2. QED
    BY <1>1, <2>1 DEF DevicesInvariant, TypeOK
<1>4. ASSUME NEW t \in Tasks
      PROVE  Known(t)'
  <2>1. Known(t)
    BY DEF DevicesInvariant
  <2>2. CASE At(t, "idle")
    BY <1>1, <2>1, <2>2 DEF Known, Searching, Calling, Fits, True, At
  <2>3. CASE ~At(t, "idle")
    <3>1. /\ since'[t].held = since[t].held \cup {d}
          /\ since'[t].ready = since[t].ready
          /\ since'[t].first = since[t].first
      BY <1>1, <1>2, <2>3 DEF Begun
    <3>2. d # NoDevice
      BY DevicesAssumption
    <3>3. QED
      BY <1>1, <2>1, <2>3, <3>1, <3>2 DEF Known, Searching, Calling, Fits, True, At
  <2>4. QED
    BY <2>2, <2>3
<1>5. QED
  BY <1>1, <1>3, <1>4 DEF DevicesInvariant

-----------------------------------------------------------------------------
(* The steps of a task. *)

(* A step that changes the call of one task, and what is known of it.       *)
LEMMA CallStep ==
  ASSUME DevicesInvariant, NEW t \in Tasks,
         UNCHANGED <<listed, shared, ready, device>>,
         NEW c \in Call, call' = [call EXCEPT ![t] = c],
         since' \in [Tasks -> Begun],
         \A u \in Tasks \ {t} : since'[u] = since[u],
         Known(t)'
  PROVE  DevicesInvariant'
<1>1. TypeOK'
  BY DEF DevicesInvariant, TypeOK
<1>2. ASSUME NEW u \in Tasks
      PROVE  Known(u)'
  <2>1. CASE u = t
    BY <2>1
  <2>2. CASE u # t
    <3>1. call'[u] = call[u] /\ since'[u] = since[u] /\ Known(u)
      BY <2>2 DEF DevicesInvariant, TypeOK
    <3>2. QED
      BY <3>1, OthersKept
  <2>3. QED
    BY <2>1, <2>2
<1>3. QED
  BY <1>1, <1>2 DEF DevicesInvariant

LEMMA BeginKeeps ==
  ASSUME DevicesInvariant, NEW t \in Tasks, NEW k \in Asking, Begin(t, k)
  PROVE  DevicesInvariant'
<1>1. PICK c : c = [at |-> IF k = AnyKind THEN "cell" ELSE "global", kind |-> k]
  OBVIOUS
<1>2. c \in Call
  <2>1. CASE k = AnyKind
    BY <1>1, <2>1 DEF Call, Asking
  <2>2. CASE k # AnyKind
    BY <1>1, <2>2 DEF Call, Asking
  <2>3. QED
    BY <2>1, <2>2
<1>3. call' = [call EXCEPT ![t] = c] /\ UNCHANGED <<listed, shared, ready, device>>
  BY <1>1 DEF Begin, Goto
<1>4. PICK x : x = [held |-> {device}, ready |-> ready, first |-> device]
  OBVIOUS
<1>5. since' = [since EXCEPT ![t] = x]
  BY <1>4 DEF Begin
<1>6. x \in Begun
  BY <1>4 DEF DevicesInvariant, TypeOK, Begun
<1>7. /\ since' \in [Tasks -> Begun]
      /\ since'[t] = x
      /\ \A u \in Tasks \ {t} : since'[u] = since[u]
  BY <1>5, <1>6 DEF DevicesInvariant, TypeOK
<1>8. call'[t] = c
  BY <1>3 DEF DevicesInvariant, TypeOK
<1>9. Known(t)'
  BY <1>1, <1>3, <1>4, <1>7, <1>8 DEF Known, Searching, Calling, Fits, True, At
<1>10. QED
  BY <1>2, <1>3, <1>7, <1>9, CallStep

(* An answer a call ends with. *)
LEMMA ReturnKeeps ==
  ASSUME DevicesInvariant, NEW t \in Tasks, NEW a \in Answer, Return(t, a),
         UNCHANGED <<listed, shared, ready, device, since>>,
         a.is = "Ok" =>
           /\ call[t].kind \in {AnyKind, DType[a.device]}
           /\ \E d \in since[t].held \ {NoDevice} : Id[d] = Id[a.device],
         a = NotReady =>
           \/ since[t].first = NoDevice
           \/ call[t].kind # AnyKind /\ call[t].kind \notin since[t].ready
  PROVE  DevicesInvariant'
<1>1. call[t] \in Call
  BY DEF DevicesInvariant, TypeOK
<1>2. PICK c : c = [at |-> "idle", kind |-> call[t].kind, answer |-> a]
  OBVIOUS
<1>3. call[t].kind \in Asking
  BY <1>1 DEF Call, Asking
<1>4. c \in Call
  BY <1>2, <1>3 DEF Call
<1>5. call' = [call EXCEPT ![t] = c]
  BY <1>2 DEF Return
<1>6. call'[t] = c
  BY <1>5 DEF DevicesInvariant, TypeOK
<1>7. Known(t)'
  BY <1>2, <1>6 DEF Known, Searching, Calling, Fits, True, At
<1>8. since' \in [Tasks -> Begun]
  BY DEF DevicesInvariant, TypeOK
<1>9. QED
  BY <1>4, <1>5, <1>7, <1>8, CallStep

LEMMA AskGlobalKeeps ==
  ASSUME DevicesInvariant, NEW t \in Tasks, AskGlobal(t)
  PROVE  DevicesInvariant'
<1>1. /\ Known(t)
      /\ call[t] \in Call /\ At(t, "global")
      /\ UNCHANGED <<listed, shared, ready, device, since>>
  BY DEF DevicesInvariant, TypeOK, AskGlobal
<1>2. call[t].kind \in Kinds /\ call[t].kind # AnyKind
  BY <1>1 DEF Call, At, Kinds, AnyKind
<1>3. CASE call[t].kind \in ready
  <2>1. PICK c : c = [at |-> "cell", kind |-> call[t].kind]
    OBVIOUS
  <2>2. c \in Call
    BY <1>2, <2>1 DEF Call, Asking
  <2>3. call' = [call EXCEPT ![t] = c]
    BY <1>3, <2>1 DEF AskGlobal, Goto
  <2>4. call'[t] = c
    BY <2>3 DEF DevicesInvariant, TypeOK
  <2>5. Known(t)'
    BY <1>1, <1>3, <2>1, <2>4 DEF Known, Searching, Calling, Fits, True, At
  <2>6. since' \in [Tasks -> Begun]
    BY <1>1 DEF DevicesInvariant, TypeOK
  <2>7. QED
    BY <1>1, <2>2, <2>3, <2>5, <2>6, CallStep
<1>4. CASE call[t].kind \notin ready
  <2>1. Return(t, NotReady) /\ NotReady \in Answer /\ NotReady.is # "Ok"
    BY <1>4 DEF AskGlobal, Answer, NotReady
  <2>2. call[t].kind \notin since[t].ready
    BY <1>1, <1>4 DEF Known, Calling, At
  <2>3. QED
    BY <1>1, <1>2, <2>1, <2>2, ReturnKeeps
<1>5. QED
  BY <1>3, <1>4

LEMMA ReadCellKeeps ==
  ASSUME DevicesInvariant, NEW t \in Tasks, ReadCell(t)
  PROVE  DevicesInvariant'
<1>1. /\ Known(t)
      /\ call[t] \in Call /\ At(t, "cell")
      /\ UNCHANGED <<listed, shared, ready, device, since>>
  BY DEF DevicesInvariant, TypeOK, ReadCell
<1>2. /\ call[t].kind \in Asking /\ device \in since[t].held
      /\ since[t].first # NoDevice => device # NoDevice
  BY <1>1 DEF Call, At, Known, Calling
<1>3. device # NoDevice => device \in Devices
  BY DEF DevicesInvariant, TypeOK
<1>4. CASE device = NoDevice /\ Return(t, NotReady)
  <2>1. NotReady \in Answer /\ NotReady.is # "Ok"
    BY DEF Answer, NotReady
  <2>2. QED
    BY <1>1, <1>2, <1>4, <2>1, ReturnKeeps
<1>5. CASE device # NoDevice /\ call[t].kind = AnyKind /\ Return(t, Ok(device))
  <2>1. PICK a : a = Ok(device)
    OBVIOUS
  <2>2. a \in Answer /\ a.is = "Ok" /\ a.device = device /\ a # NotReady
    BY <1>3, <1>5, <2>1 DEF Answer, NotReady, Ok
  <2>3. Return(t, a)
    BY <1>5, <2>1
  <2>4. QED
    BY <1>1, <1>2, <1>5, <2>2, <2>3, ReturnKeeps
<1>6. CASE /\ device # NoDevice
           /\ call[t].kind # AnyKind
           /\ Goto(t, [at |-> "find", kind |-> call[t].kind,
                       id |-> Id[device], next |-> 1])
  <2>1. PICK c : c = [at |-> "find", kind |-> call[t].kind, id |-> Id[device], next |-> 1]
    OBVIOUS
  <2>2. call[t].kind \in Kinds /\ Id[device] \in Ids
    BY <1>2, <1>3, <1>6 DEF Asking, Ids
  <2>3. c \in Call
    BY <2>1, <2>2 DEF Call
  <2>4. call' = [call EXCEPT ![t] = c]
    BY <1>6, <2>1 DEF Goto
  <2>5. call'[t] = c
    BY <2>4 DEF DevicesInvariant, TypeOK
  <2>6. call[t].kind \in ready
    BY <1>1, <1>6 DEF Known, Calling, At
  <2>7. listed[call[t].kind] \in Seq(Devices)
    BY <2>2 DEF DevicesInvariant, TypeOK
  <2>8. Known(t)'
    BY <1>1, <1>2, <1>6, <2>1, <2>5, <2>6, <2>7
    DEF Known, Searching, Calling, Fits, True, At
  <2>9. since' \in [Tasks -> Begun]
    BY <1>1 DEF DevicesInvariant, TypeOK
  <2>10. QED
    BY <1>1, <2>3, <2>4, <2>8, <2>9, CallStep
<1>7. QED
  BY <1>4, <1>5, <1>6 DEF ReadCell

(* What a search is about to find at the next device of its list.           *)
LEMMA FindFacts ==
  ASSUME DevicesInvariant, NEW t \in Tasks, At(t, "find")
  PROVE  /\ Known(t)
         /\ call[t] \in [at: {"find"}, kind: Kinds, id: Ids, next: Nat \ {0}]
         /\ call[t].kind # AnyKind
         /\ listed[call[t].kind] \in Seq(Devices)
         /\ call[t].next <= Len(listed[call[t].kind]) =>
              /\ listed[call[t].kind][call[t].next] \in Devices
              /\ DType[listed[call[t].kind][call[t].next]] = call[t].kind
<1>1. Known(t) /\ call[t] \in Call
  BY DEF DevicesInvariant, TypeOK
<1>2. call[t] \in [at: {"find"}, kind: Kinds, id: Ids, next: Nat \ {0}]
  BY <1>1 DEF Call, At
<1>3. call[t].kind # AnyKind /\ call[t].kind \in Kinds
  BY <1>2 DEF Kinds, AnyKind
<1>4. listed[call[t].kind] \in Seq(Devices)
  BY <1>3 DEF DevicesInvariant, TypeOK
<1>5. ASSUME call[t].next <= Len(listed[call[t].kind])
      PROVE  call[t].next \in DOMAIN listed[call[t].kind]
  BY <1>2, <1>4, <1>5
<1>6. QED
  BY <1>1, <1>2, <1>3, <1>4, <1>5 DEF DevicesInvariant, TypeOK

LEMMA FindKeeps ==
  ASSUME DevicesInvariant, NEW t \in Tasks, Find(t)
  PROVE  DevicesInvariant'
<1>1. At(t, "find") /\ UNCHANGED <<listed, shared, ready, device, since>>
  BY DEF Find
<1>2. PICK k, n, id : k = call[t].kind /\ n = call[t].next /\ id = call[t].id
  OBVIOUS
<1>3. PICK devices : devices = listed[k]
  OBVIOUS
<1>4. /\ Known(t) /\ k \in Kinds /\ k # AnyKind /\ id \in Ids /\ n \in Nat \ {0}
      /\ devices \in Seq(Devices)
      /\ n <= Len(devices) => devices[n] \in Devices /\ DType[devices[n]] = k
  BY <1>1, <1>2, <1>3, FindFacts
<1>5. \/ n > Len(devices) /\ Return(t, Denied)
      \/ n <= Len(devices) /\ Id[devices[n]] = id /\ Return(t, Ok(devices[n]))
      \/ /\ n <= Len(devices)
         /\ Id[devices[n]] # id
         /\ Goto(t, [call[t] EXCEPT !.next = @ + 1])
  BY <1>2, <1>3 DEF Find
<1>6. CASE n > Len(devices) /\ Return(t, Denied)
  <2>1. Denied \in Answer /\ Denied.is # "Ok" /\ Denied # NotReady
    BY DEF Answer, Denied, NotReady
  <2>2. QED
    BY <1>1, <1>6, <2>1, ReturnKeeps
<1>7. CASE n <= Len(devices) /\ Id[devices[n]] = id /\ Return(t, Ok(devices[n]))
  <2>1. PICK a : a = Ok(devices[n])
    OBVIOUS
  <2>2. a \in Answer /\ a.device = devices[n] /\ a # NotReady
    BY <1>4, <1>7, <2>1 DEF Answer, NotReady, Ok
  <2>3. \E d \in since[t].held \ {NoDevice} : Id[d] = id
    BY <1>1, <1>2, <1>4 DEF Known, Searching
  <2>4. QED
    BY <1>1, <1>2, <1>4, <1>7, <2>1, <2>2, <2>3, ReturnKeeps
<1>8. CASE /\ n <= Len(devices)
           /\ Id[devices[n]] # id
           /\ Goto(t, [call[t] EXCEPT !.next = @ + 1])
  <2>1. PICK c : c = [at |-> "find", kind |-> k, id |-> id, next |-> n + 1]
    OBVIOUS
  <2>2. [call[t] EXCEPT !.next = @ + 1] = c
    BY <1>1, <1>2, <2>1, FindFacts
  <2>3. c \in Call
    BY <1>4, <2>1 DEF Call
  <2>4. call' = [call EXCEPT ![t] = c]
    BY <1>8, <2>2 DEF Goto
  <2>5. call'[t] = c
    BY <2>4 DEF DevicesInvariant, TypeOK
  <2>6. Searching(t)'
    <3>1. /\ k \in ready
          /\ \A i \in 1 .. n - 1 : Id[devices[i]] # id
          /\ \E d \in since[t].held \ {NoDevice} : Id[d] = id
      BY <1>1, <1>2, <1>3, <1>4 DEF Known, Searching
    <3>2. PICK m : m = n + 1
      OBVIOUS
    <3>3. \A i \in 1 .. m - 1 : i \in 1 .. n - 1 \/ i = n
      BY <1>4, <3>2
    <3>4. \A i \in 1 .. m - 1 : Id[devices[i]] # id
      BY <1>8, <3>1, <3>3
    <3>5. m <= Len(devices) + 1
      BY <1>4, <1>8, <3>2
    <3>6. /\ call'[t].kind = k /\ call'[t].id = id /\ call'[t].next = m
          /\ listed'[k] = devices /\ since'[t] = since[t] /\ ready' = ready
      BY <1>1, <1>3, <2>1, <2>5, <3>2
    <3>7. QED
      BY <3>1, <3>4, <3>5, <3>6 DEF Searching
  <2>7. Known(t)'
    BY <1>1, <1>4, <2>1, <2>5, <2>6 DEF Known, Calling, Fits, True, At
  <2>8. since' \in [Tasks -> Begun]
    BY <1>1 DEF DevicesInvariant, TypeOK
  <2>9. QED
    BY <1>1, <2>3, <2>4, <2>7, <2>8, CallStep
<1>9. QED
  BY <1>5, <1>6, <1>7, <1>8

-----------------------------------------------------------------------------

(* What is known of lists, cell and calls at every step.                    *)
THEOREM DevicesInvariance == Spec => []DevicesInvariant
<1>1. DevicesInvariant /\ [Next]_vars => DevicesInvariant'
  <2> SUFFICES ASSUME DevicesInvariant, [Next]_vars
               PROVE  DevicesInvariant'
    OBVIOUS
  <2>1. ASSUME NEW d \in Devices, Register(d) \/ SetDevice(d)
        PROVE  DevicesInvariant'
    BY <2>1, RegisterKeeps, SetDeviceKeeps
  <2>2. CASE FinalizeSetup \/ \E k \in Kinds : InitGlobal(k)
    BY <2>2, SetupKeeps
  <2>3. ASSUME NEW t \in Tasks,
               \/ \E k \in Kinds \cup {AnyKind} : Begin(t, k)
               \/ AskGlobal(t) \/ ReadCell(t) \/ Find(t)
        PROVE  DevicesInvariant'
    BY <2>3, BeginKeeps, AskGlobalKeeps, ReadCellKeeps, FindKeeps DEF Asking
  <2>4. CASE UNCHANGED vars
    BY <2>4 DEF vars, DevicesInvariant, TypeOK, Known, Searching, Calling, Fits, True, At
  <2>5. QED
    BY <2>1, <2>2, <2>3, <2>4 DEF Next
<1>2. QED
  BY <1>1, InitKeeps, PTL DEF Spec

(* Each manager lists devices of its own kind only; every variable has its  *)
(* declared range.                                                         *)
THEOREM DevicesTypeCorrect == Spec => []TypeOK
<1>1. DevicesInvariant => TypeOK
  BY DEF DevicesInvariant
<1>2. QED
  BY <1>1, DevicesInvariance, PTL

(* as_char_device and the others never hand out a device of another kind,   *)
(* nor one whose id no device bound during the call had.                   *)
THEOREM AnswersAreFit == Spec => []AnswersFit
<1>1. DevicesInvariant => AnswersFit
  BY DEF DevicesInvariant, Known, Fits, AnswersFit
<1>2. QED
  BY <1>1, DevicesInvariance, PTL

(* A call that begins with its manager global and a device bound is never   *)
(* told NotReady.                                                          *)
THEOREM NotReadyIsNeverStale == Spec => []NotReadyIsTrue
<1>1. DevicesInvariant => NotReadyIsTrue
  BY DEF DevicesInvariant, Known, True, NotReadyIsTrue
<1>2. QED
  BY <1>1, DevicesInvariance, PTL

-----------------------------------------------------------------------------
(* The refinement. *)

LEMMA QueryStart == Init => Query!QueryInit
BY DEF Init, Query!QueryInit, answers, AnswerOf, At, Query!NotReady, NotReady,
       Query!Kinds, Kinds, Query!NoDevice, NoDevice

(* An answer changes only with the call it is of, or a list searched.       *)
LEMMA AnswerKept ==
  ASSUME NEW u \in Tasks, call'[u] = call[u], listed' = listed
  PROVE  AnswerOf(u)' = AnswerOf(u)
BY DEF AnswerOf, At, Lookup, Matches

LEMMA AnswersKept ==
  ASSUME \A u \in Tasks : AnswerOf(u)' = AnswerOf(u)
  PROVE  answers' = answers
BY DEF answers

LEMMA OneAnswer ==
  ASSUME NEW t \in Tasks, NEW x, AnswerOf(t)' = x,
         \A u \in Tasks \ {t} : AnswerOf(u)' = AnswerOf(u)
  PROVE  answers' = [answers EXCEPT ![t] = x]
BY DEF answers

(* What every step of a task's call leaves alone.                           *)
LEMMA OwnCall ==
  ASSUME DevicesInvariant, NEW t \in Tasks, NEW c,
         call' = [call EXCEPT ![t] = c], listed' = listed
  PROVE  /\ call'[t] = c
         /\ \A u \in Tasks \ {t} : AnswerOf(u)' = AnswerOf(u)
BY AnswerKept DEF DevicesInvariant, TypeOK

(* Answers a call can end with are none of the questions it begins with.    *)
LEMMA NotAsked == \A a \in Answer : a.is # "asked"
BY DEF Answer, NotReady, Denied, Ok

LEMMA SetupSteps ==
  ASSUME DevicesInvariant,
         \/ \E d \in Devices : Register(d) \/ SetDevice(d)
         \/ FinalizeSetup
         \/ \E k \in Kinds : InitGlobal(k)
         \/ UNCHANGED vars
  PROVE  [Query!QueryNext]_(Query!queryVars)
<1> USE DEF Query!QueryNext, Query!queryVars
<1>1. ASSUME NEW d \in Devices, Register(d)
      PROVE  Query!Fill
  <2>1. DevicesInvariant'
    BY <1>1, RegisterKeeps
  <2>2. ready = {} /\ UNCHANGED <<ready, device, call>>
    BY <1>1 DEF Register, DevicesInvariant
  <2>3. ASSUME NEW u \in Tasks
        PROVE  AnswerOf(u)' = AnswerOf(u)
    <3>1. ~At(u, "find")
      BY <2>2 DEF DevicesInvariant, Known, Searching
    <3>2. QED
      BY <2>2, <3>1 DEF AnswerOf, At
  <2>4. answers' = answers
    BY <2>3, AnswersKept
  <2>5. QED
    BY <2>1, <2>2, <2>4 DEF Query!Fill, DevicesInvariant, TypeOK, Query!Kinds, Kinds
<1>2. ASSUME NEW d \in Devices, SetDevice(d)
      PROVE  Query!Bind(d)
  <2>1. UNCHANGED <<listed, ready, call>> /\ device' = d
    BY <1>2 DEF SetDevice
  <2>2. QED
    BY <2>1, AnswerKept, AnswersKept DEF Query!Bind
<1>3. CASE FinalizeSetup
  BY <1>3, AnswerKept, AnswersKept DEF FinalizeSetup
<1>4. ASSUME NEW k \in Kinds, InitGlobal(k)
      PROVE  Query!Publish(k)
  BY <1>4, AnswerKept, AnswersKept DEF InitGlobal, Query!Publish
<1>5. CASE UNCHANGED vars
  BY <1>5, AnswerKept, AnswersKept DEF vars
<1>6. QED
  BY <1>1, <1>2, <1>3, <1>4, <1>5 DEF Query!Kinds, Kinds

LEMMA BeginStep ==
  ASSUME DevicesInvariant, NEW t \in Tasks, NEW k \in Asking, Begin(t, k)
  PROVE  Query!Ask(t, k)
<1>1. PICK c : c = [at |-> IF k = AnyKind THEN "cell" ELSE "global", kind |-> k]
  OBVIOUS
<1>2. call' = [call EXCEPT ![t] = c] /\ UNCHANGED <<listed, ready, device>>
  BY <1>1 DEF Begin, Goto
<1>3. AnswerOf(t)' = Query!Asked(k)
  <2>1. call'[t] = c
    BY <1>2, OwnCall
  <2>2. call'[t].at \notin {"idle", "find"} /\ call'[t].kind = k
    BY <1>1, <2>1
  <2>3. QED
    BY <2>2 DEF AnswerOf, At, Query!Asked
<1>4. answers' = [answers EXCEPT ![t] = Query!Asked(k)]
  BY <1>2, <1>3, OwnCall, OneAnswer
<1>5. answers[t].is # "asked"
  <2>1. At(t, "idle") /\ call[t] \in Call
    BY DEF Begin, DevicesInvariant, TypeOK
  <2>2. call[t].answer \in Answer
    BY <2>1 DEF Call, At
  <2>3. answers[t] = call[t].answer
    BY <2>1 DEF answers, AnswerOf
  <2>4. QED
    BY <2>2, <2>3, NotAsked
<1>6. QED
  BY <1>2, <1>4, <1>5 DEF Query!Ask

(* The answer of a call is decided by the end of this step.                 *)
LEMMA ReplyStep ==
  ASSUME DevicesInvariant, NEW t \in Tasks, NEW c,
         At(t, "global") \/ At(t, "cell"),
         call' = [call EXCEPT ![t] = c],
         UNCHANGED <<listed, ready, device>>,
         AnswerOf(t)' = Query!Outcome(call[t].kind)
  PROVE  Query!Reply(t)
<1>1. answers[t] = [is |-> "asked", kind |-> call[t].kind]
  BY DEF answers, AnswerOf, At
<1>2. answers' = [answers EXCEPT ![t] = Query!Outcome(call[t].kind)]
  BY OwnCall, OneAnswer
<1>3. QED
  BY <1>1, <1>2 DEF Query!Reply

LEMMA AskGlobalStep ==
  ASSUME DevicesInvariant, NEW t \in Tasks, AskGlobal(t)
  PROVE  Query!Reply(t) \/ UNCHANGED Query!queryVars
<1>1. At(t, "global") /\ UNCHANGED <<listed, ready, device>>
  BY DEF AskGlobal
<1>2. call[t].kind # AnyKind
  <2>1. call[t] \in Call
    BY DEF DevicesInvariant, TypeOK
  <2>2. QED
    BY <1>1, <2>1 DEF Call, At, Kinds, AnyKind
<1>3. CASE call[t].kind \in ready
  <2>1. PICK c : c = [at |-> "cell", kind |-> call[t].kind]
    OBVIOUS
  <2>2. call' = [call EXCEPT ![t] = c]
    BY <1>3, <2>1 DEF AskGlobal, Goto
  <2>3. AnswerOf(t)' = AnswerOf(t)
    BY <1>1, <2>1, <2>2, OwnCall DEF AnswerOf, At
  <2>4. answers' = answers
    BY <1>1, <2>2, <2>3, OwnCall, AnswersKept
  <2>5. QED
    BY <1>1, <2>4 DEF Query!queryVars
<1>4. CASE call[t].kind \notin ready
  <2>1. PICK c : c = [at |-> "idle", kind |-> call[t].kind, answer |-> NotReady]
    OBVIOUS
  <2>2. call' = [call EXCEPT ![t] = c]
    BY <1>4, <2>1 DEF AskGlobal, Return
  <2>3. AnswerOf(t)' = NotReady
    <3>1. call'[t] = c
      BY <1>1, <2>2, OwnCall
    <3>2. QED
      BY <2>1, <3>1 DEF AnswerOf, At
  <2>4. Query!Outcome(call[t].kind) = NotReady
    BY <1>2, <1>4 DEF Query!Outcome, Query!AnyKind, AnyKind, Query!NotReady, NotReady
  <2>5. QED
    BY <1>1, <2>2, <2>3, <2>4, ReplyStep
<1>5. QED
  BY <1>3, <1>4

LEMMA LookupsAgree ==
  \A k \in Kinds, id \in Ids : Query!Lookup(k, id) = Lookup(k, id)
BY DEF Query!Lookup, Lookup, Query!Matches, Matches, Query!Denied, Denied, Query!Ok, Ok

LEMMA ReadCellStep ==
  ASSUME DevicesInvariant, NEW t \in Tasks, ReadCell(t)
  PROVE  Query!Reply(t)
<1>1. At(t, "cell") /\ UNCHANGED <<listed, ready, device>>
  BY DEF ReadCell
<1>2. /\ call[t].kind \in Asking
      /\ call[t].kind # AnyKind => call[t].kind \in ready
      /\ device # NoDevice => device \in Devices
  <2>1. call[t] \in Call /\ Known(t)
    BY DEF DevicesInvariant, TypeOK
  <2>2. QED
    BY <1>1, <2>1 DEF Call, At, Known, Calling, DevicesInvariant, TypeOK
<1>3. CASE device = NoDevice /\ Return(t, NotReady)
  <2>1. PICK c : c = [at |-> "idle", kind |-> call[t].kind, answer |-> NotReady]
    OBVIOUS
  <2>2. call' = [call EXCEPT ![t] = c]
    BY <1>3, <2>1 DEF Return
  <2>3. AnswerOf(t)' = NotReady
    <3>1. call'[t] = c
      BY <1>1, <2>2, OwnCall
    <3>2. QED
      BY <2>1, <3>1 DEF AnswerOf, At
  <2>4. Query!Outcome(call[t].kind) = NotReady
    BY <1>3 DEF Query!Outcome, Query!NoDevice, NoDevice, Query!NotReady, NotReady
  <2>5. QED
    BY <1>1, <2>2, <2>3, <2>4, ReplyStep
<1>4. CASE device # NoDevice /\ call[t].kind = AnyKind /\ Return(t, Ok(device))
  <2>1. PICK c : c = [at |-> "idle", kind |-> call[t].kind, answer |-> Ok(device)]
    OBVIOUS
  <2>2. call' = [call EXCEPT ![t] = c]
    BY <1>4, <2>1 DEF Return
  <2>3. AnswerOf(t)' = Ok(device)
    <3>1. call'[t] = c
      BY <1>1, <2>2, OwnCall
    <3>2. QED
      BY <2>1, <3>1 DEF AnswerOf, At
  <2>4. Query!Outcome(call[t].kind) = Ok(device)
    BY <1>4 DEF Query!Outcome, Query!NoDevice, NoDevice, Query!AnyKind, AnyKind, Query!Ok, Ok
  <2>5. QED
    BY <1>1, <2>2, <2>3, <2>4, ReplyStep
<1>5. CASE /\ device # NoDevice
           /\ call[t].kind # AnyKind
           /\ Goto(t, [at |-> "find", kind |-> call[t].kind,
                       id |-> Id[device], next |-> 1])
  <2>1. PICK c : c = [at |-> "find", kind |-> call[t].kind, id |-> Id[device], next |-> 1]
    OBVIOUS
  <2>2. call' = [call EXCEPT ![t] = c]
    BY <1>5, <2>1 DEF Goto
  <2>3. AnswerOf(t)' = Lookup(call[t].kind, Id[device])
    <3>1. call'[t] = c
      BY <1>1, <2>2, OwnCall
    <3>2. Lookup(c.kind, c.id)' = Lookup(c.kind, c.id)
      BY <1>1 DEF Lookup, Matches
    <3>3. QED
      BY <1>1, <2>1, <3>1, <3>2 DEF AnswerOf, At, Lookup, Matches
  <2>4. call[t].kind \in Kinds /\ Id[device] \in Ids
    BY <1>2, <1>5 DEF Asking, Ids
  <2>5. Query!Outcome(call[t].kind) = Lookup(call[t].kind, Id[device])
    BY <1>2, <1>5, <2>4, LookupsAgree
    DEF Query!Outcome, Query!NoDevice, NoDevice, Query!AnyKind, AnyKind
  <2>6. QED
    BY <1>1, <2>2, <2>3, <2>5, ReplyStep
<1>6. QED
  BY <1>3, <1>4, <1>5 DEF ReadCell

(* The search finds what was decided when it began: the list cannot have    *)
(* changed, and the first device with the id is the first it comes to.     *)
LEMMA FindStep ==
  ASSUME DevicesInvariant, NEW t \in Tasks, Find(t)
  PROVE  UNCHANGED Query!queryVars
<1>1. At(t, "find") /\ UNCHANGED <<listed, shared, ready, device, since>>
  BY DEF Find
<1>2. PICK k, n, id : k = call[t].kind /\ n = call[t].next /\ id = call[t].id
  OBVIOUS
<1>3. PICK devices : devices = listed[k]
  OBVIOUS
<1>4. /\ Known(t) /\ k \in Kinds /\ n \in Nat \ {0} /\ devices \in Seq(Devices)
  BY <1>1, <1>2, <1>3, FindFacts
<1>5. \A i \in 1 .. n - 1 : Id[devices[i]] # id
  BY <1>1, <1>2, <1>3, <1>4 DEF Known, Searching
<1>6. AnswerOf(t) = Lookup(k, id)
  BY <1>1, <1>2 DEF AnswerOf, At
<1>7. \A i \in Matches(k, id) : i \in Nat /\ n <= i /\ i <= Len(devices) /\ Id[devices[i]] = id
  BY <1>3, <1>4, <1>5 DEF Matches
<1>8. AnswerOf(t)' = AnswerOf(t)
  <2>1. CASE n > Len(devices) /\ Return(t, Denied)
    <3>1. Matches(k, id) = {}
      BY <1>4, <1>7, <2>1
    <3>2. PICK c : c = [at |-> "idle", kind |-> call[t].kind, answer |-> Denied]
      OBVIOUS
    <3>3. call' = [call EXCEPT ![t] = c]
      BY <2>1, <3>2 DEF Return
    <3>4. call'[t] = c
      BY <1>1, <3>3, OwnCall
    <3>5. QED
      BY <1>6, <3>1, <3>2, <3>4 DEF AnswerOf, At, Lookup
  <2>2. CASE n <= Len(devices) /\ Id[devices[n]] = id /\ Return(t, Ok(devices[n]))
    <3>1. n \in Matches(k, id)
      BY <1>3, <1>4, <2>2 DEF Matches
    <3>2. (CHOOSE i \in Matches(k, id) : \A j \in Matches(k, id) : i <= j) = n
      BY <1>4, <1>7, <3>1
    <3>3. Lookup(k, id) = Ok(devices[n])
      BY <1>3, <3>1, <3>2 DEF Lookup
    <3>4. PICK c : c = [at |-> "idle", kind |-> call[t].kind, answer |-> Ok(devices[n])]
      OBVIOUS
    <3>5. call' = [call EXCEPT ![t] = c]
      BY <2>2, <3>4 DEF Return
    <3>6. call'[t] = c
      BY <1>1, <3>5, OwnCall
    <3>7. QED
      BY <1>6, <3>3, <3>4, <3>6 DEF AnswerOf, At
  <2>3. CASE Goto(t, [call[t] EXCEPT !.next = @ + 1])
    <3>1. PICK c : c = [call[t] EXCEPT !.next = @ + 1]
      OBVIOUS
    <3>2. c.at = "find" /\ c.kind = k /\ c.id = id
      BY <1>1, <1>2, <3>1, FindFacts
    <3>3. call' = [call EXCEPT ![t] = c]
      BY <2>3, <3>1 DEF Goto
    <3>4. call'[t] = c
      BY <1>1, <3>3, OwnCall
    <3>5. Lookup(c.kind, c.id)' = Lookup(k, id)
      BY <1>1, <3>2 DEF Lookup, Matches
    <3>6. QED
      BY <1>1, <1>6, <3>2, <3>4, <3>5 DEF AnswerOf, At, Lookup, Matches
  <2>4. QED
    BY <1>2, <1>3, <2>1, <2>2, <2>3 DEF Find
<1>9. \A u \in Tasks \ {t} : AnswerOf(u)' = AnswerOf(u)
  <2>1. \A u \in Tasks \ {t} : call'[u] = call[u]
    BY DEF Find, Return, Goto, DevicesInvariant, TypeOK
  <2>2. QED
    BY <1>1, <2>1, AnswerKept
<1>10. answers' = answers
  BY <1>8, <1>9, AnswersKept
<1>11. QED
  BY <1>1, <1>10 DEF Query!queryVars

(* A handle's queries are as good as atomic: each is answered from lists,   *)
(* globals and binding of one moment, however long its search takes and    *)
(* whatever is bound or made global meanwhile.                             *)
THEOREM QueriesAreAtomic == Spec => ImplementsQuery
<1>1. DevicesInvariant /\ [Next]_vars => [Query!QueryNext]_(Query!queryVars)
  <2> SUFFICES ASSUME DevicesInvariant, [Next]_vars
               PROVE  [Query!QueryNext]_(Query!queryVars)
    OBVIOUS
  <2>1. CASE \/ \E d \in Devices : Register(d) \/ SetDevice(d)
             \/ FinalizeSetup
             \/ \E k \in Kinds : InitGlobal(k)
             \/ UNCHANGED vars
    BY <2>1, SetupSteps
  <2>2. ASSUME NEW t \in Tasks, NEW k \in Kinds \cup {AnyKind}, Begin(t, k)
        PROVE  Query!QueryNext
    <3>1. Query!Ask(t, k)
      BY <2>2, BeginStep DEF Asking
    <3>2. QED
      BY <3>1 DEF Query!QueryNext, Query!Kinds, Kinds, Query!AnyKind, AnyKind
  <2>3. ASSUME NEW t \in Tasks, AskGlobal(t) \/ ReadCell(t) \/ Find(t)
        PROVE  [Query!QueryNext]_(Query!queryVars)
    BY <2>3, AskGlobalStep, ReadCellStep, FindStep DEF Query!QueryNext
  <2>4. QED
    BY <2>1, <2>2, <2>3 DEF Next
<1>2. QED
  BY <1>1, QueryStart, DevicesInvariance, PTL DEF Spec, ImplementsQuery, Query!QuerySpec

=============================================================================
