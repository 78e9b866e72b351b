---------------------------- MODULE Cache_proofs ----------------------------
(***************************************************************************)
(* Proofs about the caches' files and what is in them.                     *)
(*                                                                         *)
(* Of AtomicFile: the inductive invariant IInv, the safety it gives, and   *)
(* that the protocol implements AtomicRegister, for every set of           *)
(* processes, writers, readers, contents and inodes.                       *)
(*                                                                         *)
(* Of Settings, Wire and Exchange: the inductive invariant ExchangeInv,    *)
(* for every family of inputs, every answer and every damage; what it      *)
(* rests on is that a key is of one question about one pair (KeyIsOwn),    *)
(* that an answer is read as it was meant or not at all (JudgedAs), and    *)
(* that a run is refused the same wherever a value is from (MovedIsSame).  *)
(*                                                                         *)
(* Of ComplexityCache: the inductive invariant AnalysisInv, that each file *)
(* is analysed once, and what a save keeps, for every tree, requests and   *)
(* number of runs, however often files are edited and the build replaced.  *)
(***************************************************************************)
EXTENDS AtomicFile, Exchange, ComplexityCache, SequenceTheorems, WellFoundedInduction, TLAPS

(* Names other than Target are the temporary ones, and no two constants    *)
(* that stand for different things are equal.                              *)
LEMMA NamesFacts ==
    /\ Target \in Names
    /\ Target \notin TempNames
    /\ \A k \in Pids, n \in 0 .. MaxTemp : <<k, n>> \in Names /\ <<k, n>> # Target
  BY DistinctAssumption, BoundAssumption DEF Names, TempNames

(* The initial state satisfies the inductive invariant.                    *)
LEMMA InitIInv == Init => IInv
<1> SUFFICES ASSUME Init PROVE IInv
  OBVIOUS
<1> USE DEF Init
<1>1. TypeOK
  BY NamesFacts, BoundAssumption DEF TypeOK, Stages
<1>2. OwnNames /\ UniqueTemp
  BY DEF OwnNames, UniqueTemp, Active, Running
<1>3. OneLink /\ HiddenTemp
  BY DEF OneLink, HiddenTemp
<1>4. Progress
  BY DEF Progress, Active
<1>5. WholeFiles
  BY NamesFacts, DistinctAssumption DEF WholeFiles, Stored, Seen
<1> QED
  BY <1>1, <1>2, <1>3, <1>4, <1>5 DEF IInv

(* Every step keeps the types.                                             *)
LEMMA NextType == TypeOK /\ OwnNames /\ Progress /\ [Next]_vars => TypeOK'
<1> SUFFICES ASSUME TypeOK, OwnNames, Progress, [Next]_vars
             PROVE  TypeOK'
  OBVIOUS
<1> USE NamesFacts, BoundAssumption, HomeAssumption
<1> USE DEF TypeOK, writerVars, readerVars, diskVars, procVars
<1>1. ASSUME NEW p \in Procs, Start(p) PROVE TypeOK'
  BY <1>1 DEF Start
<1>2. ASSUME NEW p \in Procs, Crash(p) PROVE TypeOK'
  BY <1>2 DEF Crash, Stages
<1>3. ASSUME NEW w \in Writers, NEW c \in Contents, BeginWrite(w, c) PROVE TypeOK'
  <2>1. pid[Home[w]] \in Pids /\ next[Home[w]] \in 0 .. MaxTemp
    BY <1>3 DEF BeginWrite, Running
  <2>2. TempName(Home[w]) \in Names
    BY <2>1 DEF TempName
  <2> QED
    BY <1>3, <2>1, <2>2 DEF BeginWrite, Stages
<1>4. ASSUME NEW w \in Writers, Create(w) PROVE TypeOK'
  BY <1>4 DEF Create, Stages
<1>5. ASSUME NEW w \in Writers, Fill(w) PROVE TypeOK'
  BY <1>5 DEF Fill, Stages
<1>6. ASSUME NEW w \in Writers, BeginRename(w) PROVE TypeOK'
  BY <1>6 DEF BeginRename, Stages
<1>7. ASSUME NEW w \in Writers, Rename(w) PROVE TypeOK'
  BY <1>7 DEF Rename, Return, Stages
<1>8. ASSUME NEW w \in Writers, FailWrite(w) PROVE TypeOK'
  BY <1>8 DEF FailWrite, Stages
<1>9. ASSUME NEW w \in Writers, Cleanup(w) PROVE TypeOK'
  BY <1>9 DEF Cleanup, Return, Stages
<1>10. ASSUME NEW r \in Readers, BeginRead(r) PROVE TypeOK'
  BY <1>10 DEF BeginRead
<1>11. ASSUME NEW r \in Readers, Open(r) PROVE TypeOK'
  BY <1>11 DEF Open
<1>12. ASSUME NEW r \in Readers, Deny(r) PROVE TypeOK'
  BY <1>12 DEF Deny, Progress
<1>13. ASSUME NEW r \in Readers, Finish(r) PROVE TypeOK'
  BY <1>13 DEF Finish
<1>14. ASSUME NEW r \in Readers, Retry(r) PROVE TypeOK'
  BY <1>14 DEF Retry
<1>15. CASE UNCHANGED vars
  BY <1>15 DEF vars
<1> HIDE DEF TypeOK, writerVars, readerVars, diskVars, procVars
<1> QED
  BY <1>1, <1>2, <1>3, <1>4, <1>5, <1>6, <1>7, <1>8, <1>9, <1>10, <1>11,
     <1>12, <1>13, <1>14, <1>15 DEF Next, System, Write, Read

(* The directory and the names a write owns: processes are told apart by   *)
(* their pids, the writes of one process by the numbers NEXT_TEMP gave.    *)
LEMMA NextNames ==
    TypeOK /\ OwnNames /\ UniqueTemp /\ [Next]_vars => OwnNames' /\ UniqueTemp'
<1> SUFFICES ASSUME TypeOK, OwnNames, UniqueTemp, [Next]_vars
             PROVE  OwnNames' /\ UniqueTemp'
  OBVIOUS
<1> USE HomeAssumption, BoundAssumption, DistinctAssumption
<1> USE DEF TypeOK, OwnNames, UniqueTemp, Active, Running, writerVars, procVars
<1>1. ASSUME NEW p \in Procs, Start(p) PROVE OwnNames' /\ UniqueTemp'
  <2>1. \A w \in Writers : Active(w) => Home[w] # p
    BY <1>1 DEF Start
  <2>2. PICK k \in Pids : /\ \A q \in Procs : pid[q] # k
                          /\ pid' = [pid EXCEPT ![p] = k]
    BY <1>1 DEF Start
  <2> QED
    BY <1>1, <2>1, <2>2 DEF Start
<1>2. ASSUME NEW p \in Procs, Crash(p) PROVE OwnNames' /\ UniqueTemp'
  BY <1>2 DEF Crash, Stages
<1>3. ASSUME NEW w \in Writers, NEW c \in Contents, BeginWrite(w, c)
      PROVE  OwnNames' /\ UniqueTemp'
  <2>1. pid[Home[w]] \in Pids /\ next[Home[w]] \in 0 .. MaxTemp
    BY <1>3 DEF BeginWrite
  <2>2. /\ temp' = [temp EXCEPT ![w] = <<pid[Home[w]], next[Home[w]]>>]
        /\ next' = [next EXCEPT ![Home[w]] = @ + 1]
        /\ pc' = [pc EXCEPT ![w] = "create"]
        /\ pid' = pid
    BY <1>3 DEF BeginWrite, TempName
  <2>3. OwnNames'
    BY <2>1, <2>2 DEF TempNames
  <2>4. ASSUME NEW v \in Writers, v # w, Active(v) PROVE temp[v] # temp'[w]
    <3>1. CASE Home[v] = Home[w]
      BY <2>2, <2>4, <3>1
    <3>2. CASE Home[v] # Home[w]
      BY <2>2, <2>4, <3>2
    <3> QED
      BY <3>1, <3>2
  <2>5. UniqueTemp'
    BY <2>2, <2>4
  <2> QED
    BY <2>3, <2>5
<1>4. ASSUME NEW w \in Writers, Create(w) PROVE OwnNames' /\ UniqueTemp'
  BY <1>4 DEF Create
<1>5. ASSUME NEW w \in Writers, Fill(w) PROVE OwnNames' /\ UniqueTemp'
  BY <1>5 DEF Fill
<1>6. ASSUME NEW w \in Writers, BeginRename(w) PROVE OwnNames' /\ UniqueTemp'
  BY <1>6 DEF BeginRename
<1>7. ASSUME NEW w \in Writers, Rename(w) PROVE OwnNames' /\ UniqueTemp'
  BY <1>7 DEF Rename, Return
<1>8. ASSUME NEW w \in Writers, FailWrite(w) PROVE OwnNames' /\ UniqueTemp'
  BY <1>8 DEF FailWrite
<1>9. ASSUME NEW w \in Writers, Cleanup(w) PROVE OwnNames' /\ UniqueTemp'
  BY <1>9 DEF Cleanup, Return
<1>10. ASSUME NEW r \in Readers, Read(r) PROVE OwnNames' /\ UniqueTemp'
  BY <1>10 DEF Read, BeginRead, Open, Deny, Retry, Finish
<1>11. CASE UNCHANGED vars
  BY <1>11 DEF vars
<1> HIDE DEF OwnNames, UniqueTemp, TypeOK
<1> QED
  BY <1>1, <1>2, <1>3, <1>4, <1>5, <1>6, <1>7, <1>8, <1>9, <1>10, <1>11
  DEF Next, System, Write

(* The name of a write under way is no other write's and not Target.       *)
LEMMA OwnName ==
    ASSUME TypeOK, OwnNames, UniqueTemp, NEW w \in Writers, Active(w)
    PROVE  /\ temp[w] \in Names \ {Target}
           /\ \A v \in Writers : v # w /\ Active(v) => temp[v] # temp[w]
  BY NamesFacts DEF TypeOK, OwnNames, UniqueTemp

(* No inode gets a second name, and none that still has a temporary name   *)
(* gets a reader.                                                          *)
LEMMA NextLinks ==
    IInv /\ [Next]_vars => OneLink' /\ HiddenTemp'
<1> SUFFICES ASSUME IInv, [Next]_vars PROVE OneLink' /\ HiddenTemp'
  OBVIOUS
<1> USE NamesFacts, DistinctAssumption
<1> USE DEF IInv, TypeOK, OneLink, HiddenTemp, diskVars, readerVars
<1>1. ASSUME NEW p \in Procs, Start(p) \/ Crash(p) PROVE OneLink' /\ HiddenTemp'
  BY <1>1 DEF Start, Crash
<1>2. ASSUME NEW w \in Writers, NEW c \in Contents, BeginWrite(w, c)
      PROVE  OneLink' /\ HiddenTemp'
  BY <1>2 DEF BeginWrite
<1>3. ASSUME NEW w \in Writers, Create(w) PROVE OneLink' /\ HiddenTemp'
  <2>1. PICK i \in Inodes :
          /\ IF dir[temp[w]] = NoInode THEN Free(i) ELSE i = dir[temp[w]]
          /\ dir' = [dir EXCEPT ![temp[w]] = i]
    BY <1>3 DEF Create
  <2>2. UNCHANGED view
    BY <1>3 DEF Create
  <2>3. CASE dir[temp[w]] = NoInode
    BY <2>1, <2>2, <2>3 DEF Free
  <2>4. CASE dir[temp[w]] # NoInode
    BY <2>1, <2>2, <2>4
  <2> QED
    BY <2>3, <2>4
<1>4. ASSUME NEW w \in Writers, Fill(w) \/ BeginRename(w) \/ FailWrite(w)
      PROVE  OneLink' /\ HiddenTemp'
  BY <1>4 DEF Fill, BeginRename, FailWrite
<1>5. ASSUME NEW w \in Writers, Rename(w) PROVE OneLink' /\ HiddenTemp'
  BY <1>5, OwnName DEF Rename, Active
<1>6. ASSUME NEW w \in Writers, Cleanup(w) PROVE OneLink' /\ HiddenTemp'
  BY <1>6 DEF Cleanup
<1>7. ASSUME NEW r \in Readers, Read(r) PROVE OneLink' /\ HiddenTemp'
  BY <1>7 DEF Read, BeginRead, Open, Deny, Retry, Finish
<1>8. CASE UNCHANGED vars
  BY <1>8 DEF vars
<1> HIDE DEF OneLink, HiddenTemp, IInv, TypeOK
<1> QED
  BY <1>1, <1>2, <1>3, <1>4, <1>5, <1>6, <1>7, <1>8 DEF Next, System, Write

(* A write finds its own inode and bytes where it left them.               *)
LEMMA NextProgress ==
    IInv /\ [Next]_vars => Progress'
<1> SUFFICES ASSUME IInv, [Next]_vars PROVE Progress'
  OBVIOUS
<1> USE NamesFacts, DistinctAssumption, BoundAssumption
<1> USE DEF IInv, TypeOK, Progress, Active, diskVars, readerVars, writerVars
<1>1. ASSUME NEW p \in Procs, Start(p) PROVE Progress'
  BY <1>1 DEF Start
<1>2. ASSUME NEW p \in Procs, Crash(p) PROVE Progress'
  BY <1>2 DEF Crash, Stages
<1>3. ASSUME NEW w \in Writers, NEW c \in Contents, BeginWrite(w, c)
      PROVE  Progress'
  BY <1>3 DEF BeginWrite
<1>4. ASSUME NEW w \in Writers, Create(w) PROVE Progress'
  <2>1. PICK i \in Inodes :
          /\ IF dir[temp[w]] = NoInode THEN Free(i) ELSE i = dir[temp[w]]
          /\ dir' = [dir EXCEPT ![temp[w]] = i]
          /\ data' = [data EXCEPT ![i] = Torn]
          /\ fd' = [fd EXCEPT ![w] = i]
    BY <1>4 DEF Create
  <2>2. /\ pc[w] = "create" /\ pc' = [pc EXCEPT ![w] = "fill"]
        /\ UNCHANGED <<temp, bytes, rpc, tries>>
    BY <1>4 DEF Create
  <2>3. ASSUME NEW v \in Writers, v # w, pc[v] \in {"rename", "replacing"}
        PROVE  dir[temp[v]] # i /\ temp[v] # temp[w]
    BY <2>1, <2>2, <2>3, OwnName DEF Free, OneLink
  <2>4. ASSUME NEW v \in Writers, v # w, pc[v] = "fill"
        PROVE  temp[v] # temp[w]
    BY <2>2, <2>4, OwnName
  <2> QED
    BY <2>1, <2>2, <2>3, <2>4
<1>5. ASSUME NEW w \in Writers, Fill(w) PROVE Progress'
  <2>1. /\ pc[w] = "fill" /\ pc' = [pc EXCEPT ![w] = "rename"]
        /\ data' = [data EXCEPT ![fd[w]] = bytes[w]]
        /\ fd' = [fd EXCEPT ![w] = NoInode]
        /\ UNCHANGED <<temp, bytes, dir, rpc, tries>>
    BY <1>5 DEF Fill
  <2>2. ASSUME NEW v \in Writers, v # w, pc[v] \in {"rename", "replacing"}
        PROVE  dir[temp[v]] # fd[w]
    BY <2>1, <2>2, OwnName DEF OneLink
  <2> QED
    BY <2>1, <2>2
<1>6. ASSUME NEW w \in Writers, BeginRename(w) \/ FailWrite(w) PROVE Progress'
  BY <1>6 DEF BeginRename, FailWrite
<1>7. ASSUME NEW w \in Writers, Rename(w) \/ Cleanup(w) PROVE Progress'
  BY <1>7, OwnName DEF Rename, Cleanup, Return
<1>8. ASSUME NEW r \in Readers, Read(r) PROVE Progress'
  BY <1>8 DEF Read, BeginRead, Open, Deny, Retry, Finish
<1>9. CASE UNCHANGED vars
  BY <1>9 DEF vars
<1> HIDE DEF Progress, IInv, TypeOK
<1> QED
  BY <1>1, <1>2, <1>3, <1>4, <1>5, <1>6, <1>7, <1>8, <1>9 DEF Next, System, Write

(* What a step does to the register that Stored and Seen show: nothing, or *)
(* a Put, or a Get.                                                        *)
LEMMA StepRegister ==
    IInv /\ [Next]_vars => [Register!Next]_(Register!vars)
<1> SUFFICES ASSUME IInv, [Next]_vars PROVE [Register!Next]_(Register!vars)
  OBVIOUS
<1> DEFINE seen == [r \in Readers |-> Seen(r)]
           Same == Stored' = Stored /\ seen' = seen
<1> USE NamesFacts, DistinctAssumption
<1> USE DEF IInv, TypeOK, diskVars, readerVars, writerVars
<1>1. ASSUME NEW p \in Procs, Start(p) \/ Crash(p) PROVE Same
  BY <1>1 DEF Start, Crash, Stored, Seen
<1>2. ASSUME NEW w \in Writers, NEW c \in Contents, BeginWrite(w, c) PROVE Same
  BY <1>2 DEF BeginWrite, Stored, Seen
<1>3. ASSUME NEW w \in Writers, Create(w) PROVE Same
  <2>1. PICK i \in Inodes :
          /\ IF dir[temp[w]] = NoInode THEN Free(i) ELSE i = dir[temp[w]]
          /\ dir' = [dir EXCEPT ![temp[w]] = i]
          /\ data' = [data EXCEPT ![i] = Torn]
    BY <1>3 DEF Create
  <2>2. UNCHANGED view /\ temp[w] \in Names \ {Target}
    BY <1>3, OwnName DEF Create, Active
  <2>3. dir[Target] # i /\ \A r \in Readers : view[r] # i
    BY <2>1, <2>2 DEF Free, OneLink, HiddenTemp
  <2> QED
    BY <2>1, <2>2, <2>3 DEF Stored, Seen
<1>4. ASSUME NEW w \in Writers, Fill(w) PROVE Same
  <2>1. /\ fd[w] = dir[temp[w]] /\ fd[w] \in Inodes
        /\ temp[w] \in Names \ {Target}
    BY <1>4, OwnName DEF Fill, Active, Progress
  <2>2. /\ data' = [data EXCEPT ![fd[w]] = bytes[w]]
        /\ UNCHANGED <<dir, view>>
    BY <1>4 DEF Fill
  <2>3. dir[Target] # fd[w] /\ \A r \in Readers : view[r] # fd[w]
    BY <2>1 DEF OneLink, HiddenTemp
  <2> QED
    BY <2>1, <2>2, <2>3 DEF Stored, Seen
<1>5. ASSUME NEW w \in Writers, BeginRename(w) \/ FailWrite(w) PROVE Same
  BY <1>5 DEF BeginRename, FailWrite, Stored, Seen
<1>6. ASSUME NEW w \in Writers, Rename(w) PROVE Register!Put
  <2>1. /\ temp[w] \in Names \ {Target}
        /\ dir[temp[w]] \in Inodes /\ data[dir[temp[w]]] = bytes[w]
        /\ bytes[w] \in Contents
    BY <1>6, OwnName DEF Rename, Active, Progress
  <2>2. /\ dir' = [dir EXCEPT ![Target] = dir[temp[w]], ![temp[w]] = NoInode]
        /\ UNCHANGED <<data, view>>
    BY <1>6 DEF Rename
  <2>3. Stored' = bytes[w]
    BY <2>1, <2>2 DEF Stored
  <2>4. seen' = seen
    BY <2>2 DEF Seen
  <2> QED
    BY <2>1, <2>3, <2>4 DEF Register!Put
<1>7. ASSUME NEW w \in Writers, Cleanup(w) PROVE Same
  <2>1. temp[w] \in Names \ {Target}
    BY <1>7, OwnName DEF Cleanup, Active
  <2> QED
    BY <1>7, <2>1 DEF Cleanup, Stored, Seen
<1>8. ASSUME NEW r \in Readers, BeginRead(r) \/ Retry(r) \/ Finish(r) PROVE Same
  BY <1>8 DEF BeginRead, Retry, Finish, Stored, Seen
<1>9. ASSUME NEW r \in Readers, Open(r) PROVE Register!Get(r)
  <2>1. view' = [view EXCEPT ![r] = dir[Target]] /\ UNCHANGED <<dir, data>>
    BY <1>9 DEF Open
  <2>2. Stored' = Stored
    BY <2>1 DEF Stored
  <2>3. seen' = [seen EXCEPT ![r] = Stored]
    BY <2>1 DEF Seen, Stored
  <2> QED
    BY <2>2, <2>3 DEF Register!Get
<1>10. ASSUME NEW r \in Readers, Deny(r) PROVE Same \/ Register!Get(r)
  <2>1. UNCHANGED <<dir, data>> /\ Stored' = Stored
    BY <1>10 DEF Deny, Stored
  <2>2. CASE UNCHANGED view
    BY <2>1, <2>2 DEF Seen
  <2>3. CASE view' = [view EXCEPT ![r] = Denied]
    <3>1. seen' = [seen EXCEPT ![r] = Denied]
      BY <2>1, <2>3 DEF Seen
    <3> QED
      BY <2>1, <3>1 DEF Register!Get
  <2> QED
    BY <1>10, <2>2, <2>3 DEF Deny
<1>11. ASSUME UNCHANGED vars PROVE Same
  <2>1. UNCHANGED <<dir, data, view>>
    BY <1>11 DEF vars
  <2> QED
    BY <2>1 DEF Stored, Seen
<1>12. ASSUME NEW w \in Writers, Write(w) PROVE Same \/ Register!Put
  BY <1>2, <1>3, <1>4, <1>5, <1>6, <1>7, <1>12 DEF Write
<1>13. ASSUME NEW r \in Readers, Read(r) PROVE Same \/ Register!Get(r)
  BY <1>8, <1>9, <1>10, <1>13 DEF Read
<1> HIDE DEF Same, IInv, TypeOK
<1>14. Same \/ Register!Put \/ \E r \in Readers : Register!Get(r)
  BY <1>1, <1>11, <1>12, <1>13 DEF Next, System
<1> QED
  BY <1>14 DEF Register!Next, Register!vars, Same

(* What readers see stays whole: the register only ever holds contents.    *)
LEMMA NextWhole == IInv /\ [Next]_vars => WholeFiles'
<1> SUFFICES ASSUME IInv, [Register!Next]_(Register!vars) PROVE WholeFiles'
  BY StepRegister
<1> DEFINE seen == [r \in Readers |-> Seen(r)]
<1>1. WholeFiles
  BY DEF IInv
<1>2. CASE Register!Put
  <2>1. Stored' \in Contents /\ seen' = seen
    BY <1>2 DEF Register!Put
  <2>2. \A r \in Readers : Seen(r)' = Seen(r)
    BY <2>1
  <2> QED
    BY <1>1, <2>1, <2>2 DEF WholeFiles
<1>3. ASSUME NEW r \in Readers, Register!Get(r) PROVE WholeFiles'
  <2>1. Stored' = Stored /\ \E v \in {Stored, Denied} : seen' = [seen EXCEPT ![r] = v]
    BY <1>3 DEF Register!Get
  <2>2. \A q \in Readers : Seen(q)' \in {Seen(q), Stored, Denied}
    BY <2>1
  <2> QED
    BY <1>1, <2>1, <2>2 DEF WholeFiles
<1>4. CASE UNCHANGED Register!vars
  <2>1. Stored' = Stored /\ seen' = seen
    BY <1>4 DEF Register!vars
  <2>2. \A r \in Readers : Seen(r)' = Seen(r)
    BY <2>1
  <2> QED
    BY <1>1, <2>1, <2>2 DEF WholeFiles
<1> QED
  BY <1>2, <1>3, <1>4 DEF Register!Next

(* The inductive invariant holds in every reachable state.                 *)
THEOREM Invariance == Spec => []IInv
<1>1. Init => IInv
  BY InitIInv
<1>2. IInv /\ [Next]_vars => IInv'
  BY NextType, NextNames, NextLinks, NextProgress, NextWhole DEF IInv
<1> QED
  BY <1>1, <1>2, PTL DEF Spec

(* Every state is well typed.                                              *)
THEOREM TypeCorrect == Spec => []TypeOK
<1>1. IInv => TypeOK
  BY DEF IInv
<1> QED
  BY <1>1, Invariance, PTL

(* No two writes under way ever share a temporary name: the claim of       *)
(* write_atomic's comment, for any number of processes, threads and pids.  *)
THEOREM NamesUnique == Spec => []UniqueTemp
<1>1. IInv => UniqueTemp
  BY DEF IInv
<1> QED
  BY <1>1, Invariance, PTL

(* No read ever returns a torn file.                                       *)
THEOREM NeverTorn == Spec => []WholeFiles
<1>1. IInv => WholeFiles
  BY DEF IInv
<1> QED
  BY <1>1, Invariance, PTL

(* The protocol of temporary file and rename implements one atomic         *)
(* register.                                                               *)
THEOREM Implements == Spec => ImplementsRegister
<1>1. Init => Register!Init
  BY NamesFacts, DistinctAssumption DEF Init, Register!Init, Stored, Seen
<1>2. IInv /\ [Next]_vars => [Register!Next]_(Register!vars)
  BY StepRegister
<1> QED
  BY <1>1, <1>2, Invariance, PTL DEF Spec, ImplementsRegister, Register!Spec

(* A linked temporary name is that of a write under way, which unlinks it  *)
(* before it returns; only a crash in the middle of a write, or a removal  *)
(* that fails, leaves it behind, and both are remembered.                  *)
LEMMA NextLeftovers == TypeOK /\ NoLeftovers /\ [Next]_vars => NoLeftovers'
<1> SUFFICES ASSUME TypeOK, NoLeftovers, [Next]_vars, tidy',
                    NEW n \in Names \ {Target}, dir'[n] # NoInode
             PROVE  \E v \in Writers : Active(v)' /\ temp'[v] = n
  BY DEF NoLeftovers
<1> DEFINE owned == \E v \in Writers : Active(v)' /\ temp'[v] = n
<1>1. ASSUME NEW p \in Procs, Start(p) PROVE owned
  BY <1>1 DEF Start, NoLeftovers, Active, writerVars, diskVars
<1>2. ASSUME NEW p \in Procs, Crash(p) PROVE owned
  <2>1. tidy /\ dir[n] # NoInode /\ \A v \in Writers : Home[v] = p => ~Active(v)
    BY <1>2 DEF Crash, diskVars
  <2>2. PICK v \in Writers : Active(v) /\ temp[v] = n
    BY <2>1 DEF NoLeftovers
  <2>3. Home[v] # p
    BY <2>1, <2>2
  <2>4. pc'[v] = pc[v] /\ temp'[v] = temp[v]
    BY <1>2, <2>3 DEF Crash
  <2>5. QED
    BY <2>2, <2>4 DEF Active
<1>3. ASSUME NEW w \in Writers, NEW c \in Contents, BeginWrite(w, c) PROVE owned
  <2>1. PICK v \in Writers : Active(v) /\ temp[v] = n
    BY <1>3 DEF BeginWrite, NoLeftovers, diskVars
  <2>2. v # w
    BY <1>3, <2>1 DEF BeginWrite, Active
  <2>3. QED
    BY <1>3, <2>1, <2>2 DEF BeginWrite, Active, TypeOK
<1>4. ASSUME NEW w \in Writers, Create(w) PROVE owned
  <2>1. \A v \in Writers : Active(v) => Active(v)' /\ temp'[v] = temp[v]
    BY <1>4 DEF Create, Active, TypeOK
  <2>2. CASE temp[w] = n
    BY <1>4, <2>1, <2>2 DEF Create, Active
  <2>3. CASE temp[w] # n
    <3>1. dir'[n] = dir[n] /\ tidy
      BY <1>4, <2>3 DEF Create, TypeOK
    <3>2. QED
      BY <2>1, <3>1 DEF NoLeftovers
  <2>4. QED
    BY <2>2, <2>3
<1>5. ASSUME NEW w \in Writers, Fill(w) \/ BeginRename(w) \/ FailWrite(w) PROVE owned
  <2>1. \A v \in Writers : Active(v) => Active(v)' /\ temp'[v] = temp[v]
    BY <1>5 DEF Fill, BeginRename, FailWrite, Active, TypeOK
  <2>2. dir' = dir /\ tidy
    BY <1>5 DEF Fill, BeginRename, FailWrite, diskVars
  <2>3. QED
    BY <2>1, <2>2 DEF NoLeftovers
<1>6. ASSUME NEW w \in Writers, Rename(w) \/ Cleanup(w) PROVE owned
  <2>1. tidy /\ dir[n] # NoInode /\ n # temp[w]
    BY <1>6, DistinctAssumption DEF Rename, Cleanup, TypeOK
  <2>2. PICK v \in Writers : Active(v) /\ temp[v] = n
    BY <2>1 DEF NoLeftovers
  <2>3. v # w
    BY <2>1, <2>2
  <2>4. pc'[v] = pc[v] /\ temp'[v] = temp[v]
    BY <1>6, <2>3 DEF Rename, Cleanup, Return, TypeOK
  <2>5. QED
    BY <2>2, <2>4 DEF Active
<1>7. ASSUME NEW r \in Readers, Read(r) PROVE owned
  BY <1>7 DEF Read, BeginRead, Open, Deny, Retry, Finish, NoLeftovers, Active, writerVars, diskVars
<1>8. CASE UNCHANGED vars
  BY <1>8 DEF vars, NoLeftovers, Active
<1> HIDE DEF owned
<1> QED
  BY <1>1, <1>2, <1>3, <1>4, <1>5, <1>6, <1>7, <1>8 DEF Next, System, Write, owned

(* "A failed write removes" its temporary file: unless a crash or a        *)
(* removal that failed has interrupted a write, every temporary file in    *)
(* the directory belongs to a write under way.                             *)
THEOREM NothingIsLeft == Spec => []NoLeftovers
<1>1. Init => NoLeftovers
  BY DEF Init, NoLeftovers
<1>2. TypeOK /\ NoLeftovers /\ [Next]_vars => NoLeftovers'
  BY NextLeftovers
<1> QED
  BY <1>1, <1>2, TypeCorrect, PTL DEF Spec

-----------------------------------------------------------------------------
(* Settings *)

(* A change of one value of a command line changes nothing else of it.     *)
LEMMA OneValueOfCli ==
    ASSUME NEW c, IsCli(c), NEW k \in Flagged, NEW v
    PROVE  LET d == [c EXCEPT !.value[k] = v] IN
           /\ DOMAIN d.value = Flagged
           /\ d.value[k] = v
           /\ \A j \in Flagged \ {k} : d.value[j] = c.value[j]
           /\ d.on = c.on /\ d.path = c.path /\ d.workspace = c.workspace
           /\ d.packages = c.packages /\ d.baseline = c.baseline /\ d.exclude = c.exclude
           /\ d.noDefaults = c.noDefaults /\ d.noCache = c.noCache /\ d.allow = c.allow
           /\ d.repoUrl = c.repoUrl /\ d.commitRef = c.commitRef
  BY DEF IsCli, Bare

(* Nor does one of the values of a file.                                   *)
LEMMA OneValueOfConfig ==
    ASSUME NEW c, IsConfig(c), NEW k \in Flagged, NEW v
    PROVE  LET d == [c EXCEPT !.value[k] = v] IN
           /\ DOMAIN d.value = Configured
           /\ d.value[k] = v
           /\ \A j \in Configured \ {k} : d.value[j] = c.value[j]
           /\ d.on = c.on /\ d.cache = c.cache /\ d.exclude = c.exclude
           /\ d.defaults = c.defaults /\ d.allow = c.allow /\ d.gate = c.gate
           /\ d.limits = c.limits
  BY DEF IsConfig, Blank, Configured

(* Nor does a change of one file change anything else of the world.        *)
LEMMA OneFileOfWorld ==
    ASSUME NEW in, IsInput(in), NEW p \in DOMAIN in.world.files, NEW k, NEW v
    PROVE  LET w == in.world
               u == [w EXCEPT !.files[p].value[k] = v] IN
           /\ DOMAIN u.files = DOMAIN w.files
           /\ u.files[p] = [w.files[p] EXCEPT !.value[k] = v]
           /\ u.cwd = w.cwd /\ u.dirs = w.dirs /\ u.manifests = w.manifests
           /\ u.metadata = w.metadata /\ u.env = w.env /\ u.hit = w.hit
  BY DEF IsInput

(* A bounded set of numbers has a greatest: what stands in for induction.  *)
LEMMA GreatestNumber ==
    ASSUME NEW T \in SUBSET Nat, T # {}, NEW n \in Nat, \A k \in T : k <= n
    PROVE  \E m \in T : \A k \in T : k <= m
<1> DEFINE Less == OpToRel(<, Nat)
           Bounds == {u \in Nat : \A k \in T : k <= u}
<1>1. IsWellFoundedOn(Less, Nat)
  BY NatLessThanWellFounded
<1>2. \A x, y \in Nat : x < y => <<x, y>> \in Less
  BY DEF OpToRel
<1> HIDE DEF Less
<1>3. PICK u \in Bounds : \A v \in Bounds : <<v, u>> \notin Less
  <2>1. Bounds \subseteq Nat /\ n \in Bounds
    OBVIOUS
  <2>2. QED
    BY <1>1, <2>1, WFMin
<1>4. \A k \in T : k \in Nat /\ k <= u
  BY <1>3
<1>5. ASSUME u \notin T
      PROVE  FALSE
  <2>1. \A k \in T : k < u
    BY <1>3, <1>4, <1>5
  <2>2. u \in Nat /\ u - 1 \in Nat /\ u - 1 < u
    <3>1. PICK k \in T : TRUE
      OBVIOUS
    <3>2. u \in Nat /\ k \in Nat /\ k < u
      BY <1>3, <1>4, <2>1
    <3>3. QED
      BY <3>2
  <2>3. u - 1 \in Bounds
    BY <1>4, <2>1, <2>2
  <2>4. QED
    BY <1>2, <1>3, <2>2, <2>3
<1>6. QED
  BY <1>4, <1>5

(* The nearest directory of a set is one of the set ...                    *)
LEMMA NearestIsOne ==
    ASSUME NEW S, NEW start, start \in Seq(STRING), Nearest(S, start) # None
    PROVE  Nearest(S, start) \in S
<1> DEFINE above == S \cap Ancestors(start)
           Lens == {Len(d) : d \in above}
<1>1. above # {}
  BY DEF Nearest
<1>2. \A d \in above : Len(d) \in Nat /\ Len(d) <= Len(start)
  <2>1. \A n \in 1 .. Len(start) : SubSeq(start, 1, n) \in Seq(STRING) /\ Len(SubSeq(start, 1, n)) = n
    BY SubSeqProperties
  <2>2. Len(start) \in Nat
    OBVIOUS
  <2> QED
    BY <2>1, <2>2 DEF Ancestors
<1>3. Lens \in SUBSET Nat /\ Lens # {} /\ \A k \in Lens : k <= Len(start)
  BY <1>1, <1>2
<1>4. PICK m \in Lens : \A k \in Lens : k <= m
  <2> HIDE DEF Lens
  <2>1. Len(start) \in Nat
    OBVIOUS
  <2> QED
    BY <1>3, <2>1, GreatestNumber
<1>5. PICK d \in above : Len(d) = m
  BY <1>4
<1>6. \A e \in above : Len(e) <= Len(d)
  BY <1>4, <1>5
<1>7. Nearest(S, start) = CHOOSE d1 \in above : \A e \in above : Len(e) <= Len(d1)
  BY <1>1 DEF Nearest
<1> HIDE DEF above
<1>8. Nearest(S, start) \in above
  BY <1>5, <1>6, <1>7
<1> QED
  BY <1>8 DEF above

(* The configuration that is read is one a file holds, or none at all.     *)
LEMMA ConfigIsOne ==
    ASSUME NEW in, IsInput(in)
    PROVE  /\ FoundIn(in.world) # None => FoundIn(in.world) \in DOMAIN in.world.files
           /\ Config(in.world) # Bad => IsConfig(Config(in.world))
<1>1. FoundIn(in.world) # None => FoundIn(in.world) \in DOMAIN in.world.files
  BY NearestIsOne DEF FoundIn, IsInput
<1>2. IsConfig(Blank)
  <2>1. /\ DOMAIN Blank.value = Configured /\ Blank.exclude = <<>> /\ Blank.value["model"] = None
    BY DEF Blank, Configured
  <2>2. <<>> \in Seq(Range(<<>>))
    OBVIOUS
  <2> QED
    BY <2>1, <2>2 DEF IsConfig
<1> QED
  BY <1>1, <1>2 DEF Config, IsInput

(* A value given as a flag or, instead, in the file: the run that comes of *)
(* the one is the run that comes of the other.                             *)
LEMMA MovedIsSame ==
    ASSUME IsInput(input), Readable(input), FoundIn(world) # None, Config(world) # Bad,
           NEW k \in Flagged, cmd.value[k] # None
    PROVE  LET moved == Moved(k) IN
           /\ Accepted(moved.cmd, moved.world) <=> Accepted(cmd, world)
           /\ Settled(moved.cmd, moved.world) = Settled(cmd, world)
<1> DEFINE p == FoundIn(world)
           cfg == Config(world)
           v == cmd.value[k]
           c == [cmd EXCEPT !.value[k] = None]
           w == [world EXCEPT !.files[p].value[k] = v]
           d == [cfg EXCEPT !.value[k] = v]
<1>1. Moved(k).cmd = c /\ Moved(k).world = w
  BY DEF Moved
<1>2. p \in DOMAIN world.files /\ cfg = world.files[p] /\ IsConfig(cfg) /\ IsCli(cmd)
  BY ConfigIsOne DEF Config, cmd, world, IsInput
<1>3. /\ DOMAIN c.value = Flagged /\ c.value[k] = None
      /\ \A j \in Flagged \ {k} : c.value[j] = cmd.value[j]
      /\ c.on = cmd.on /\ c.path = cmd.path /\ c.workspace = cmd.workspace
      /\ c.packages = cmd.packages /\ c.baseline = cmd.baseline /\ c.exclude = cmd.exclude
      /\ c.noDefaults = cmd.noDefaults /\ c.noCache = cmd.noCache /\ c.allow = cmd.allow
      /\ c.repoUrl = cmd.repoUrl /\ c.commitRef = cmd.commitRef
  BY <1>2, OneValueOfCli
<1>4. /\ DOMAIN d.value = Configured /\ d.value[k] = v
      /\ \A j \in Configured \ {k} : d.value[j] = cfg.value[j]
      /\ d.on = cfg.on /\ d.cache = cfg.cache /\ d.exclude = cfg.exclude
      /\ d.defaults = cfg.defaults /\ d.allow = cfg.allow /\ d.gate = cfg.gate
      /\ d.limits = cfg.limits
  BY <1>2, OneValueOfConfig
<1>5. /\ DOMAIN w.files = DOMAIN world.files /\ w.files[p] = d
      /\ w.cwd = world.cwd /\ w.dirs = world.dirs /\ w.manifests = world.manifests
      /\ w.metadata = world.metadata /\ w.env = world.env /\ w.hit = world.hit
  BY <1>2, OneFileOfWorld DEF world
<1>6. d # Bad
  BY <1>2 DEF Readable, cmd, world
<1>7. FoundIn(w) = FoundIn(world)
  <2> HIDE DEF w
  <2> QED
    BY <1>5 DEF FoundIn
<1> HIDE DEF c, w, d, cfg, v
<1>8. FoundIn(w) = p /\ Config(w) = d
  BY <1>5, <1>7 DEF Config
<1> HIDE DEF p
<1>9. /\ cmd.value[k] = v /\ v # None /\ IsConfig(cfg)
      /\ None # 0 /\ Flagged \subseteq Configured
  BY <1>2, NoneAssumption DEF v, Configured
<1>10. Merged(c, d) = Merged(cmd, cfg)
  <2> SUFFICES ASSUME NEW j \in Configured PROVE Merged(c, d)[j] = Merged(cmd, cfg)[j]
    BY DEF Merged
  <2>1. d.value["provider"] = cfg.value["provider"]
    BY <1>4 DEF Flagged, Configured
  <2>2. CASE j = k
    BY <1>3, <1>4, <1>9, <2>2 DEF Merged, OneOf, Given
  <2>3. CASE j # k
    BY <1>3, <1>4, <1>9, <2>1, <2>3 DEF Merged, OneOf, Given
  <2> QED
    BY <2>2, <2>3
<1>11. On(c, d) = On(cmd, cfg) /\ Excludes(c, d) = Excludes(cmd, cfg) /\ Gated(d) = Gated(cfg)
  BY <1>3, <1>4 DEF On, Excludes, Gated
<1>12. Links(c, w) = Links(cmd, world) /\ PathIgnored(c) = PathIgnored(cmd)
  BY <1>3, <1>5 DEF Links, PathIgnored
<1>13. TargetBelow(w, c.path) = TargetBelow(world, cmd.path)
  <2>1. \A start : WorkspaceRoot(w, start) = WorkspaceRoot(world, start)
    BY <1>5 DEF WorkspaceRoot
  <2>2. \A name : Set(w, name) = Set(world, name)
    BY <1>5 DEF Set
  <2> QED
    BY <1>3, <1>5, <1>7, <2>1, <2>2 DEF TargetBelow
<1>14. Settled(c, w) = Settled(cmd, world)
  BY <1>3, <1>4, <1>5, <1>8, <1>10, <1>11, <1>12, <1>13 DEF Settled, cfg
<1>15. SignalsHold(d) <=> SignalsHold(cfg)
  BY <1>4 DEF SignalsHold
<1>16. ProviderHolds(d) <=> ProviderHolds(cfg)
  BY <1>4 DEF ProviderHolds, Flagged, Configured
<1>17. ValuesHold(Merged(cmd, cfg)) => (ArgsHold(c, w) <=> ArgsHold(cmd, world))
  <2> DEFINE value == Merged(cmd, cfg)
  <2>1. value[k] = v /\ \A j \in Flagged \ {k} : c.value[j] = cmd.value[j]
    BY <1>3, <1>9 DEF Merged, OneOf, Given
  <2> QED
    BY <1>3, <1>5, <1>9, <1>12, <2>1 DEF ArgsHold, ValuesHold, Flagged
<1> QED
  BY <1>1, <1>6, <1>8, <1>10, <1>14, <1>15, <1>16, <1>17 DEF Accepted, cfg

-----------------------------------------------------------------------------
(* The stages before the settings are made. *)
Unsettled == {"args", "config", "provider", "values", "signals", "resolve", "failed"}

(* Every step is of the settings or after them.                            *)
LEMMA Steps ==
    ASSUME ExchangeNext
    PROVE  \/ Begin /\ UNCHANGED <<cache, ask, given, spoilt>>
           \/ /\ stage \notin Unsettled /\ stage' \notin Unsettled
              /\ UNCHANGED <<family, input, settled, runs>>
           \/ Again
  BY DEF ExchangeNext, Settling, Untriaged, LookUp, Plan, Receive, Spoil, Hear, Keep, Unsettled

(* The input is one of the project's.                                      *)
LEMMA NextInput == InputOK /\ [ExchangeNext]_exchangeVars => InputOK'
<1> SUFFICES ASSUME InputOK, [ExchangeNext]_exchangeVars PROVE InputOK'
  OBVIOUS
<1>1. CASE Begin
  BY <1>1 DEF InputOK, Begin, ParseArgs, LoadConfig, ResolveProvider, ValidateValues,
              ResolveSignals, Settle, Check
<1>2. CASE Again
  BY <1>2 DEF InputOK, Again
<1>3. CASE UNCHANGED <<family, input>>
  BY <1>3 DEF InputOK
<1> QED
  BY <1>1, <1>2, <1>3, Steps DEF exchangeVars

(* A run gets past its settings if all that is checked holds, and is       *)
(* refused otherwise.                                                      *)
LEMMA NextChecked ==
    Checked /\ Resolved /\ [ExchangeNext]_exchangeVars => Checked' /\ Resolved'
<1> SUFFICES ASSUME Checked, Resolved, [ExchangeNext]_exchangeVars PROVE Checked' /\ Resolved'
  OBVIOUS
<1>1. ASSUME UNCHANGED input
      PROVE  /\ ArgsHold(cmd, world)' = ArgsHold(cmd, world)
             /\ Config(world)' = Config(world)
             /\ ProviderHolds(Config(world))' = ProviderHolds(Config(world))
             /\ ValuesHold(Merged(cmd, Config(world)))' = ValuesHold(Merged(cmd, Config(world)))
             /\ SignalsHold(Config(world))' = SignalsHold(Config(world))
             /\ Accepted(cmd, world)' = Accepted(cmd, world)
             /\ Settled(cmd, world)' = Settled(cmd, world)
  <2>1. cmd' = cmd /\ world' = world
    BY <1>1 DEF cmd, world
  <2> QED
    BY <2>1
<1>2. CASE Begin
  <2>1. CASE ParseArgs
    BY <1>1, <2>1 DEF ParseArgs, Check, Checked, Resolved, Accepted
  <2>2. CASE LoadConfig
    BY <1>1, <2>2 DEF LoadConfig, Check, Checked, Resolved, Accepted
  <2>3. CASE ResolveProvider
    BY <1>1, <2>3 DEF ResolveProvider, Check, Checked, Resolved, Accepted
  <2>4. CASE ValidateValues
    BY <1>1, <2>4 DEF ValidateValues, Check, Checked, Resolved, Accepted
  <2>5. CASE ResolveSignals
    BY <1>1, <2>5 DEF ResolveSignals, Check, Checked, Resolved, Accepted
  <2>6. CASE Settle
    BY <1>1, <2>6 DEF Settle, Checked, Resolved
  <2> QED
    BY <1>2, <2>1, <2>2, <2>3, <2>4, <2>5, <2>6 DEF Begin
<1>3. CASE /\ stage \notin Unsettled /\ stage' \notin Unsettled
           /\ UNCHANGED <<family, input, settled, runs>>
  BY <1>1, <1>3 DEF Checked, Resolved, Unsettled
<1>4. CASE Again
  BY <1>4 DEF Again, Checked, Resolved
<1>5. CASE UNCHANGED exchangeVars
  BY <1>1, <1>5 DEF Checked, Resolved, exchangeVars
<1> QED
  BY <1>2, <1>3, <1>4, <1>5, Steps

(* A sequence over a set is one over any larger set.                       *)
LEMMA SeqSuper == ASSUME NEW S, NEW T, NEW s \in Seq(S) PROVE s \in Seq(S \cup T) /\ s \in Seq(T \cup S)
<1>1. s \in [1 .. Len(s) -> S] /\ Len(s) \in Nat
  OBVIOUS
<1> QED
  BY <1>1

(* What the settings show of themselves, from what was checked.            *)
LEMMA CheckedShows ==
    ASSUME InputOK, Checked, Resolved
    PROVE  NoSmuggling /\ WarnedExactly
<1>1. IsInput(input) /\ Readable(input)
  BY InputsAssumption DEF InputOK
<1>2. /\ settled # None => Accepted(cmd, world) /\ settled = Settled(cmd, world)
      /\ Started /\ settled = None => ~Accepted(cmd, world)
  BY DEF Started, Checked, Resolved, Accepted
<1>3. NoSmuggling
  <2> SUFFICES ASSUME Started, FoundIn(world) # None, Config(world) # Bad,
                      NEW k \in Flagged, cmd.value[k] # None
               PROVE  /\ settled # None <=> Accepted(Moved(k).cmd, Moved(k).world)
                      /\ settled # None => settled = Settled(Moved(k).cmd, Moved(k).world)
    BY DEF NoSmuggling
  <2> QED
    BY <1>1, <1>2, MovedIsSame
<1>4. WarnedExactly
  <2> SUFFICES ASSUME settled # None
               PROVE  settled.warned = {cmd.exclude[n] : n \in DOMAIN cmd.exclude} \ world.hit
    BY DEF WarnedExactly
  <2> DEFINE cfg == Config(world)
             a == cfg.exclude
             b == cmd.exclude
  <2>1. a \in Seq(Range(a)) /\ b \in Seq(Range(b))
    BY <1>1, <1>2, ConfigIsOne DEF Accepted, IsConfig, IsInput, IsCli, cmd, world
  <2>2. settled.warned = {(a \o b)[n] : n \in {m \in Len(a) + 1 .. Len(a \o b) : (a \o b)[m] \notin world.hit}}
    <3>1. settled.warned = Unmatched(Excludes(cmd, cfg),
              [n \in DOMAIN Excludes(cmd, cfg).user |-> Excludes(cmd, cfg).user[n] \in world.hit])
      BY <1>2 DEF Settled
    <3>2. Excludes(cmd, cfg).user = a \o b /\ Excludes(cmd, cfg).cliStart = Len(a)
      BY DEF Excludes
    <3>3. DOMAIN (a \o b) = 1 .. Len(a \o b) /\ Len(a) \in Nat
      BY <2>1
    <3> HIDE DEF a, b, cfg
    <3>4. Len(a) + 1 .. Len(a \o b) \subseteq DOMAIN (a \o b)
      BY <3>3
    <3>5. \A m \in Len(a) + 1 .. Len(a \o b) :
            [n \in DOMAIN (a \o b) |-> (a \o b)[n] \in world.hit][m] = ((a \o b)[m] \in world.hit)
      BY <3>4
    <3> QED
      BY <3>1, <3>2, <3>5 DEF Unmatched
  <2>3. /\ Len(a) \in Nat /\ Len(b) \in Nat /\ Len(a \o b) = Len(a) + Len(b)
        /\ \A n \in 1 .. Len(b) : (a \o b)[Len(a) + n] = b[n]
        /\ DOMAIN b = 1 .. Len(b)
    <3> DEFINE T == Range(a) \cup Range(b)
    <3>1. a \in Seq(T) /\ b \in Seq(T)
      BY <2>1, SeqSuper
    <3> HIDE DEF a, b, T
    <3> QED
      BY <3>1
  <2> HIDE DEF a, b
  <2>4. \A m \in Len(a) + 1 .. Len(a) + Len(b) :
          /\ m - Len(a) \in DOMAIN b /\ (a \o b)[m] = b[m - Len(a)]
    BY <2>3
  <2>5. \A n \in DOMAIN b : Len(a) + n \in Len(a) + 1 .. Len(a) + Len(b)
    BY <2>3
  <2>6. settled.warned = {b[n] : n \in DOMAIN b} \ world.hit
    <3>1. \A n \in DOMAIN b : (a \o b)[Len(a) + n] = b[n]
      BY <2>3
    <3> DEFINE ab == a \o b
               L == Len(a)
    <3>2. settled.warned = {ab[n] : n \in {m \in L + 1 .. L + Len(b) : ab[m] \notin world.hit}}
      BY <2>2, <2>3
    <3>3. \A m \in L + 1 .. L + Len(b) : \E n \in DOMAIN b : ab[m] = b[n]
      BY <2>4
    <3>4. \A n \in DOMAIN b : \E m \in L + 1 .. L + Len(b) : ab[m] = b[n]
      BY <2>5, <3>1
    <3> HIDE DEF ab, L
    <3> QED
      BY <3>2, <3>3, <3>4
  <2> QED
    BY <2>6 DEF b
<1> QED
  BY <1>3, <1>4

-----------------------------------------------------------------------------
(* Bodies *)

(* What holds of 0 and of the next number holds of every number: sets of   *)
(* naturals stand in for the induction rule's predicate.                   *)
LEMMA FromZero ==
    ASSUME NEW G, 0 \in G, \A n \in Nat : n \in G => n + 1 \in G
    PROVE  Nat \subseteq G
<1> DEFINE Less == OpToRel(<, Nat)
           Left == Nat \ G
<1>1. IsWellFoundedOn(Less, Nat)
  BY NatLessThanWellFounded
<1>2. \A x, y \in Nat : x < y => <<x, y>> \in Less
  BY DEF OpToRel
<1> HIDE DEF Less
<1>3. SUFFICES ASSUME Left # {}
               PROVE  FALSE
  OBVIOUS
<1>4. PICK u \in Left : \A v \in Left : <<v, u>> \notin Less
  <2>1. Left \subseteq Nat
    OBVIOUS
  <2>2. QED
    BY <1>1, <1>3, <2>1, WFMin
<1>5. u \in Nat /\ u # 0
  OBVIOUS
<1>6. u - 1 \in Nat /\ u - 1 < u /\ (u - 1) + 1 = u
  BY <1>5
<1>7. u - 1 \in G
  BY <1>2, <1>4, <1>5, <1>6
<1>8. QED
  BY <1>4, <1>6, <1>7

(* read_span, line by line. *)
TextThen(lines, from, before, n) ==
    IF n = from THEN lines[n] ELSE before \o <<NewLine>> \o lines[n]
IsText(t, lines, from, to) ==
    t = [n \in from .. to |-> TextThen(lines, from, t[n - 1], n)]

(* The recursion of ReadSpan is a function of the lines ...                *)
LEMMA SpanIsText ==
    ASSUME NEW lines, NEW from, NEW to, \E t : IsText(t, lines, from, to),
           ReadSpan(lines, from, to) # None
    PROVE  \E t : IsText(t, lines, from, to) /\ ReadSpan(lines, from, to) = t[to]
<1> DEFINE t == CHOOSE t : IsText(t, lines, from, to)
<1>1. IsText(t, lines, from, to)
  OBVIOUS
<1>2. ReadSpan(lines, from, to) = t[to]
  BY DEF ReadSpan, IsText, TextThen
<1> QED
  BY <1>1, <1>2

(* ... which there is for any span.                                        *)
LEMMA TextsExist ==
    ASSUME NEW lines, NEW from \in Nat, NEW to \in Nat, from <= to
    PROVE  \E t : IsText(t, lines, from, to)
<1> DEFINE D == from .. to
           Upto(t, k) == \A n \in D : n <= from + k => t[n] = TextThen(lines, from, t[n - 1], n)
           G == {k \in Nat : \E t : Upto(t, k)}
<1>1. \A b, c : TextThen(lines, from, b, from) = TextThen(lines, from, c, from)
  BY DEF TextThen
<1>2. 0 \in G
  <2> DEFINE z == [n \in D |-> TextThen(lines, from, <<>>, from)]
  <2>1. \A n \in D : n <= from + 0 => n = from
    OBVIOUS
  <2>2. Upto(z, 0)
    BY <1>1, <2>1
  <2> HIDE DEF Upto, z
  <2> QED
    BY <2>2
<1>3. ASSUME NEW k \in Nat, k \in G
      PROVE  k + 1 \in G
  <2>1. PICK t : Upto(t, k)
    BY <1>3
  <2> DEFINE h == [n \in D |-> TextThen(lines, from, t[n - 1], n)]
  <2>2. \A n \in D : n <= from + k => h[n] = t[n]
    BY <2>1
  <2>3. \A n \in D : h[n] = TextThen(lines, from, t[n - 1], n)
    OBVIOUS
  <2>4. \A n \in D : n # from /\ n <= from + (k + 1) => n - 1 \in D /\ n - 1 <= from + k
    OBVIOUS
  <2> HIDE DEF h, D
  <2>5. ASSUME NEW n \in D, n <= from + (k + 1)
        PROVE  h[n] = TextThen(lines, from, h[n - 1], n)
    <3>1. CASE n = from
      BY <1>1, <2>3, <3>1
    <3>2. CASE n # from
      <4>1. h[n - 1] = t[n - 1]
        BY <2>2, <2>4, <2>5, <3>2
      <4> QED
        BY <2>3, <4>1
    <3> QED
      BY <3>1, <3>2
  <2>6. Upto(h, k + 1)
    BY <2>5
  <2> HIDE DEF Upto
  <2> QED
    BY <2>6
<1>4. to - from \in G
  <2> HIDE DEF G
  <2>1. Nat \subseteq G
    BY <1>2, <1>3, FromZero
  <2>2. to - from \in Nat
    OBVIOUS
  <2> QED
    BY <2>1, <2>2
<1>5. PICK t : Upto(t, to - from)
  BY <1>4
<1>6. \A n \in D : n <= from + (to - from)
  OBVIOUS
<1> DEFINE h == [n \in D |-> t[n]]
<1>7. \A n \in D : t[n] = TextThen(lines, from, t[n - 1], n)
  BY <1>5, <1>6
<1>8. \A n \in D : TextThen(lines, from, h[n - 1], n) = TextThen(lines, from, t[n - 1], n)
  <2>1. \A n \in D : n # from => n - 1 \in D
    OBVIOUS
  <2>2. \A n \in D : n # from => h[n - 1] = t[n - 1]
    BY <2>1
  <2> HIDE DEF h, D
  <2> QED
    BY <1>1, <2>2
<1>9. h = [n \in D |-> TextThen(lines, from, h[n - 1], n)]
  BY <1>7, <1>8
<1> QED
  BY <1>9 DEF IsText

(* A body that is there is a text.                                         *)
LEMMA SpanType ==
    ASSUME NEW lines \in Seq(Seq(Int)), NEW from \in Nat, NEW to \in Nat,
           ReadSpan(lines, from, to) # None
    PROVE  ReadSpan(lines, from, to) \in Seq(Int)
<1>1. from # 0 /\ from <= to /\ to <= Len(lines)
  BY DEF ReadSpan
<1>2. PICK t : IsText(t, lines, from, to) /\ ReadSpan(lines, from, to) = t[to]
  BY <1>1, TextsExist, SpanIsText
<1>3. \A n \in from .. to : t[n] = TextThen(lines, from, t[n - 1], n)
  BY <1>2 DEF IsText
<1>4. \A n \in from .. to : lines[n] \in Seq(Int)
  BY <1>1
<1> DEFINE G == {k \in Nat : from + k <= to => t[from + k] \in Seq(Int)}
<1>5. 0 \in G
  <2>1. from \in from .. to /\ from + 0 = from
    BY <1>1
  <2>2. t[from] = lines[from]
    BY <1>3, <2>1 DEF TextThen
  <2> QED
    BY <1>4, <2>1, <2>2
<1>6. ASSUME NEW k \in Nat, k \in G
      PROVE  k + 1 \in G
  <2> SUFFICES ASSUME from + (k + 1) <= to PROVE t[from + (k + 1)] \in Seq(Int)
    OBVIOUS
  <2> DEFINE n == from + (k + 1)
  <2>1. n \in from .. to /\ n # from /\ n - 1 = from + k /\ from + k <= to
    OBVIOUS
  <2>2. t[n - 1] \in Seq(Int)
    BY <1>6, <2>1
  <2> HIDE DEF n
  <2>3. t[n] = t[n - 1] \o <<NewLine>> \o lines[n]
    BY <1>3, <2>1 DEF TextThen
  <2>4. <<NewLine>> \in Seq(Int)
    BY DEF NewLine
  <2>5. t[n] \in Seq(Int)
    BY <1>4, <2>1, <2>2, <2>3, <2>4, ConcatProperties
  <2> QED
    BY <2>5 DEF n
<1> HIDE DEF G
<1>7. to - from \in G
  <2>1. Nat \subseteq G
    BY <1>5, <1>6, FromZero
  <2>2. to - from \in Nat
    BY <1>1
  <2> QED
    BY <2>1, <2>2
<1>8. from + (to - from) = to
  OBVIOUS
<1> QED
  BY <1>2, <1>7, <1>8 DEF G

-----------------------------------------------------------------------------
(* Asking *)

(* The bodies of the pair, if both are there.                              *)
LEMMA BodiesType ==
    ASSUME InputOK,
           None \notin Range([s \in DOMAIN world.spans |->
                               ReadSpan(world.lines, world.spans[s].from, world.spans[s].to)])
    PROVE  [s \in DOMAIN world.spans |->
              ReadSpan(world.lines, world.spans[s].from, world.spans[s].to)] \in Sources
<1>1. /\ world.lines \in Seq(Seq(Int)) /\ DOMAIN world.spans = 1 .. 2
      /\ \A s \in 1 .. 2 : world.spans[s].from \in Nat /\ world.spans[s].to \in Nat
  BY PairAssumption DEF InputOK, world, Texts
<1>2. \A s \in 1 .. 2 : ReadSpan(world.lines, world.spans[s].from, world.spans[s].to) # None
  BY <1>1 DEF Range
<1>3. \A s \in 1 .. 2 : ReadSpan(world.lines, world.spans[s].from, world.spans[s].to) \in Seq(Int)
  BY <1>1, <1>2, SpanType
<1> QED
  BY <1>1, <1>3 DEF Sources, Texts

(* The pair is looked up, asked about and judged in turn.                  *)
LEMMA NextAsked == InputOK /\ Asked /\ [ExchangeNext]_exchangeVars => Asked'
<1> SUFFICES ASSUME InputOK, Asked, [ExchangeNext]_exchangeVars PROVE Asked'
  OBVIOUS
<1>1. CASE Begin /\ UNCHANGED <<cache, ask, given, spoilt>>
  <2>1. stage \notin {"looked", "asking", "answered", "done"}
    BY <1>1 DEF Begin, ParseArgs, LoadConfig, ResolveProvider, ValidateValues, ResolveSignals,
                Settle, Check
  <2> QED
    BY <1>1, <2>1 DEF Asked, Begin, ParseArgs, LoadConfig, ResolveProvider, ValidateValues,
                ResolveSignals, Settle, Check, Unasked
<1>2. CASE Untriaged
  BY <1>2 DEF Untriaged, Asked, Unasked
<1>3. CASE LookUp
  <2>1. ask = Unasked
    BY <1>3 DEF LookUp, Asked
  <2> DEFINE sources == [s \in DOMAIN world.spans |->
                           ReadSpan(world.lines, world.spans[s].from, world.spans[s].to)]
  <2>2. CASE None \in Range(sources)
    BY <1>3, <2>1, <2>2 DEF LookUp, Asked, Unasked
  <2>3. CASE None \notin Range(sources)
    <3>1. sources \in Sources
      BY <2>3, BodiesType
    <3> HIDE DEF sources
    <3>2. /\ stage' = "looked"
          /\ \E c : ask' = [ask EXCEPT !.sources = sources, !.cached = c]
      BY <1>3, <2>3 DEF LookUp, sources
    <3> QED
      BY <2>1, <3>1, <3>2 DEF Asked, Unasked
  <2> QED
    BY <2>2, <2>3
<1>4. CASE Plan
  BY <1>4 DEF Plan, Asked, Unasked
<1>5. CASE Receive
  BY <1>5 DEF Receive, Asked, Unasked
<1>6. CASE Spoil
  BY <1>6 DEF Spoil, Asked
<1>7. CASE Again
  BY <1>7 DEF Again, Asked, Unasked
<1>8. ASSUME NEW reply \in world.replies, Hear(reply) PROVE Asked'
  BY <1>8 DEF Hear, Asked, Unasked
<1>9. CASE UNCHANGED exchangeVars
  BY <1>9 DEF exchangeVars, Asked
<1> QED
  BY <1>1, <1>2, <1>3, <1>4, <1>5, <1>6, <1>7, <1>8, <1>9 DEF ExchangeNext, Settling

(* What may pass is what is retried.                                       *)
LEMMA ClassIsPassing ==
    ASSUME NEW reply, reply.status \in Nat
    PROVE  /\ Class(reply) = "transient" => Passing(reply)
           /\ Class(reply) = "final" => ~Passing(reply)
<1>1. CASE reply.status = 0
  BY <1>1 DEF Class, Passing
<1>2. CASE reply.status \in 200 .. 299
  BY <1>2 DEF Class, Passing
<1>3. CASE reply.status # 0 /\ reply.status \notin 200 .. 299
  BY <1>3 DEF Class, Passing, Retryable
<1> QED
  BY <1>1, <1>2, <1>3

(* One reply more.                                                         *)
LEMMA Heard ==
    ASSUME InputOK, Asked, Waited, NEW reply \in world.replies, Hear(reply)
    PROVE  Waited'
<1> DEFINE S == {RetryDelay(r, n) : r \in world.replies, n \in 1 .. Attempts}
           heard == ask.heard
           waits == ask.waits
           h == Append(heard, reply)
<1>1. /\ heard \in Seq(world.replies) /\ waits \in Seq(S) /\ Len(heard) = Len(waits)
      /\ Len(heard) < Attempts /\ Attempts \in Nat /\ Len(heard) \in Nat
      /\ \A n \in 1 .. Len(waits) :
           Class(heard[n]) = "transient" /\ waits[n] = RetryDelay(heard[n], n)
  <2>1. stage = "asking" /\ Attempts \in Nat
    BY AttemptsAssumption DEF Hear
  <2> QED
    BY <2>1 DEF Waited
<1>2. /\ h \in Seq(world.replies) /\ Len(h) = Len(heard) + 1 /\ h[Len(heard) + 1] = reply
      /\ \A n \in 1 .. Len(heard) : h[n] = heard[n]
  <2> HIDE DEF heard
  <2> QED
    BY <1>1
<1>3. DOMAIN ask = DOMAIN Unasked /\ world' = world
  BY DEF Asked, Hear, Keep, world
<1>4. CASE Class(reply) = "answer"
  <2>1. stage' = "answered" /\ ask'.heard = h /\ ask'.waits = waits
    BY <1>3, <1>4 DEF Hear, Unasked
  <2> HIDE DEF h, S
  <2>2. \A n \in 1 .. Len(waits) :
           Class(h[n]) = "transient" /\ waits[n] = RetryDelay(h[n], n)
    BY <1>1, <1>2
  <2> HIDE DEF heard, waits
  <2> QED
    BY <1>1, <1>2, <1>3, <2>1, <2>2 DEF Waited, S
<1>5. CASE Class(reply) = "transient" /\ Len(heard) + 1 < Attempts
  <2> DEFINE d == RetryDelay(reply, Len(heard) + 1)
             w == Append(waits, d)
  <2>1. stage' = "asking" /\ ask'.heard = h /\ ask'.waits = w
    <3>1. ~(Len(heard) + 1 >= Attempts)
      BY <1>1, <1>5
    <3>2. /\ UNCHANGED stage /\ stage = "asking"
          /\ ask' = [ask EXCEPT !.heard = Append(@, reply),
                                !.waits = Append(@, RetryDelay(reply, Len(heard) + 1))]
      BY <1>5, <3>1 DEF Hear
    <3> QED
      BY <1>3, <3>2 DEF Unasked
  <2>2. d \in S
    BY <1>1, <1>5
  <2>3. /\ w \in Seq(S) /\ Len(w) = Len(waits) + 1 /\ w[Len(waits) + 1] = d
        /\ \A n \in 1 .. Len(waits) : w[n] = waits[n]
    <3> HIDE DEF waits, S, d
    <3> QED
      BY <1>1, <2>2
  <2>4. \A n \in 1 .. Len(w) :
           Class(h[n]) = "transient" /\ w[n] = RetryDelay(h[n], n)
    <3> SUFFICES ASSUME NEW n \in 1 .. Len(w)
                 PROVE  Class(h[n]) = "transient" /\ w[n] = RetryDelay(h[n], n)
      OBVIOUS
    <3>1. CASE n = Len(heard) + 1
      BY <1>1, <1>2, <1>5, <2>3, <3>1
    <3>2. CASE n \in 1 .. Len(heard)
      BY <1>1, <1>2, <2>3, <3>2
    <3> HIDE DEF w, heard, waits, h
    <3> QED
      BY <1>1, <2>3, <3>1, <3>2
  <2>5. /\ Len(w) \in Nat /\ Len(h) \in Nat /\ Len(w) = Len(h) /\ Len(h) < Attempts
        /\ Len(h) <= Attempts /\ Len(w) <= Len(h) /\ Len(h) <= Len(w) + 1
    BY <1>1, <1>2, <1>5, <2>3
  <2> HIDE DEF h, heard, waits, w, d
  <2>6. w \in Seq({RetryDelay(r, n) : r \in world'.replies, n \in 1 .. Attempts})
    BY <1>3, <2>3
  <2> HIDE DEF S
  <2> QED
    BY <1>2, <1>3, <2>1, <2>4, <2>5, <2>6 DEF Waited
<1>6. CASE Class(reply) = "final" \/ (Class(reply) = "transient" /\ Len(heard) + 1 >= Attempts)
  <2>1. stage' = "done" /\ ask'.heard = h /\ ask'.waits = waits
    <3>1. ~(Class(reply) = "transient" /\ Len(heard) + 1 < Attempts) /\ Class(reply) # "answer"
      BY <1>1, <1>6
    <3>2. stage' = "done" /\ ask' = [ask EXCEPT !.heard = Append(@, reply)]
      BY <3>1 DEF Hear
    <3> QED
      BY <1>3, <3>2 DEF Unasked
  <2> HIDE DEF h, S
  <2>2. \A n \in 1 .. Len(waits) :
           Class(h[n]) = "transient" /\ waits[n] = RetryDelay(h[n], n)
    BY <1>1, <1>2
  <2>3. Len(h) = Attempts \/ Class(h[Len(h)]) = "final"
    BY <1>1, <1>2, <1>6
  <2> HIDE DEF heard, waits
  <2> QED
    BY <1>1, <1>2, <1>3, <2>1, <2>2, <2>3 DEF Waited, S
<1> QED
  BY <1>4, <1>5, <1>6 DEF Hear

(* Every failure that was waited after was one that may pass.              *)
LEMMA NextWaited ==
    InputOK /\ Asked /\ Waited /\ Understood /\ [ExchangeNext]_exchangeVars => Waited'
<1> SUFFICES ASSUME InputOK, Asked, Waited, Understood, [ExchangeNext]_exchangeVars PROVE Waited'
  OBVIOUS
<1>1. ASSUME ask'.heard = <<>>, ask'.waits = <<>>, stage' # "asking"
      PROVE  Waited'
  BY <1>1, AttemptsAssumption DEF Waited
<1>2. CASE Begin /\ UNCHANGED <<cache, ask, given, spoilt>>
  <2>1. stage \notin {"looked", "asking", "answered", "done"} /\ stage' # "asking"
    BY <1>2 DEF Begin, ParseArgs, LoadConfig, ResolveProvider, ValidateValues, ResolveSignals,
                Settle, Check
  <2> QED
    BY <1>1, <1>2, <2>1 DEF Asked, Unasked
<1>3. CASE Untriaged
  BY <1>1, <1>3 DEF Untriaged, Asked, Unasked
<1>4. CASE LookUp
  <2>1. ask = Unasked
    BY <1>4 DEF LookUp, Asked
  <2>2. ask'.heard = <<>> /\ ask'.waits = <<>>
    <3>1. ask.heard = <<>> /\ ask.waits = <<>> /\ DOMAIN ask = DOMAIN Unasked
      BY <2>1 DEF Unasked
    <3>2. UNCHANGED ask \/ \E s, c : ask' = [ask EXCEPT !.sources = s, !.cached = c]
      BY <1>4 DEF LookUp
    <3>3. ASSUME NEW s, NEW c, ask' = [ask EXCEPT !.sources = s, !.cached = c]
          PROVE  ask'.heard = <<>> /\ ask'.waits = <<>>
      BY <3>1, <3>3 DEF Unasked
    <3> QED
      BY <3>1, <3>2, <3>3
  <2>3. stage' # "asking"
    BY <1>4 DEF LookUp
  <2> QED
    BY <1>1, <2>2, <2>3
<1>5. CASE Plan
  <2>1. /\ ask'.heard = <<>> /\ ask'.waits = <<>> /\ stage' \in {"asking", "done"}
    BY <1>5 DEF Plan, Asked, Unasked
  <2> QED
    BY <2>1, AttemptsAssumption DEF Waited
<1>6. CASE Receive
  <2>1. /\ ask'.heard = ask.heard /\ ask'.waits = ask.waits /\ ask'.meant = ask.meant
        /\ stage' = "done" /\ ask.meant # None /\ world' = world
    BY <1>6 DEF Receive, Keep, Asked, Unasked, Understood, world
  <2> QED
    BY <2>1 DEF Waited
<1>7. CASE Spoil
  BY <1>7 DEF Spoil, Keep, Waited, world
<1>8. CASE Again
  BY <1>1, <1>8 DEF Again, Unasked
<1>9. ASSUME NEW reply \in world.replies, Hear(reply) PROVE Waited'
  BY <1>9, Heard
<1>10. CASE UNCHANGED exchangeVars
  BY <1>10 DEF exchangeVars, Waited, world
<1> QED
  BY <1>2, <1>3, <1>4, <1>5, <1>6, <1>7, <1>8, <1>9, <1>10 DEF ExchangeNext, Settling

(* What the replies and the waits between them show.                       *)
LEMMA WaitedShows == ASSUME InputOK, Waited PROVE TriesJustified
<1> DEFINE heard == Len(ask.heard)
<1>1. /\ ask.heard \in Seq(world.replies) /\ heard \in Nat /\ heard <= Attempts
      /\ Len(ask.waits) \in Nat /\ Len(ask.waits) <= heard /\ heard <= Len(ask.waits) + 1
  BY DEF Waited
<1>2. \A n \in 1 .. heard : ask.heard[n].status \in Nat
  <2>1. \A n \in 1 .. heard : ask.heard[n] \in world.replies
    BY <1>1
  <2>2. world.replies \subseteq [status : Nat, whole : BOOLEAN, after : Nat \cup {None}]
    BY PairAssumption DEF InputOK, world
  <2> QED
    BY <2>1, <2>2
<1>3. \A n \in 1 .. heard - 1 :
        /\ n \in 1 .. heard /\ Class(ask.heard[n]) = "transient"
        /\ ask.waits[n] = RetryDelay(ask.heard[n], n)
  BY <1>1 DEF Waited
<1>4. ASSUME NEW n \in 1 .. heard - 1
      PROVE  /\ Passing(ask.heard[n])
             /\ ask.waits[n] = (LET asked == ask.heard[n].after IN
                            IF asked = None \/ ask.heard[n].status \in 200 .. 299
                              THEN 2 ^ (IF n <= 17 THEN n - 1 ELSE 16)
                            ELSE IF asked > 20 THEN 20 ELSE asked)
  <2>1. Passing(ask.heard[n])
    BY <1>2, <1>3, ClassIsPassing
  <2>2. Backoff(n) = 2 ^ (IF n <= 17 THEN n - 1 ELSE 16)
    <3>1. (IF n - 1 < 16 THEN n - 1 ELSE 16) = (IF n <= 17 THEN n - 1 ELSE 16)
      BY <1>1
    <3> QED
      BY <3>1 DEF Backoff
  <2> QED
    BY <1>3, <2>1, <2>2 DEF RetryDelay, MaxRetryAfter
<1>5. stage = "done" /\ heard > 0 /\ ask.meant = None =>
         heard = Attempts \/ ~Passing(ask.heard[heard])
  BY <1>1, <1>2, ClassIsPassing DEF Waited
<1> QED
  BY <1>1, <1>4, <1>5 DEF TriesJustified

-----------------------------------------------------------------------------
(* Keys *)

(* Where the elements of a concatenation come from, and when sequences are *)
(* the same.                                                               *)
LEMMA ConcatAt ==
    ASSUME NEW a \in Texts, NEW b \in Texts
    PROVE  /\ a \o b \in Texts /\ Len(a \o b) = Len(a) + Len(b)
           /\ Len(a) \in Nat /\ Len(b) \in Nat
           /\ \A n \in 1 .. Len(a) : (a \o b)[n] = a[n]
           /\ \A n \in 1 .. Len(b) : (a \o b)[Len(a) + n] = b[n]
<1>1. \A n \in 1 .. Len(b) : Len(a) + n \in 1 .. Len(a) + Len(b) /\ ~(Len(a) + n <= Len(a))
                            /\ Len(a) + n - Len(a) = n
  BY DEF Texts
<1> QED
  BY <1>1, ConcatProperties DEF Texts

(* Texts of one length with the same bytes are one text.                   *)
LEMMA SameTexts ==
    ASSUME NEW a \in Texts, NEW b \in Texts, Len(a) = Len(b),
           \A n \in 1 .. Len(a) : a[n] = b[n]
    PROVE  a = b
  BY SeqEqual DEF Texts

(* Texts of one number, and of none.                                       *)
LEMMA ShortTexts ==
    /\ \A v \in Int : <<v>> \in Texts /\ Len(<<v>>) = 1 /\ <<v>>[1] = v
    /\ <<>> \in Texts
  BY DEF Texts

(* A field: its length, and what it is of.                                 *)
LEMMA FieldAt ==
    ASSUME NEW a \in Texts
    PROVE  /\ Field(a) \in Texts /\ Len(Field(a)) = Len(a) + 1 /\ Field(a)[1] = Len(a)
           /\ Len(a) \in Nat
           /\ \A n \in 1 .. Len(a) : Field(a)[n + 1] = a[n]
<1> DEFINE l == <<Len(a)>>
<1>1. Len(a) \in Nat
  BY DEF Texts
<1>2. l \in Texts /\ Len(l) = 1 /\ l[1] = Len(a)
  BY <1>1, ShortTexts
<1>3. Field(a) = l \o a
  BY DEF Field
<1> HIDE DEF l
<1>4. 1 \in 1 .. Len(l) /\ (\A n \in 1 .. Len(a) : Len(l) + n = n + 1) /\ Len(l) + Len(a) = Len(a) + 1
  BY <1>1, <1>2
<1>5. /\ l \o a \in Texts /\ Len(l \o a) = Len(l) + Len(a)
      /\ \A n \in 1 .. Len(a) : (l \o a)[Len(l) + n] = a[n]
      /\ \A n \in 1 .. Len(l) : (l \o a)[n] = l[n]
  BY <1>2, ConcatAt
<1> QED
  BY <1>1, <1>2, <1>3, <1>4, <1>5

(* A field, and what follows it.                                           *)
Then(text, rest) == Field(text) \o rest

(* The length of a field, its bytes, and the bytes after it, by position.  *)
LEMMA FieldThen ==
    ASSUME NEW a \in Texts, NEW b \in Texts
    PROVE  LET x == Then(a, b) IN
           /\ x \in Texts /\ Len(x) = Len(a) + 1 + Len(b) /\ x[1] = Len(a)
           /\ \A n \in 1 .. Len(a) : x[n + 1] = a[n]
           /\ \A n \in 1 .. Len(b) : x[Len(a) + 1 + n] = b[n]
<1> DEFINE f == Field(a)
<1>1. /\ f \in Texts /\ Len(f) = Len(a) + 1 /\ f[1] = Len(a) /\ Len(a) \in Nat
      /\ \A n \in 1 .. Len(a) : f[n + 1] = a[n]
  BY FieldAt
<1> HIDE DEF f
<1>2. /\ f \o b \in Texts /\ Len(f \o b) = Len(f) + Len(b)
      /\ \A n \in 1 .. Len(b) : (f \o b)[Len(f) + n] = b[n]
      /\ \A n \in 1 .. Len(f) : (f \o b)[n] = f[n]
  BY <1>1, ConcatAt
<1>3. 1 \in 1 .. Len(f) /\ \A n \in 1 .. Len(a) : n + 1 \in 1 .. Len(f)
  BY <1>1
<1>4. (f \o b)[1] = Len(a) /\ \A n \in 1 .. Len(a) : (f \o b)[n + 1] = a[n]
  BY <1>1, <1>2, <1>3
<1> QED
  BY <1>1, <1>2, <1>4 DEF f, Then

(* A field of a key tells where it ends.                                   *)
LEMMA FieldIsOwn ==
    ASSUME NEW t \in Texts, NEW u \in Texts, NEW r \in Texts, NEW s \in Texts
    PROVE  Then(t, r) = Then(u, s) => t = u /\ r = s
<1>0. HAVE Then(t, r) = Then(u, s)
<1> DEFINE x == Then(t, r)
           y == Then(u, s)
<1>1. Len(t) \in Nat /\ Len(u) \in Nat /\ Len(r) \in Nat /\ Len(s) \in Nat
  BY DEF Texts
<1>2. /\ Len(x) = Len(t) + 1 + Len(r) /\ x[1] = Len(t)
      /\ \A n \in 1 .. Len(t) : x[n + 1] = t[n]
      /\ \A n \in 1 .. Len(r) : x[Len(t) + 1 + n] = r[n]
  BY FieldThen
<1>3. /\ Len(y) = Len(u) + 1 + Len(s) /\ y[1] = Len(u)
      /\ \A n \in 1 .. Len(u) : y[n + 1] = u[n]
      /\ \A n \in 1 .. Len(s) : y[Len(u) + 1 + n] = s[n]
  BY FieldThen
<1>4. x = y
  BY <1>0
<1> HIDE DEF x, y
<1>5. Len(t) = Len(u) /\ Len(r) = Len(s)
  BY <1>1, <1>2, <1>3, <1>4
<1>6. t = u
  <2>1. \A n \in 1 .. Len(t) : t[n] = u[n]
    BY <1>2, <1>3, <1>4, <1>5
  <2> QED
    BY <1>5, <2>1, SameTexts
<1>7. r = s
  <2>1. \A n \in 1 .. Len(r) : r[n] = s[n]
    BY <1>2, <1>3, <1>4, <1>5
  <2> QED
    BY <1>5, <2>1, SameTexts
<1> QED
  BY <1>6, <1>7

(* What ends a key: the namespace, if the provider has one, and the        *)
(* version of the questions.                                               *)
Space(provider) ==
    IF Providers[provider].namespace = None THEN <<>> ELSE Field(Providers[provider].namespace)

(* One provider has no namespace, the other one of a byte.                 *)
LEMMA SpaceIsOwn ==
    ASSUME NEW i \in DOMAIN Providers
    PROVE  /\ i \in {"typesafe", "openai"}
           /\ Space(i) \in Texts
           /\ Len(Space(i)) = IF i = "typesafe" THEN 0 ELSE 2
<1>1. i \in {"typesafe", "openai"}
  BY DEF Providers
<1>2. Providers["typesafe"].namespace = None /\ Providers["openai"].namespace = <<79>>
  BY DEF Providers, TypeSafe, OpenAi
<1>3. <<79>> \in Texts /\ Len(<<79>>) = 1
  BY ShortTexts
<1>4. Field(<<79>>) \in Texts /\ Len(Field(<<79>>)) = 2
  <2>1. \A own \in Texts : Field(own) \in Texts /\ Len(Field(own)) = Len(own) + 1
    BY FieldAt
  <2>2. Field(<<79>>) \in Texts /\ Len(Field(<<79>>)) = Len(<<79>>) + 1
    BY <1>3, <2>1
  <2> QED
    BY <1>3, <2>2
<1>5. <<79>> # None
  BY <1>3, NothingAssumption
<1>6. <<>> \in Texts /\ Len(<<>>) = 0
  BY ShortTexts
<1>7. CASE i = "typesafe"
  BY <1>2, <1>6, <1>7 DEF Space
<1>8. CASE i = "openai"
  <2>1. Space(i) = Field(<<79>>)
    BY <1>2, <1>5, <1>8 DEF Space
  <2> QED
    BY <1>4, <1>8, <2>1
<1> QED
  BY <1>1, <1>7, <1>8

(* However texts are put together, what counts is their order.            *)
Cat(first, second) == first \o second

(* Putting texts together is associative.                                  *)
LEMMA CatLeft ==
    \A p, q, w \in Texts : Cat(p, q) \in Texts /\ Cat(Cat(p, q), w) = Cat(p, Cat(q, w))
<1>1. SUFFICES ASSUME NEW p \in Seq(Int), NEW q \in Seq(Int), NEW w \in Seq(Int)
               PROVE  p \o q \in Seq(Int) /\ (p \o q) \o w = p \o (q \o w)
  BY DEF Texts, Cat
<1>2. p \o q \in Seq(Int)
  OBVIOUS
<1>3. (p \o q) \o w = p \o (q \o w)
  OBVIOUS
<1> QED
  BY <1>2, <1>3

(* A key is of one question about one pair.                                *)
THEOREM KeyIsOwn ==
    ASSUME NEW a \in (DOMAIN Providers) \X Sources \X Texts \X Int,
           NEW b \in (DOMAIN Providers) \X Sources \X Texts \X Int,
           KeyFor(a) = KeyFor(b)
    PROVE  a = b
<1>1. ASSUME NEW c \in (DOMAIN Providers) \X Sources \X Texts \X Int
      PROVE  LET one == c[2][1]
                 two == c[2][2]
                 end == Space(c[1]) \o <<c[4]>>
             IN /\ c[1] \in {"typesafe", "openai"} /\ c[4] \in Int
                /\ c[2] \in Sources
                /\ one \in Texts /\ two \in Texts /\ c[3] \in Texts
                /\ end \in Texts /\ Len(end) = IF c[1] = "typesafe" THEN 1 ELSE 3
                /\ end[Len(end)] = c[4]
                /\ Then(c[3], end) \in Texts
                /\ Then(two, Then(c[3], end)) \in Texts
                /\ KeyFor(c) = Then(one, Then(two, Then(c[3], end)))
  <2>1. c[1] \in DOMAIN Providers /\ c[2] \in Sources /\ c[3] \in Texts /\ c[4] \in Int
    OBVIOUS
  <2>2. c[2][1] \in Texts /\ c[2][2] \in Texts
    BY <2>1 DEF Sources
  <2> DEFINE x == Field(c[2][1])
             y == Field(c[2][2])
             z == Field(c[3])
             e == Space(c[1])
             v == <<c[4]>>
  <2>3. x \in Texts /\ y \in Texts /\ z \in Texts
    BY <2>1, <2>2, FieldAt
  <2>4. v \in Texts /\ Len(v) = 1 /\ v[1] = c[4]
    BY <2>1, ShortTexts
  <2>5. e \in Texts /\ c[1] \in {"typesafe", "openai"} /\ Len(e) = IF c[1] = "typesafe" THEN 0 ELSE 2
    BY <2>1, SpaceIsOwn
  <2>6. KeyFor(c) = Cat(Cat(Cat(Cat(x, y), z), e), v)
    BY DEF KeyFor, CacheKey, Space, Cat
  <2> HIDE DEF x, y, z, e, v
  <2>7. e \o v \in Texts /\ Len(e \o v) = Len(e) + 1 /\ (e \o v)[Len(e) + 1] = c[4]
    <3>1. 1 \in 1 .. Len(v)
      BY <2>4
    <3>2. /\ e \o v \in Texts /\ Len(e \o v) = Len(e) + Len(v)
          /\ \A n \in 1 .. Len(v) : (e \o v)[Len(e) + n] = v[n]
      BY <2>4, <2>5, ConcatAt
    <3> QED
      BY <2>4, <3>1, <3>2
  <2>8. Cat(Cat(Cat(Cat(x, y), z), e), v) = Cat(x, Cat(y, Cat(z, Cat(e, v))))
    <3>1. Cat(x, y) \in Texts /\ Cat(Cat(x, y), z) \in Texts /\ Cat(e, v) \in Texts
          /\ Cat(z, Cat(e, v)) \in Texts
      BY <2>3, <2>4, <2>5, CatLeft
    <3>2. Cat(Cat(Cat(Cat(x, y), z), e), v) = Cat(Cat(Cat(x, y), z), Cat(e, v))
      BY <2>4, <2>5, <3>1, CatLeft
    <3>3. Cat(Cat(Cat(x, y), z), Cat(e, v)) = Cat(Cat(x, y), Cat(z, Cat(e, v)))
      BY <2>3, <3>1, CatLeft
    <3>4. Cat(Cat(x, y), Cat(z, Cat(e, v))) = Cat(x, Cat(y, Cat(z, Cat(e, v))))
      BY <2>3, <3>1, CatLeft
    <3> QED
      BY <3>2, <3>3, <3>4
  <2>9. Cat(z, Cat(e, v)) \in Texts /\ Cat(y, Cat(z, Cat(e, v))) \in Texts
    BY <2>3, <2>4, <2>5, CatLeft
  <2>10. Len(e \o v) = IF c[1] = "typesafe" THEN 1 ELSE 3
    BY <2>5, <2>7
  <2>11. (e \o v)[Len(e \o v)] = c[4]
    BY <2>7
  <2>12. e \o v = Cat(e, v) /\ Then(c[3], Cat(e, v)) = Cat(z, Cat(e, v))
         /\ Then(c[2][2], Cat(z, Cat(e, v))) = Cat(y, Cat(z, Cat(e, v)))
         /\ Then(c[2][1], Cat(y, Cat(z, Cat(e, v)))) = Cat(x, Cat(y, Cat(z, Cat(e, v))))
    BY DEF Then, Cat, x, y, z
  <2>13. e \o v = Space(c[1]) \o <<c[4]>>
    BY DEF e, v
  <2> QED
    BY <2>1, <2>2, <2>5, <2>6, <2>7, <2>8, <2>9, <2>10, <2>11, <2>12, <2>13
<1> DEFINE A4 == Space(a[1]) \o <<a[4]>>
           B4 == Space(b[1]) \o <<b[4]>>
           A3 == Then(a[3], A4)
           B3 == Then(b[3], B4)
           A2 == Then(a[2][2], A3)
           B2 == Then(b[2][2], B3)
<1>2. /\ A4 \in Texts /\ A3 \in Texts /\ A2 \in Texts /\ a[3] \in Texts
      /\ a[2][1] \in Texts /\ a[2][2] \in Texts /\ a[2] \in Sources
      /\ KeyFor(a) = Then(a[2][1], A2)
      /\ Len(A4) = (IF a[1] = "typesafe" THEN 1 ELSE 3) /\ A4[Len(A4)] = a[4]
      /\ a[1] \in {"typesafe", "openai"}
  BY <1>1
<1>3. /\ B4 \in Texts /\ B3 \in Texts /\ B2 \in Texts /\ b[3] \in Texts
      /\ b[2][1] \in Texts /\ b[2][2] \in Texts /\ b[2] \in Sources
      /\ KeyFor(b) = Then(b[2][1], B2)
      /\ Len(B4) = (IF b[1] = "typesafe" THEN 1 ELSE 3) /\ B4[Len(B4)] = b[4]
      /\ b[1] \in {"typesafe", "openai"}
  BY <1>1
<1> DEFINE a1 == a[2][1]
           a2 == a[2][2]
           a3 == a[3]
           b1 == b[2][1]
           b2 == b[2][2]
           b3 == b[3]
<1>4. /\ a1 \in Texts /\ b1 \in Texts /\ Then(a1, A2) = Then(b1, B2)
      /\ a2 \in Texts /\ b2 \in Texts /\ A2 = Then(a2, A3) /\ B2 = Then(b2, B3)
      /\ a3 \in Texts /\ b3 \in Texts /\ A3 = Then(a3, A4) /\ B3 = Then(b3, B4)
      /\ A4 \in Texts /\ A3 \in Texts /\ A2 \in Texts
      /\ B4 \in Texts /\ B3 \in Texts /\ B2 \in Texts
  BY <1>2, <1>3
<1> HIDE DEF A2, B2, A3, B3, A4, B4, a1, a2, a3, b1, b2, b3
<1>5. a1 = b1 /\ A2 = B2
  <2>1. Then(a1, A2) = Then(b1, B2) => a1 = b1 /\ A2 = B2
    BY <1>4, FieldIsOwn
  <2> QED
    BY <1>4, <2>1
<1>6. a2 = b2 /\ A3 = B3
  <2>1. Then(a2, A3) = Then(b2, B3) => a2 = b2 /\ A3 = B3
    BY <1>4, FieldIsOwn
  <2> QED
    BY <1>4, <1>5, <2>1
<1>10. a3 = b3 /\ A4 = B4
  <2>1. Then(a3, A4) = Then(b3, B4) => a3 = b3 /\ A4 = B4
    BY <1>4, FieldIsOwn
  <2> QED
    BY <1>4, <1>6, <2>1
<1>7. a[1] = b[1] /\ a[4] = b[4]
  <2>1. Len(A4) = Len(B4) /\ A4[Len(A4)] = B4[Len(B4)]
    BY <1>10
  <2>2. /\ Len(A4) = (IF a[1] = "typesafe" THEN 1 ELSE 3) /\ A4[Len(A4)] = a[4]
        /\ Len(B4) = (IF b[1] = "typesafe" THEN 1 ELSE 3) /\ B4[Len(B4)] = b[4]
    BY <1>2, <1>3 DEF A4, B4
  <2> QED
    BY <1>2, <1>3, <2>1, <2>2
<1>8. a[2] = b[2]
  <2> DEFINE x == a[2]
             y == b[2]
  <2>1. x \in Sources /\ y \in Sources /\ x[1] = y[1] /\ x[2] = y[2]
    BY <1>2, <1>3, <1>5, <1>6 DEF a1, a2, b1, b2
  <2> HIDE DEF x, y
  <2>2. \A n \in 1 .. 2 : n = 1 \/ n = 2
    OBVIOUS
  <2>3. \A n \in 1 .. 2 : x[n] = y[n]
    BY <2>1, <2>2
  <2>4. x = y
    BY <2>1, <2>3 DEF Sources
  <2> QED
    BY <2>4 DEF x, y
<1>9. a = <<a[1], a[2], a[3], a[4]>> /\ b = <<b[1], b[2], b[3], b[4]>>
  OBVIOUS
<1>11. a[3] = b[3]
  BY <1>10 DEF a3, b3
<1> QED
  BY <1>7, <1>8, <1>9, <1>11

-----------------------------------------------------------------------------
(* Answers *)

(* Where a label stands among the labels, and a kind among the kinds.      *)
Place(label) == CHOOSE n \in DOMAIN Labels : Labels[n] = label

(* Labels and kinds are four each, no two alike, and none is "unknown".    *)
LEMMA LabelsTell ==
    /\ DOMAIN Labels = 1 .. 4 /\ DOMAIN Kinds = 1 .. 4 /\ Len(Labels) = 4
    /\ \A n, o \in 1 .. 4 : Labels[n] = Labels[o] => n = o
    /\ \A n, o \in 1 .. 4 : Kinds[n] = Kinds[o] => n = o
    /\ Range(Labels) = {Labels[n] : n \in 1 .. 4} /\ Range(Kinds) = {Kinds[n] : n \in 1 .. 4}
    /\ \A n \in 1 .. 4 : Kinds[n] # "unknown"
    /\ \A value : Contains(Kinds, value) <=> value \in Range(Kinds)
<1>1. \A n \in 1 .. 4 : n = 1 \/ n = 2 \/ n = 3 \/ n = 4
  OBVIOUS
<1>2. DOMAIN Labels = 1 .. 4 /\ DOMAIN Kinds = 1 .. 4 /\ Len(Labels) = 4 /\ Len(Kinds) = 4
  BY DEF Labels, Kinds
<1>3. \A n, o \in 1 .. 4 : Labels[n] = Labels[o] => n = o
  BY <1>1 DEF Labels
<1>4. \A n, o \in 1 .. 4 : Kinds[n] = Kinds[o] => n = o
  BY <1>1 DEF Kinds
<1>5. \A n \in 1 .. 4 : Kinds[n] # "unknown"
  <2>1. /\ Kinds[1] = "same_logic" /\ Kinds[2] = "shared_shape_only"
        /\ Kinds[3] = "structural_obligation" /\ Kinds[4] = "parameterisable"
    BY DEF Kinds
  <2>2. \A n \in 1 .. 4 :
           Kinds[n] \in {"same_logic", "shared_shape_only", "structural_obligation", "parameterisable"}
    BY <1>1, <2>1
  <2>3. \A x \in {"same_logic", "shared_shape_only", "structural_obligation", "parameterisable"} :
           x # "unknown"
    OBVIOUS
  <2> QED
    BY <2>2, <2>3
<1>6. Range(Labels) = {Labels[n] : n \in 1 .. 4} /\ Range(Kinds) = {Kinds[n] : n \in 1 .. 4}
  BY <1>2 DEF Range
<1>7. \A value : Contains(Kinds, value) <=> value \in Range(Kinds)
  BY <1>2, <1>6 DEF Contains
<1> QED
  BY <1>2, <1>3, <1>4, <1>5, <1>6, <1>7

(* A label stands in one place.                                            *)
LEMMA PlaceOf ==
    ASSUME NEW label \in Range(Labels)
    PROVE  /\ Place(label) \in 1 .. 4 /\ Labels[Place(label)] = label
           /\ \A n \in 1 .. 4 : Labels[n] = label => n = Place(label)
<1>1. \E n \in DOMAIN Labels : Labels[n] = label
  BY LabelsTell
<1>2. Place(label) \in DOMAIN Labels /\ Labels[Place(label)] = label
  BY <1>1 DEF Place
<1> QED
  BY <1>2, LabelsTell

(* What an answer says that is all there: by the place of the level.       *)
Lowest(m) == IF id = "openai" /\ m.echoed THEN m.first ELSE 0
Right(m) ==
    [q \in Questions |->
       [id |-> q, confidence |-> m.confidence,
        type |-> CASE q = "kind" -> "choice" [] q = "worth" -> "score"
                   [] OTHER -> IF id = "openai" THEN "predicate" ELSE "noul",
        first |-> IF m.echoed THEN Lowest(m) ELSE None,
        value |-> CASE q = "kind" -> m.kind
                    [] q = "worth" -> One * (Place(m.level) - 1) + m.off + Lowest(m)
                    [] OTHER -> m.divergence]]
Wrong(m) ==
    CASE m.fault = "refused" -> [Right(m) EXCEPT ![m.at].type = "refusal"]
      [] m.fault = "unoffered" -> [Right(m) EXCEPT !["kind"].value = "unknown"]
      [] OTHER -> Right(m)

(* The options and the levels of a request, for the kind and the level.    *)
LEMMA RequestTells ==
    ASSUME NEW s, NEW mo, NEW kind \in Range(Kinds), NEW level \in Range(Labels)
    PROVE  LET questions == Encode(id, s, mo).questions
               k == CHOOSE n \in DOMAIN questions.options : questions.options[n].rubric = kind
           IN /\ questions.options[k].key = kind
              /\ (CHOOSE n \in DOMAIN questions.levels : questions.levels[n].rubric = level)
                   = Place(level)
<1> DEFINE questions == Encode(id, s, mo).questions
           k == CHOOSE n \in DOMAIN questions.options : questions.options[n].rubric = kind
           l == CHOOSE n \in DOMAIN questions.levels : questions.levels[n].rubric = level
<1>1. /\ questions.options = Options
      /\ DOMAIN questions.levels = 1 .. 4
      /\ \A n \in 1 .. 4 : questions.levels[n].rubric = Labels[n]
  BY LabelsTell DEF Encode, OpenAiQuestions, TypeSafeQuestions, Levels
<1>2. /\ DOMAIN Options = 1 .. 4
      /\ \A n \in 1 .. 4 : Options[n].rubric = Kinds[n] /\ Options[n].key = Kinds[n]
  BY LabelsTell DEF Options
<1> HIDE DEF questions
<1>3. questions.options[k].key = kind
  <2>1. \E n \in DOMAIN questions.options : questions.options[n].rubric = kind
    BY <1>1, <1>2, LabelsTell
  <2>2. k \in DOMAIN questions.options /\ questions.options[k].rubric = kind
    BY <2>1
  <2> HIDE DEF k
  <2> QED
    BY <1>1, <1>2, <2>2
<1>4. l = Place(level)
  <2>1. \E n \in DOMAIN questions.levels : questions.levels[n].rubric = level
    BY <1>1, LabelsTell
  <2>2. l \in DOMAIN questions.levels /\ questions.levels[l].rubric = level
    BY <2>1
  <2> HIDE DEF l
  <2> QED
    BY <1>1, <2>2, PlaceOf
<1> QED
  BY <1>3, <1>4 DEF questions

(* What is put after three answers: nothing, or one more.                  *)
LEMMA FourOf ==
    \A a, b, c, d : <<a, b, c>> \o <<>> = <<a, b, c>> /\ <<a, b, c>> \o <<d>> = <<a, b, c, d>>
<1> SUFFICES ASSUME NEW a, NEW b, NEW c, NEW d
             PROVE  <<a, b, c>> \o <<>> = <<a, b, c>> /\ <<a, b, c>> \o <<d>> = <<a, b, c, d>>
  OBVIOUS
<1> DEFINE s == <<a, b, c>> \o <<d>>
           t == <<a, b, c, d>>
           S == {a, b, c, d}
<1>1. <<a, b, c>> \o <<>> = <<a, b, c>>
  OBVIOUS
<1>2. s \in Seq(S) /\ Len(s) = 4 /\ s[1] = a /\ s[2] = b /\ s[3] = c /\ s[4] = d
  OBVIOUS
<1>3. t \in Seq(S) /\ Len(t) = 4 /\ t[1] = a /\ t[2] = b /\ t[3] = c /\ t[4] = d
  OBVIOUS
<1> HIDE DEF s, t, S
<1>4. \A n \in 1 .. 4 : n = 1 \/ n = 2 \/ n = 3 \/ n = 4
  OBVIOUS
<1>5. \A n \in 1 .. Len(s) : s[n] = t[n]
  BY <1>2, <1>3, <1>4
<1>6. s = t
  BY <1>2, <1>3, <1>5, SeqEqual
<1> QED
  BY <1>1, <1>6 DEF s, t

(* What is answered, answer by answer.                                     *)
LEMMA AnsweredAs ==
    ASSUME NEW s, NEW mo, NEW m \in Meanings
    PROVE  LET w == Wrong(m)
               body == Answered(id, Encode(id, s, mo), m)
           IN /\ m.fault \notin {"missing", "twice"} =>
                   body = <<w["kind"], w["worth"], w["divergence"]>>
              /\ m.fault = "missing" /\ m.at = "kind" => body = <<w["worth"], w["divergence"]>>
              /\ m.fault = "missing" /\ m.at = "worth" => body = <<w["kind"], w["divergence"]>>
              /\ m.fault = "missing" /\ m.at = "divergence" => body = <<w["kind"], w["worth"]>>
              /\ m.fault = "twice" =>
                   body = <<w["kind"], w["worth"], w["divergence"], w[m.at]>>
<1> DEFINE request == Encode(id, s, mo)
           k == CHOOSE n \in DOMAIN request.questions.options :
                    request.questions.options[n].rubric = m.kind
           l == CHOOSE n \in DOMAIN request.questions.levels :
                    request.questions.levels[n].rubric = m.level
           right ==
             [q \in Questions |->
                [id |-> q, confidence |-> m.confidence,
                 type |-> CASE q = "kind" -> "choice" [] q = "worth" -> "score"
                            [] OTHER -> IF id = "openai" THEN "predicate" ELSE "noul",
                 first |-> IF m.echoed THEN Lowest(m) ELSE None,
                 value |-> CASE q = "kind" -> request.questions.options[k].key
                             [] q = "worth" -> One * (l - 1) + m.off + Lowest(m)
                             [] OTHER -> m.divergence]]
           order == IF m.fault # "missing" THEN <<"kind", "worth", "divergence">>
                    ELSE CASE m.at = "kind" -> <<"worth", "divergence">>
                           [] m.at = "worth" -> <<"kind", "divergence">>
                           [] OTHER -> <<"kind", "worth">>
           more == IF m.fault = "twice" THEN <<right[m.at]>> ELSE <<>>
           wrong == CASE m.fault = "refused" -> [right EXCEPT ![m.at].type = "refusal"]
                      [] m.fault = "unoffered" -> [right EXCEPT !["kind"].value = "unknown"]
                      [] OTHER -> right
<1>1. m.kind \in Range(Kinds) /\ m.level \in Range(Labels)
  BY DEF Meanings
<1>2. request.questions.options[k].key = m.kind /\ l = Place(m.level)
  BY <1>1, RequestTells
<1>3. right = Right(m)
  <2> HIDE DEF request, k, l
  <2> QED
    BY <1>2 DEF Right
<1>4. Answered(id, request, m) = [n \in DOMAIN order |-> wrong[order[n]]] \o more
  BY DEF Answered, Lowest
<1> HIDE DEF right, request
<1>5. wrong = Wrong(m)
  BY <1>3 DEF Wrong
<1>6. m.fault = "twice" => right[m.at] = Wrong(m)[m.at]
  BY <1>3 DEF Wrong
<1> HIDE DEF wrong
<1> DEFINE w == Wrong(m)
           body == Answered(id, request, m)
<1>7. \A a, b : [n \in DOMAIN <<a, b>> |-> w[<<a, b>>[n]]] \o <<>> = <<w[a], w[b]>>
  <2> HIDE DEF w
  <2> QED
    OBVIOUS
<1>8. \A a, b, c : [n \in DOMAIN <<a, b, c>> |-> w[<<a, b, c>>[n]]] = <<w[a], w[b], w[c]>>
  <2> HIDE DEF w
  <2> QED
    OBVIOUS
<1>9. \A a, b, c, d : <<a, b, c>> \o <<>> = <<a, b, c>> /\ <<a, b, c>> \o <<d>> = <<a, b, c, d>>
  BY FourOf
<1>10. body = [n \in DOMAIN order |-> w[order[n]]] \o more
  BY <1>4, <1>5
<1> HIDE DEF w, body
<1>11. ASSUME m.fault \notin {"missing", "twice"}
       PROVE  body = <<w["kind"], w["worth"], w["divergence"]>>
  <2>1. order = <<"kind", "worth", "divergence">> /\ more = <<>>
    BY <1>11
  <2> HIDE DEF order, more
  <2> QED
    BY <1>8, <1>9, <1>10, <2>1
<1>12. ASSUME m.fault = "missing", m.at = "kind" PROVE body = <<w["worth"], w["divergence"]>>
  <2>1. order = <<"worth", "divergence">> /\ more = <<>>
    BY <1>12
  <2> HIDE DEF order, more
  <2> QED
    BY <1>7, <1>10, <2>1
<1>13. ASSUME m.fault = "missing", m.at = "worth" PROVE body = <<w["kind"], w["divergence"]>>
  <2>1. order = <<"kind", "divergence">> /\ more = <<>>
    BY <1>13
  <2> HIDE DEF order, more
  <2> QED
    BY <1>7, <1>10, <2>1
<1>14. ASSUME m.fault = "missing", m.at = "divergence" PROVE body = <<w["kind"], w["worth"]>>
  <2>1. order = <<"kind", "worth">> /\ more = <<>>
    BY <1>14
  <2> HIDE DEF order, more
  <2> QED
    BY <1>7, <1>10, <2>1
<1>15. ASSUME m.fault = "twice"
       PROVE  body = <<w["kind"], w["worth"], w["divergence"], w[m.at]>>
  <2>1. order = <<"kind", "worth", "divergence">> /\ more = <<w[m.at]>>
    BY <1>6, <1>15 DEF w
  <2> HIDE DEF order, more
  <2> QED
    BY <1>8, <1>9, <1>10, <2>1
<1> QED
  BY <1>11, <1>12, <1>13, <1>14, <1>15 DEF body, w, request

(* What is right, and what has gone wrong, with an answer.                 *)
LEMMA RightType ==
    ASSUME NEW m \in Meanings, NEW q \in Questions
    PROVE  /\ Right(m)[q].id = q /\ Wrong(m)[q].id = q
           /\ Right(m)[q] # None /\ Wrong(m)[q] # None
           /\ Wrong(m)[q].type = (IF m.fault = "refused" /\ m.at = q THEN "refusal" ELSE Right(m)[q].type)
           /\ m.fault # "refused" /\ ~(m.fault = "unoffered" /\ q = "kind") => Wrong(m)[q] = Right(m)[q]
           /\ m.fault = "unoffered" => Wrong(m)["kind"].value = "unknown"
<1> DEFINE r == Right(m)
           w == Wrong(m)
           types == {"choice", "score", "predicate", "noul", "refusal"}
           values == Int \cup Range(Kinds) \cup {"unknown"}
           Answer == [id : Questions, type : types, value : values, confidence : Int,
                      first : Int \cup {None}]
<1>1. /\ m.kind \in Range(Kinds) /\ m.confidence \in Int /\ m.level \in Range(Labels)
      /\ m.off \in Int /\ m.first \in Int /\ m.divergence \in Int /\ m.at \in Questions
  BY DEF Meanings
<1>2. Place(m.level) \in Int /\ Lowest(m) \in Int /\ One \in Int
  BY <1>1, PlaceOf DEF Lowest, One
<1>3. r \in [Questions -> Answer]
  <2>1. \A p \in Questions : r[p] \in Answer
    <3> SUFFICES ASSUME NEW p \in Questions PROVE r[p] \in Answer
      OBVIOUS
    <3>1. /\ (IF m.echoed THEN Lowest(m) ELSE None) \in Int \cup {None}
          /\ (CASE p = "kind" -> "choice" [] p = "worth" -> "score"
                [] OTHER -> IF id = "openai" THEN "predicate" ELSE "noul") \in types
          /\ (CASE p = "kind" -> m.kind
                [] p = "worth" -> One * (Place(m.level) - 1) + m.off + Lowest(m)
                [] OTHER -> m.divergence) \in values
      BY <1>1, <1>2 DEF Questions
    <3> HIDE DEF types, values
    <3> QED
      BY <1>1, <3>1 DEF Right
  <2> HIDE DEF Answer
  <2> QED
    BY <2>1 DEF Right
<1>4. r[q].id = q
  BY DEF Right
<1> HIDE DEF r
<1>5. CASE m.fault = "refused"
  <2>1. w = [r EXCEPT ![m.at].type = "refusal"]
    BY <1>5 DEF Wrong, r
  <2>2. w[q] = IF q = m.at THEN [r[q] EXCEPT !.type = "refusal"] ELSE r[q]
    BY <1>1, <1>3, <2>1
  <2>3. w[q] \in Answer /\ w[q].id = q /\ w[q].type = IF q = m.at THEN "refusal" ELSE r[q].type
    BY <1>1, <1>3, <1>4, <2>2
  <2>4. r[q] \in Answer /\ None \notin Answer
    BY <1>3, NothingAssumption
  <2> HIDE DEF Answer, w
  <2> QED
    BY <1>4, <1>5, <2>3, <2>4 DEF r, w
<1>6. CASE m.fault = "unoffered"
  <2>1. w = [r EXCEPT !["kind"].value = "unknown"]
    BY <1>6 DEF Wrong, r
  <2>2. w[q] = IF q = "kind" THEN [r[q] EXCEPT !.value = "unknown"] ELSE r[q]
    BY <1>3, <2>1
  <2>3. w[q] \in Answer /\ w[q].id = q /\ w[q].type = r[q].type
    BY <1>3, <1>4, <2>2
  <2>4. r[q] \in Answer /\ None \notin Answer
    BY <1>3, NothingAssumption
  <2>5. w["kind"].value = "unknown"
    BY <1>3, <2>1 DEF Questions
  <2> HIDE DEF Answer, w
  <2> QED
    BY <1>4, <1>6, <2>2, <2>3, <2>4, <2>5 DEF r, w
<1>7. CASE m.fault \notin {"refused", "unoffered"}
  <2>1. w = r
    BY <1>7 DEF Wrong, r
  <2>2. r[q] \in Answer /\ None \notin Answer
    BY <1>3, NothingAssumption
  <2> HIDE DEF Answer, w
  <2> QED
    BY <1>4, <1>7, <2>1, <2>2 DEF r, w
<1> QED
  BY <1>5, <1>6, <1>7

(* How either API's answers are read.                                      *)
ReadAs(body, q) == IF id = "openai" THEN OpenAiAnswer(body, q) ELSE TypeSafeAnswer(body, q)
TypeOf(q) ==
    CASE q = "kind" -> "choice" [] q = "worth" -> "score"
      [] OTHER -> IF id = "openai" THEN "predicate" ELSE "noul"

(* An answer there once is read, if it is of its type.                     *)
LEMMA ReadOnce ==
    ASSUME NEW body, NEW q \in Questions, NEW n, Named(body, q) = {n}, n \in DOMAIN body, n \in Int
    PROVE  ReadAs(body, q) = IF body[n].type # TypeOf(q) THEN None ELSE body[n]
<1> DEFINE only == {k \in DOMAIN body : Named(body, q) = {k}}
<1>1. only = {n}
  <2>1. \A k : {n} = {k} => k = n
    OBVIOUS
  <2> QED
    BY <2>1
<1>2. (CHOOSE k \in only : TRUE) = n
  <2> HIDE DEF only
  <2> QED
    BY <1>1
<1>3. (CHOOSE k \in {n} : \A o \in {n} : o <= k) = n
  OBVIOUS
<1> HIDE DEF only
<1>4. CASE id = "openai"
  <2>1. TypeOf(q) = [kind |-> "choice", worth |-> "score", divergence |-> "predicate"][q]
    BY <1>4 DEF TypeOf, Questions
  <2> QED
    BY <1>1, <1>2, <1>4, <2>1 DEF ReadAs, OpenAiAnswer, only
<1>5. CASE id # "openai"
  <2>1. TypeOf(q) = [kind |-> "choice", worth |-> "score", divergence |-> "noul"][q]
    BY <1>5 DEF TypeOf, Questions
  <2> QED
    BY <1>3, <1>5, <2>1 DEF ReadAs, TypeSafeAnswer
<1> QED
  BY <1>4, <1>5

(* One not there is not.                                                   *)
LEMMA ReadNone ==
    ASSUME NEW body, NEW q \in Questions, Named(body, q) = {}
    PROVE  ReadAs(body, q) = None
<1>1. \A k : {} # {k}
  OBVIOUS
<1> QED
  BY <1>1 DEF ReadAs, OpenAiAnswer, TypeSafeAnswer

(* Of one there twice, TypeSafe reads the last, and OpenAI none.           *)
LEMMA ReadTwice ==
    ASSUME NEW body, NEW q \in Questions, NEW n \in Int, NEW o \in Int, n < o,
           Named(body, q) = {n, o}
    PROVE  ReadAs(body, q) = IF id = "openai" \/ body[o].type # TypeOf(q) THEN None ELSE body[o]
<1>1. \A k : {n, o} # {k}
  OBVIOUS
<1>2. (CHOOSE k \in {n, o} : \A l \in {n, o} : l <= k) = o
  <2> DEFINE P(k) == k \in {n, o} /\ \A l \in {n, o} : l <= k
  <2>1. \A k : P(k) <=> k = o
    OBVIOUS
  <2>2. (CHOOSE k \in {n, o} : \A l \in {n, o} : l <= k) \in {n, o}
        /\ \A l \in {n, o} : l <= (CHOOSE k \in {n, o} : \A l2 \in {n, o} : l2 <= k)
    BY <2>1
  <2> QED
    BY <2>1, <2>2
<1>3. CASE id = "openai"
  BY <1>1, <1>3 DEF ReadAs, OpenAiAnswer
<1>4. CASE id # "openai"
  <2>1. TypeOf(q) = [kind |-> "choice", worth |-> "score", divergence |-> "noul"][q]
    BY <1>4 DEF TypeOf, Questions
  <2> QED
    BY <1>2, <1>4, <2>1 DEF ReadAs, TypeSafeAnswer
<1> QED
  BY <1>3, <1>4

(* An answer that is there once, refused, missing or given twice.          *)
LEMMA Reading ==
    ASSUME NEW s, NEW mo, NEW m \in Meanings, NEW q \in Questions
    PROVE  ReadAs(Answered(id, Encode(id, s, mo), m), q) =
             IF m.at = q /\ (m.fault \in {"refused", "missing"} \/ (m.fault = "twice" /\ id = "openai"))
               THEN None ELSE Wrong(m)[q]
<1> DEFINE w == Wrong(m)
           body == Answered(id, Encode(id, s, mo), m)
           k == w["kind"]
           l == w["worth"]
           d == w["divergence"]
<1>1. m.at \in Questions /\ Questions = {"kind", "worth", "divergence"}
  BY DEF Meanings, Questions
<1>2. k.id = "kind" /\ l.id = "worth" /\ d.id = "divergence"
  BY RightType, <1>1
<1>3. w[q].type = IF m.fault = "refused" /\ m.at = q THEN "refusal" ELSE TypeOf(q)
  <2>1. Right(m)[q].type = TypeOf(q)
    BY DEF Right, TypeOf
  <2> QED
    BY <2>1, RightType
<1>4. TypeOf(q) # "refusal"
  BY <1>1 DEF TypeOf
<1>5. ASSUME NEW n \in Int, n \in DOMAIN body, Named(body, q) = {n}, body[n] = w[q], m.fault # "missing",
             ~(m.fault = "twice" /\ m.at = q)
      PROVE  ReadAs(body, q) = IF m.at = q /\ m.fault = "refused" THEN None ELSE w[q]
  <2> HIDE DEF body, w
  <2>1. ReadAs(body, q) = IF body[n].type # TypeOf(q) THEN None ELSE body[n]
    BY <1>5, ReadOnce
  <2> QED
    BY <1>3, <1>4, <1>5, <2>1
<1>6. CASE m.fault \notin {"missing", "twice"}
  <2>1. body = <<k, l, d>>
    BY <1>6, AnsweredAs
  <2> HIDE DEF body, k, l, d
  <2>2. DOMAIN body = 1 .. 3 /\ body[1] = k /\ body[2] = l /\ body[3] = d
    BY <2>1
  <2>3. Named(body, "kind") = {1} /\ Named(body, "worth") = {2} /\ Named(body, "divergence") = {3}
    BY <1>2, <2>2 DEF Named
  <2>4. \E n \in 1 .. 3 : Named(body, q) = {n} /\ body[n] = w[q]
    BY <1>1, <2>2, <2>3 DEF k, l, d
  <2> QED
    BY <1>5, <1>6, <2>2, <2>4 DEF body
<1>7. CASE m.fault = "missing"
  <2>1. CASE m.at = "kind"
    <3>1. body = <<l, d>>
      BY <1>7, <2>1, AnsweredAs
    <3>2. DOMAIN body = 1 .. 2 /\ body[1] = l /\ body[2] = d
      <4> HIDE DEF body, l, d
      <4> QED
        BY <3>1
    <3> HIDE DEF body, l, d
    <3>3. Named(body, "kind") = {} /\ Named(body, "worth") = {1} /\ Named(body, "divergence") = {2}
      BY <1>2, <3>2 DEF Named
    <3>4. CASE q = "kind"
      BY <1>7, <2>1, <3>3, <3>4, ReadNone DEF body
    <3>5. CASE q # "kind"
      <4>1. \E n \in 1 .. 2 : Named(body, q) = {n} /\ body[n] = w[q]
        BY <1>1, <3>2, <3>3, <3>5 DEF l, d
      <4> HIDE DEF w
      <4>2. ReadAs(body, q) = w[q]
        BY <1>3, <1>7, <3>2, <4>1, ReadOnce
      <4> QED
        BY <2>1, <3>5, <4>2 DEF body, w
    <3> QED
      BY <3>4, <3>5
  <2>2. CASE m.at = "worth"
    <3>1. body = <<k, d>>
      BY <1>7, <2>2, AnsweredAs
    <3>2. DOMAIN body = 1 .. 2 /\ body[1] = k /\ body[2] = d
      <4> HIDE DEF body, k, d
      <4> QED
        BY <3>1
    <3> HIDE DEF body, k, d
    <3>3. Named(body, "kind") = {1} /\ Named(body, "worth") = {} /\ Named(body, "divergence") = {2}
      BY <1>2, <3>2 DEF Named
    <3>4. CASE q = "worth"
      BY <1>7, <2>2, <3>3, <3>4, ReadNone DEF body
    <3>5. CASE q # "worth"
      <4>1. \E n \in 1 .. 2 : Named(body, q) = {n} /\ body[n] = w[q]
        BY <1>1, <3>2, <3>3, <3>5 DEF k, d
      <4> HIDE DEF w
      <4>2. ReadAs(body, q) = w[q]
        BY <1>3, <1>7, <3>2, <4>1, ReadOnce
      <4> QED
        BY <2>2, <3>5, <4>2 DEF body, w
    <3> QED
      BY <3>4, <3>5
  <2>3. CASE m.at = "divergence"
    <3>1. body = <<k, l>>
      BY <1>7, <2>3, AnsweredAs
    <3>2. DOMAIN body = 1 .. 2 /\ body[1] = k /\ body[2] = l
      <4> HIDE DEF body, k, l
      <4> QED
        BY <3>1
    <3> HIDE DEF body, k, l
    <3>3. Named(body, "kind") = {1} /\ Named(body, "worth") = {2} /\ Named(body, "divergence") = {}
      BY <1>2, <3>2 DEF Named
    <3>4. CASE q = "divergence"
      BY <1>7, <2>3, <3>3, <3>4, ReadNone DEF body
    <3>5. CASE q # "divergence"
      <4>1. \E n \in 1 .. 2 : Named(body, q) = {n} /\ body[n] = w[q]
        BY <1>1, <3>2, <3>3, <3>5 DEF k, l
      <4> HIDE DEF w
      <4>2. ReadAs(body, q) = w[q]
        BY <1>3, <1>7, <3>2, <4>1, ReadOnce
      <4> QED
        BY <2>3, <3>5, <4>2 DEF body, w
    <3> QED
      BY <3>4, <3>5
  <2> QED
    BY <1>1, <2>1, <2>2, <2>3
<1>8. CASE m.fault = "twice"
  <2> DEFINE again == w[m.at]
  <2>1. body = <<k, l, d, again>>
    BY <1>8, AnsweredAs
  <2>2. again.id = m.at
    BY <1>1, RightType
  <2> HIDE DEF body, k, l, d, again
  <2>3. DOMAIN body = 1 .. 4 /\ body[1] = k /\ body[2] = l /\ body[3] = d /\ body[4] = again
    BY <2>1
  <2>4. /\ Named(body, "kind") = IF m.at = "kind" THEN {1, 4} ELSE {1}
        /\ Named(body, "worth") = IF m.at = "worth" THEN {2, 4} ELSE {2}
        /\ Named(body, "divergence") = IF m.at = "divergence" THEN {3, 4} ELSE {3}
    BY <1>1, <1>2, <2>2, <2>3 DEF Named
  <2>5. CASE q = m.at
    <3>1. \E n \in 1 .. 3 : Named(body, q) = {n, 4}
      BY <1>1, <2>4, <2>5
    <3>2. body[4] = w[q]
      BY <2>3, <2>5 DEF again
    <3>3. w[q].type = TypeOf(q)
      BY <1>3, <1>8
    <3> HIDE DEF w
    <3>4. ReadAs(body, q) = IF id = "openai" THEN None ELSE w[q]
      BY <3>1, <3>2, <3>3, ReadTwice
    <3> QED
      BY <1>8, <2>5, <3>4 DEF w, body
  <2>6. CASE q # m.at
    <3>1. \E n \in 1 .. 3 : Named(body, q) = {n} /\ body[n] = w[q]
      BY <1>1, <2>3, <2>4, <2>6 DEF k, l, d
    <3> QED
      BY <1>5, <1>8, <2>3, <2>6, <3>1 DEF body
  <2> QED
    BY <2>5, <2>6
<1> QED
  BY <1>6, <1>7, <1>8

(* What all the answers say, or nothing where one is not as it should be.  *)
Whole(m) == m.fault = None \/ (m.fault = "twice" /\ id = "typesafe")
Worth(m) == One * (Place(m.level) - 1) + m.off

(* A whole answer is decoded to what it says, any other to an error.       *)
LEMMA DecodedAs ==
    ASSUME NEW s, NEW mo, NEW m \in Meanings, id \in {"typesafe", "openai"}
    PROVE  Decode(id, Answered(id, Encode(id, s, mo), m)) =
             IF Whole(m) THEN [kind |-> m.kind, kindConfidence |-> m.confidence, worth |-> Worth(m),
                               worthConfidence |-> m.confidence, divergence |-> m.divergence]
             ELSE None
<1> DEFINE body == Answered(id, Encode(id, s, mo), m)
           answer == [q \in Questions |-> IF id = "openai" THEN OpenAiAnswer(body, q)
                                          ELSE TypeSafeAnswer(body, q)]
<1>1. /\ m.at \in Questions /\ m.fault \in Faults \cup {None} /\ None \notin Faults
      /\ m.kind \in Range(Kinds) /\ m.level \in Range(Labels) /\ m.off \in Int /\ m.first \in Int
      /\ "kind" \in Questions /\ "worth" \in Questions /\ "divergence" \in Questions
  BY NothingAssumption DEF Meanings, Questions
<1>2. Decode(id, body) =
        IF (\E q \in Questions : answer[q] = None) \/ ~Offered(answer["kind"]) THEN None
        ELSE Answers(id, answer)
  BY DEF Decode
<1>3. \A q \in Questions : answer[q] =
        IF m.at = q /\ (m.fault \in {"refused", "missing"} \/ (m.fault = "twice" /\ id = "openai"))
          THEN None ELSE Wrong(m)[q]
  <2>1. \A q \in Questions : answer[q] = ReadAs(body, q)
    <3> HIDE DEF body
    <3> QED
      BY DEF ReadAs
  <2> HIDE DEF answer
  <2> QED
    BY <2>1, Reading
<1> HIDE DEF body, answer
<1>4. CASE m.fault \in {"refused", "missing"} \/ (m.fault = "twice" /\ id = "openai")
  <2>1. ~Whole(m)
    BY <1>1, <1>4 DEF Whole, Faults
  <2> QED
    BY <1>1, <1>2, <1>3, <1>4, <2>1 DEF body
<1>5. CASE m.fault = "unoffered"
  <2>1. answer["kind"].value = "unknown"
    BY <1>1, <1>3, <1>5, RightType
  <2>2. ~Offered(answer["kind"])
    <3>1. "unknown" \notin Range(Kinds)
      BY LabelsTell
    <3> QED
      BY <2>1, <3>1, LabelsTell DEF Offered
  <2>3. ~Whole(m)
    BY <1>1, <1>5 DEF Whole, Faults
  <2> QED
    BY <1>2, <2>2, <2>3 DEF body
<1>6. CASE m.fault = None \/ (m.fault = "twice" /\ id = "typesafe")
  <2>1. \A q \in Questions : answer[q] = Right(m)[q] /\ answer[q] # None
    <3>1. m.fault # "refused" /\ m.fault # "unoffered" /\ m.fault # "missing"
          /\ ~(m.fault = "twice" /\ id = "openai")
      BY <1>1, <1>6 DEF Faults
    <3> QED
      BY <1>3, <3>1, RightType
  <2>2. /\ answer["kind"].value = m.kind /\ answer["kind"].confidence = m.confidence
        /\ answer["worth"].value = One * (Place(m.level) - 1) + m.off + Lowest(m)
        /\ answer["worth"].confidence = m.confidence
        /\ answer["worth"].first = (IF m.echoed THEN Lowest(m) ELSE None)
        /\ answer["divergence"].value = m.divergence
    BY <1>1, <2>1 DEF Right, Questions
  <2>3. Offered(answer["kind"])
    BY <1>1, <2>2, LabelsTell DEF Offered
  <2>4. LowestLevel(id, answer["worth"]) = Lowest(m) /\ Lowest(m) \in Int
    <3>1. None \notin Int
      BY NoneAssumption
    <3> QED
      BY <1>1, <2>2, <3>1 DEF LowestLevel, Lowest
  <2>5. One * (Place(m.level) - 1) \in Int
    BY <1>1, PlaceOf DEF One
  <2>6. answer["worth"].value - LowestLevel(id, answer["worth"]) = Worth(m)
    BY <1>1, <2>2, <2>4, <2>5 DEF Worth
  <2>7. Decode(id, body) = Answers(id, answer)
    BY <1>2, <2>1, <2>3
  <2> QED
    BY <1>6, <2>2, <2>6, <2>7 DEF Answers, Whole, body
<1> QED
  BY <1>1, <1>4, <1>5, <1>6 DEF Faults

(* What verdict is made of that.                                           *)
LEMMA JudgedAs ==
    ASSUME NEW s, NEW mo, NEW m \in Meanings, id \in {"typesafe", "openai"}
    PROVE  LET verdict == FromAnswers(Decode(id, Answered(id, Encode(id, s, mo), m)))
           IN IF Whole(m) /\ Sane(m.confidence, One) /\ Sane(m.divergence, One) /\ Sane(Worth(m), Top)
                THEN /\ verdict = [kind |-> m.kind, confidence |-> Clamp(m.confidence, One),
                                   worth |-> Clamp(Worth(m), Top),
                                   divergence |-> Clamp(m.divergence, One)]
                     /\ verdict \in Verdicts /\ verdict # None
                     /\ Label(verdict.worth) = m.level
                     /\ Near(verdict.divergence, m.divergence)
                ELSE verdict = None
<1> DEFINE d == [kind |-> m.kind, kindConfidence |-> m.confidence, worth |-> Worth(m),
                 worthConfidence |-> m.confidence, divergence |-> m.divergence]
           verdict == FromAnswers(Decode(id, Answered(id, Encode(id, s, mo), m)))
<1>1. /\ m.kind \in Range(Kinds) /\ m.level \in Range(Labels) /\ m.off \in -4 .. 4
      /\ m.confidence \in Int /\ m.divergence \in Int
      /\ Place(m.level) \in 1 .. 4 /\ Labels[Place(m.level)] = m.level
  BY PlaceOf DEF Meanings
<1>2. One = 10 /\ Hair = 1 /\ Top = 30
  BY LabelsTell DEF One, Hair, Top
<1>3. Worth(m) \in Int /\ Worth(m) = 10 * (Place(m.level) - 1) + m.off
  BY <1>1, <1>2 DEF Worth
<1>4. \A v, top \in Int :
        /\ Within(v, top) = IF Sane(v, top) THEN Clamp(v, top) ELSE None
        /\ top >= 0 => Clamp(v, top) \in 0 .. top /\ (Sane(v, top) => Near(Clamp(v, top), v))
  BY <1>2 DEF Within, Sane, Clamp, Near
<1>5. None \notin Int /\ None \notin Verdicts /\ d # None
  <2>1. d \in [kind : Range(Kinds), kindConfidence : Int, worth : Int, worthConfidence : Int,
               divergence : Int]
    BY <1>1, <1>3
  <2> QED
    BY <2>1, NoneAssumption, NothingAssumption
<1>6. CASE ~Whole(m)
  BY <1>6, DecodedAs DEF FromAnswers
<1>7. CASE Whole(m)
  <2>1. verdict = FromAnswers(d)
    BY <1>7, DecodedAs
  <2> HIDE DEF verdict
  <2>2. CASE Sane(m.confidence, One) /\ Sane(m.divergence, One) /\ Sane(Worth(m), Top)
    <3>1. /\ Within(m.confidence, One) = Clamp(m.confidence, One)
          /\ Within(m.divergence, One) = Clamp(m.divergence, One)
          /\ Within(Worth(m), Top) = Clamp(Worth(m), Top)
          /\ Clamp(m.confidence, One) \in 0 .. One /\ Clamp(m.divergence, One) \in 0 .. One
          /\ Clamp(Worth(m), Top) \in 0 .. Top
          /\ Near(Clamp(m.divergence, One), m.divergence)
      <4>1. One \in Int /\ Top \in Int /\ One >= 0 /\ Top >= 0
        BY <1>2
      <4> QED
        BY <1>1, <1>3, <1>4, <2>2, <4>1
    <3>2. verdict = [kind |-> m.kind, confidence |-> Clamp(m.confidence, One),
                     worth |-> Clamp(Worth(m), Top), divergence |-> Clamp(m.divergence, One)]
      <4>1. None \notin {Clamp(m.confidence, One), Clamp(Worth(m), Top), Clamp(m.divergence, One)}
        BY <1>2, <1>5, <3>1
      <4> QED
        BY <1>5, <2>1, <3>1, <4>1 DEF FromAnswers
    <3>3. verdict \in Verdicts
      BY <1>1, <3>1, <3>2 DEF Verdicts
    <3>4. Label(Clamp(Worth(m), Top)) = m.level
      <4> DEFINE p == Place(m.level)
                 w == Clamp(Worth(m), Top)
      <4>1. p \in 1 .. 4 /\ w \in Int /\ 10 * (p - 1) - 5 <= w /\ w < 10 * (p - 1) + 5
        BY <1>1, <1>2, <1>3 DEF Clamp
      <4> HIDE DEF p, w
      <4>2. One \div 2 = 5
        BY <1>2
      <4>3. (w + 5) \div 10 = p - 1
        BY <4>1
      <4>4. ((w + One \div 2) \div One) + 1 = p
        BY <1>2, <4>1, <4>2, <4>3
      <4> QED
        BY <1>1, <4>4 DEF Label, p, w
    <3> QED
      BY <1>5, <1>7, <2>2, <3>1, <3>2, <3>3, <3>4 DEF verdict
  <2>3. CASE ~(Sane(m.confidence, One) /\ Sane(m.divergence, One) /\ Sane(Worth(m), Top))
    <3>1. None \in {Within(m.confidence, One), Within(Worth(m), Top), Within(m.divergence, One)}
      BY <1>1, <1>2, <1>3, <1>4, <2>3
    <3>2. FromAnswers(d) = None
      BY <3>1 DEF FromAnswers
    <3> QED
      BY <2>1, <2>3, <3>2 DEF verdict
  <2> QED
    BY <2>2, <2>3
<1> QED
  BY <1>6, <1>7

(* What the settings say of the API: one of those there are, and its model *)
(* by name.                                                                *)
LEMMA SettledShows ==
    ASSUME InputOK, Checked, Resolved, stage \in {"settled", "looked", "asking", "answered", "done"}
    PROVE  id \in {"typesafe", "openai"} /\ id \in DOMAIN Providers /\ model \in Texts
           /\ world.version \in Int
<1> DEFINE cfg == Config(world)
<1>1. settled = Settled(cmd, world) /\ cfg # Bad /\ ProviderHolds(cfg)
  BY DEF Resolved, Checked
<1>2. IsInput(input) /\ world = input.world /\ world.version \in Int
  BY InputsAssumption, PairAssumption DEF InputOK, world
<1>3. IsConfig(cfg)
  BY <1>1, <1>2, ConfigIsOne
<1> DEFINE provider == OneOf(cfg.value["provider"], Default["provider"])
<1>4. /\ settled.value["provider"] = OneOf(None, provider)
      /\ settled.value["model"] = OneOf(None, OneOf(cfg.value["model"], Providers[provider].model))
  BY <1>1 DEF Settled, Merged, Given, Flagged, Configured
<1>5. provider \in DOMAIN Providers
  BY <1>1 DEF ProviderHolds
<1>6. DOMAIN Providers = {"typesafe", "openai"} /\ Providers["typesafe"].model = <<74>>
      /\ Providers["openai"].model = <<71>>
  BY DEF Providers, TypeSafe, OpenAi
<1>7. <<74>> \in Texts /\ <<71>> \in Texts
  BY ShortTexts
<1>8. cfg.value["model"] \in Texts \cup {None}
  BY <1>3 DEF IsConfig
<1> HIDE DEF cfg, provider
<1> QED
  BY <1>2, <1>4, <1>5, <1>6, <1>7, <1>8 DEF OneOf, id, model

(* What the API meant, and what was made of it. *)
LEMMA NextUnderstood ==
    InputOK /\ Asked /\ Understood /\ [ExchangeNext]_exchangeVars => Understood'
<1> SUFFICES ASSUME InputOK, Asked, Understood, [ExchangeNext]_exchangeVars PROVE Understood'
  OBVIOUS
<1>1. ASSUME ask'.meant = None, stage' # "answered" PROVE Understood'
  BY <1>1 DEF Understood
<1>2. CASE Begin /\ UNCHANGED <<cache, ask, given, spoilt>>
  <2>1. stage \notin {"looked", "asking", "answered", "done"} /\ stage' # "answered"
    BY <1>2 DEF Begin, ParseArgs, LoadConfig, ResolveProvider, ValidateValues, ResolveSignals,
                Settle, Check
  <2> QED
    BY <1>1, <1>2, <2>1 DEF Asked, Unasked
<1>3. CASE Untriaged
  BY <1>1, <1>3 DEF Untriaged, Asked, Unasked
<1>4. CASE LookUp
  <2>1. ask = Unasked /\ stage' \in {"looked", "done"}
    BY <1>4 DEF LookUp, Asked
  <2>2. UNCHANGED ask \/ \E s, c : ask' = [ask EXCEPT !.sources = s, !.cached = c]
    BY <1>4 DEF LookUp
  <2>3. ask'.meant = None
    <3>1. DOMAIN ask = DOMAIN Unasked /\ ask.meant = None
      BY <2>1 DEF Unasked
    <3>2. ASSUME NEW s, NEW c, ask' = [ask EXCEPT !.sources = s, !.cached = c]
          PROVE  ask'.meant = ask.meant
      BY <3>1, <3>2 DEF Unasked
    <3> QED
      BY <2>2, <3>1, <3>2
  <2> QED
    BY <1>1, <2>1, <2>3
<1>5. CASE Plan
  <2>1. ask.meant = None /\ ask' = [ask EXCEPT !.verdict = ask.cached] /\ stage' \in {"asking", "done"}
    BY <1>5 DEF Plan, Understood
  <2> QED
    BY <1>1, <2>1 DEF Asked, Unasked
<1>6. CASE Receive
  <2>1. /\ ask' = [ask EXCEPT !.verdict = FromAnswers(Decode(id, ask.body))]
        /\ stage' = "done" /\ ask.meant # None
        /\ id' = id /\ model' = model /\ world' = world
    BY <1>6 DEF Receive, Keep, Understood, id, model, world
  <2>2. /\ ask'.meant = ask.meant /\ ask'.body = ask.body /\ ask'.sources = ask.sources
        /\ ask'.verdict = FromAnswers(Decode(id, ask.body))
    BY <2>1 DEF Asked, Unasked
  <2> QED
    BY <2>1, <2>2 DEF Understood
<1>7. CASE Spoil
  <2>1. UNCHANGED <<ask, stage>> /\ id' = id /\ model' = model /\ world' = world
    BY <1>7 DEF Spoil, Keep, id, model, world
  <2> QED
    BY <2>1 DEF Understood
<1>8. CASE Again
  BY <1>1, <1>8 DEF Again, Unasked
<1>9. ASSUME NEW reply \in world.replies, Hear(reply) PROVE Understood'
  <2>1. /\ stage = "asking" /\ id' = id /\ model' = model /\ world' = world /\ ask.meant = None
        /\ ask.sources \in Sources
    BY <1>9 DEF Hear, Keep, id, model, world, Understood, Asked
  <2>2. ASSUME NEW m \in world.meanings, stage' = "answered",
               ask' = [ask EXCEPT !.heard = Append(@, reply), !.meant = m,
                                  !.body = Answered(id, Encode(id, ask.sources, model), m)]
        PROVE  Understood'
    <3>1. /\ ask'.meant = m /\ ask'.sources = ask.sources
          /\ ask'.body = Answered(id, Encode(id, ask.sources, model), m)
      BY <2>2 DEF Asked, Unasked
    <3>2. m # None
      BY PairAssumption, NothingAssumption DEF InputOK, world
    <3> QED
      BY <2>1, <2>2, <3>1, <3>2 DEF Understood
  <2>3. ASSUME ask'.meant = ask.meant, stage' # "answered" PROVE Understood'
    BY <1>1, <2>1, <2>3
  <2>4. CASE Class(reply) = "answer"
    BY <1>9, <2>2, <2>4 DEF Hear
  <2>5. CASE Class(reply) # "answer"
    <3>1. stage' # "answered" /\ ask'.meant = ask.meant
      BY <1>9, <2>1, <2>5 DEF Hear, Asked, Unasked
    <3> QED
      BY <2>3, <3>1
  <2> QED
    BY <2>4, <2>5
<1>10. CASE UNCHANGED exchangeVars
  <2>1. UNCHANGED <<ask, stage>> /\ id' = id /\ model' = model /\ world' = world
    BY <1>10 DEF exchangeVars, id, model, world
  <2> QED
    BY <2>1 DEF Understood
<1> QED
  BY <1>2, <1>3, <1>4, <1>5, <1>6, <1>7, <1>8, <1>9, <1>10 DEF ExchangeNext, Settling

(* An entry is read back as the verdict it is of.                          *)
LEMMA EntryIsRead ==
    ASSUME NEW v \in Verdicts
    PROVE  VerdictOf(Entry(v)) = v /\ Entry(v) # Bad /\ v # None
<1>1. /\ v.kind \in Range(Kinds) /\ v.confidence \in 0 .. One /\ v.worth \in 0 .. Top
      /\ v.divergence \in 0 .. One
      /\ v = [kind |-> v.kind, confidence |-> v.confidence, worth |-> v.worth,
              divergence |-> v.divergence]
  BY DEF Verdicts
<1>2. Contains(Kinds, v.kind)
  BY <1>1, LabelsTell
<1>3. VerdictOf(Entry(v)) = v
  BY <1>1, <1>2 DEF VerdictOf, Entry
<1> QED
  BY <1>3, GarbageAssumption, NothingAssumption

Abouts == (DOMAIN Providers) \X Sources \X Texts \X Int

(* The entry of a key that is whole is of the verdict last given on what   *)
(* the key is of, and an entry that is not read is a damaged one.          *)
LEMMA KeptTells ==
    ASSUME Kept, NEW about \in Abouts
    PROVE  LET found == Lookup(KeyFor(about))
           IN /\ found # None => \E g \in given : g.about = about /\ g.verdict = found
              /\ found = None =>
                   \A g \in given : g.about = about => KeyFor(about) \in spoilt
<1> DEFINE key == KeyFor(about)
           found == Lookup(key)
<1>1. /\ \A g \in given : g.about \in Abouts /\ g.verdict \in Verdicts
                          /\ KeyFor(g.about) \in DOMAIN cache
      /\ \A k \in DOMAIN cache :
           IF k \in spoilt THEN cache[k] \in Garbage
           ELSE \E g \in given : k = KeyFor(g.about) /\ cache[k] = Entry(g.verdict)
  BY DEF Kept, Abouts
<1>2. found = IF key \notin DOMAIN cache \/ cache[key] = Bad THEN None ELSE VerdictOf(cache[key])
  BY DEF Lookup
<1> HIDE DEF found
<1>3. ASSUME key \in DOMAIN cache, key \notin spoilt
      PROVE  \E g \in given : g.about = about /\ g.verdict = found /\ found # None
  <2>1. PICK g \in given : key = KeyFor(g.about) /\ cache[key] = Entry(g.verdict)
    BY <1>1, <1>3
  <2>2. g.about = about
    <3>1. g.about \in Abouts /\ KeyFor(g.about) = KeyFor(about)
      BY <1>1, <2>1
    <3> QED
      BY <3>1, KeyIsOwn DEF Abouts
  <2>3. g.verdict \in Verdicts
    BY <1>1
  <2>4. VerdictOf(Entry(g.verdict)) = g.verdict /\ Entry(g.verdict) # Bad /\ g.verdict # None
    BY <2>3, EntryIsRead
  <2>5. found = g.verdict
    BY <1>2, <1>3, <2>1, <2>4
  <2> QED
    BY <2>2, <2>4, <2>5
<1>4. ASSUME key \in DOMAIN cache, key \in spoilt
      PROVE  found = None
  <2>1. cache[key] \in Garbage
    BY <1>1, <1>4
  <2> QED
    BY <1>2, <2>1, GarbageAssumption
<1>5. found # None => \E g \in given : g.about = about /\ g.verdict = found
  BY <1>2, <1>3, <1>4
<1>6. ASSUME found = None, NEW g \in given, g.about = about PROVE key \in spoilt
  BY <1>1, <1>3, <1>6
<1> QED
  BY <1>5, <1>6 DEF found

(* The cache holds what was given, but where it was damaged.               *)
LEMMA NextKept ==
    /\ InputOK /\ Checked /\ Resolved /\ Asked /\ Understood /\ Kept
    /\ [ExchangeNext]_exchangeVars
    => Kept'
<1> SUFFICES ASSUME InputOK, Checked, Resolved, Asked, Understood, Kept, [ExchangeNext]_exchangeVars
             PROVE  Kept'
  OBVIOUS
<1>1. ASSUME UNCHANGED <<cache, given, spoilt>>, ask'.cached = None, stage' \notin {"looked", "asking"}
      PROVE  Kept'
  BY <1>1 DEF Kept
<1>2. CASE Begin /\ UNCHANGED <<cache, ask, given, spoilt>>
  <2>1. stage \notin {"looked", "asking", "answered", "done"} /\ stage' \notin {"looked", "asking"}
    BY <1>2 DEF Begin, ParseArgs, LoadConfig, ResolveProvider, ValidateValues, ResolveSignals,
                Settle, Check
  <2> QED
    BY <1>1, <1>2, <2>1 DEF Asked, Unasked
<1>3. CASE Untriaged
  BY <1>1, <1>3 DEF Untriaged, Asked, Unasked
<1>4. CASE LookUp
  <2> DEFINE sources == [s \in DOMAIN world.spans |->
                           ReadSpan(world.lines, world.spans[s].from, world.spans[s].to)]
  <2>1. /\ ask = Unasked /\ stage = "settled" /\ UNCHANGED <<cache, given, spoilt, settled, input>>
        /\ ask.cached = None /\ DOMAIN ask = DOMAIN Unasked
    BY <1>4 DEF LookUp, Asked, Keep, Unasked
  <2>2. CASE None \in Range(sources)
    BY <1>1, <1>4, <2>1, <2>2 DEF LookUp
  <2>3. CASE None \notin Range(sources)
    <3>1. sources \in Sources
      BY <2>3, BodiesType
    <3>2. /\ stage' = "looked"
          /\ ask' = [ask EXCEPT !.sources = sources,
                                !.cached = IF settled.target = None THEN None
                                           ELSE Lookup(KeyOf(sources))]
      BY <1>4, <2>3 DEF LookUp
    <3> HIDE DEF sources
    <3>3. /\ ask'.sources = sources
          /\ ask'.cached = IF settled.target = None THEN None ELSE Lookup(KeyOf(sources))
      BY <2>1, <3>2 DEF Unasked
    <3> DEFINE about == <<id, sources, model, world.version>>
    <3>4. about \in Abouts /\ About' = about /\ KeyFor(about) = KeyOf(sources)
      <4>1. about \in Abouts
        BY <2>1, <3>1, SettledShows DEF Abouts
      <4> QED
        BY <2>1, <3>3, <4>1 DEF About, KeyFor, KeyOf, id, model, world
    <3> HIDE DEF about
    <3>5. /\ Lookup(KeyFor(about)) # None =>
               \E g \in given : g.about = about /\ g.verdict = Lookup(KeyFor(about))
          /\ Lookup(KeyFor(about)) = None =>
               \A g \in given : g.about = about => KeyFor(about) \in spoilt
      BY <3>4, KeptTells
    <3>6. /\ ask'.cached # None => \E g \in given : g.about = about /\ g.verdict = ask'.cached
          /\ ask'.cached = None /\ settled.target # None =>
               \A g \in given : g.about = about => KeyFor(about) \in spoilt
      BY <3>3, <3>4, <3>5
    <3> QED
      BY <2>1, <3>4, <3>6 DEF Kept
  <2> QED
    BY <2>2, <2>3
<1>5. ASSUME UNCHANGED <<cache, given, spoilt, settled, input>>,
             ask'.cached = ask.cached, ask'.sources = ask.sources,
             stage \in {"looked", "asking"} \/ stage' \notin {"looked", "asking"}
      PROVE  Kept'
  <2>1. About' = About
    BY <1>5 DEF About, id, model, world
  <2> QED
    BY <1>5, <2>1 DEF Kept
<1>6. CASE Plan
  <2>1. ask'.cached = ask.cached /\ ask'.sources = ask.sources
    BY <1>6 DEF Plan, Asked, Unasked
  <2> QED
    BY <1>5, <1>6, <2>1 DEF Plan, Keep
<1>7. ASSUME NEW reply \in world.replies, Hear(reply) PROVE Kept'
  <2>1. ask'.cached = ask.cached /\ ask'.sources = ask.sources /\ stage = "asking"
    BY <1>7 DEF Hear, Asked, Unasked
  <2> QED
    BY <1>5, <1>7, <2>1 DEF Hear, Keep
<1>8. CASE Receive
  <2> DEFINE verdict == FromAnswers(Decode(id, ask.body))
             key == KeyOf(ask.sources)
             new == [about |-> <<id, ask.sources, model, world.version>>, verdict |-> verdict]
  <2>1. /\ stage = "answered" /\ stage' = "done" /\ UNCHANGED <<settled, input>>
        /\ ask'.cached = ask.cached /\ ask'.sources = ask.sources /\ ask.sources \in Sources
    BY <1>8 DEF Receive, Keep, Asked, Unasked
  <2>2. CASE verdict = None \/ settled.target = None
    <3>1. UNCHANGED <<cache, given, spoilt>>
      BY <1>8, <2>2 DEF Receive
    <3> QED
      BY <1>5, <2>1, <3>1
  <2>3. CASE ~(verdict = None \/ settled.target = None)
    <3>1. /\ cache' = [k \in DOMAIN cache \cup {key} |-> IF k = key THEN Entry(verdict) ELSE cache[k]]
          /\ given' = given \cup {new} /\ spoilt' = spoilt \ {key}
      BY <1>8, <2>3 DEF Receive
    <3>2. id \in {"typesafe", "openai"} /\ id \in DOMAIN Providers /\ model \in Texts
          /\ world.version \in Int
      BY <2>1, SettledShows
    <3>3. verdict \in Verdicts
      <4>1. /\ ask.meant \in Meanings
            /\ ask.body = Answered(id, Encode(id, ask.sources, model), ask.meant)
        BY <2>1, PairAssumption DEF Understood, InputOK, world
      <4> QED
        BY <2>3, <3>2, <4>1, JudgedAs
    <3> HIDE DEF verdict
    <3>4. /\ new.about \in Abouts /\ new.verdict = verdict /\ KeyFor(new.about) = key
          /\ new.about = About
      BY <2>1, <3>2 DEF Abouts, KeyFor, KeyOf, About
    <3> HIDE DEF new, key
    <3>5. DOMAIN cache' = DOMAIN cache \cup {key} /\ cache'[key] = Entry(verdict)
          /\ \A k \in DOMAIN cache : k # key => cache'[k] = cache[k]
      BY <3>1
    <3>6. \A g \in given' : g.about \in Abouts /\ g.verdict \in Verdicts
                            /\ KeyFor(g.about) \in DOMAIN cache'
      BY <3>1, <3>3, <3>4, <3>5 DEF Kept, Abouts
    <3>7. ASSUME NEW k \in DOMAIN cache'
          PROVE  IF k \in spoilt' THEN cache'[k] \in Garbage
                 ELSE \E g \in given' : k = KeyFor(g.about) /\ cache'[k] = Entry(g.verdict)
      <4>1. CASE k = key
        BY <3>1, <3>4, <3>5, <4>1
      <4>2. CASE k # key
        <5>1. k \in DOMAIN cache /\ cache'[k] = cache[k] /\ (k \in spoilt' <=> k \in spoilt)
          BY <3>1, <3>5, <4>2
        <5>2. IF k \in spoilt THEN cache[k] \in Garbage
              ELSE \E g \in given : k = KeyFor(g.about) /\ cache[k] = Entry(g.verdict)
          BY <5>1 DEF Kept
        <5> QED
          BY <3>1, <5>1, <5>2
      <4> QED
        BY <4>1, <4>2
    <3>8. About' = About
      BY <2>1 DEF About, id, model, world
    <3>9. ask'.cached # None => \E g \in given' : g.about = About' /\ g.verdict = ask'.cached
      BY <2>1, <3>1, <3>8 DEF Kept
    <3> QED
      BY <2>1, <3>6, <3>7, <3>9 DEF Kept, Abouts
  <2> QED
    BY <2>2, <2>3
<1>9. CASE Spoil
  <2>1. PICK key \in DOMAIN cache, entry \in Garbage :
             cache' = [cache EXCEPT ![key] = entry] /\ spoilt' = spoilt \cup {key}
    BY <1>9 DEF Spoil
  <2>2. stage = "done" /\ UNCHANGED <<stage, ask, given, settled, input>>
    BY <1>9 DEF Spoil, Keep
  <2>3. About' = About
    BY <2>2 DEF About, id, model, world
  <2>4. DOMAIN cache' = DOMAIN cache /\ cache'[key] = entry
        /\ \A k \in DOMAIN cache : k # key => cache'[k] = cache[k]
    BY <2>1
  <2>5. ASSUME NEW k \in DOMAIN cache'
        PROVE  IF k \in spoilt' THEN cache'[k] \in Garbage
               ELSE \E g \in given' : k = KeyFor(g.about) /\ cache'[k] = Entry(g.verdict)
    <3>1. CASE k = key
      BY <2>1, <2>4, <3>1
    <3>2. CASE k # key
      <4>1. k \in DOMAIN cache /\ cache'[k] = cache[k] /\ (k \in spoilt' <=> k \in spoilt)
        BY <2>1, <2>4, <3>2
      <4>2. IF k \in spoilt THEN cache[k] \in Garbage
            ELSE \E g \in given : k = KeyFor(g.about) /\ cache[k] = Entry(g.verdict)
        BY <4>1 DEF Kept
      <4> QED
        BY <2>2, <4>1, <4>2
    <3> QED
      BY <3>1, <3>2
  <2> QED
    BY <2>2, <2>3, <2>4, <2>5 DEF Kept
<1>10. CASE Again
  BY <1>1, <1>10 DEF Again, Unasked
<1>11. CASE UNCHANGED exchangeVars
  <2>1. About' = About
    BY <1>11 DEF exchangeVars, About, id, model, world
  <2> QED
    BY <1>11, <2>1 DEF exchangeVars, Kept
<1> QED
  BY <1>2, <1>3, <1>4, <1>6, <1>7, <1>8, <1>9, <1>10, <1>11 DEF ExchangeNext, Settling

-----------------------------------------------------------------------------
(* The inductive invariant of Exchange, and what follows *)

(* In whatever order runs settle, ask, store and find damage.              *)
THEOREM ExchangeInvariance == ExchangeSpec => []ExchangeInv
<1>1. ExchangeInit => ExchangeInv
  <2> SUFFICES ASSUME ExchangeInit PROVE ExchangeInv
    OBVIOUS
  <2>1. InputOK /\ Checked /\ Resolved /\ Asked /\ Understood /\ Kept
    BY DEF ExchangeInit, InputOK, Checked, Resolved, Asked, Understood, Kept, Unasked
  <2>2. Waited
    <3>1. ask.heard = <<>> /\ ask.waits = <<>> /\ stage = "args"
      BY DEF ExchangeInit, Unasked
    <3> QED
      BY <3>1, AttemptsAssumption DEF Waited
  <2> QED
    BY <2>1, <2>2 DEF ExchangeInv
<1>2. ExchangeInv /\ [ExchangeNext]_exchangeVars => ExchangeInv'
  BY NextInput, NextChecked, NextAsked, NextWaited, NextUnderstood, NextKept DEF ExchangeInv
<1> QED
  BY <1>1, <1>2, PTL DEF ExchangeSpec

(* A value does the same, and is refused the same, as a flag and in the    *)
(* configuration file.                                                     *)
THEOREM NothingIsSmuggled == ExchangeSpec => []NoSmuggling
<1>1. ExchangeInv => NoSmuggling
  BY CheckedShows DEF ExchangeInv
<1> QED
  BY <1>1, ExchangeInvariance, PTL

(* Each glob of the command line that excluded nothing is warned of, and   *)
(* no other.                                                               *)
THEOREM WarningsAreExact == ExchangeSpec => []WarnedExactly
<1>1. ExchangeInv => WarnedExactly
  BY CheckedShows DEF ExchangeInv
<1> QED
  BY <1>1, ExchangeInvariance, PTL

(* A request is repeated only after a failure that may pass, after the     *)
(* wait asked for or a doubled one, and given up only when it must be.     *)
THEOREM TriesAreJustified == ExchangeSpec => []TriesJustified
<1>1. ExchangeInv => TriesJustified
  BY WaitedShows DEF ExchangeInv
<1> QED
  BY <1>1, ExchangeInvariance, PTL

(* A verdict from the cache was given on these bodies, in this order, by   *)
(* this API and model under these questions; and what was given is not     *)
(* asked for again, but where the entry was damaged.                       *)
THEOREM CacheIsOfTheQuestion == ExchangeSpec => []CacheAnswersAsAsked
<1>1. ExchangeInv => CacheAnswersAsAsked
  <2> SUFFICES ASSUME ExchangeInv, ask.sources # None
               PROVE  LET on == {g \in given : g.about = About}
                      IN /\ ask.cached # None => \E g \in on : g.verdict = ask.cached
                         /\ stage = "asking" /\ settled.target # None =>
                              on = {} \/ KeyOf(ask.sources) \in spoilt
    BY DEF CacheAnswersAsAsked, About
  <2>1. Asked /\ Kept
    BY DEF ExchangeInv
  <2>2. ask.cached # None => \E g \in given : g.about = About /\ g.verdict = ask.cached
    BY <2>1 DEF Kept
  <2>3. ASSUME stage = "asking", settled.target # None, NEW g \in given, g.about = About
        PROVE  KeyOf(ask.sources) \in spoilt
    <3>1. KeyFor(About) \in spoilt
      BY <2>1, <2>3 DEF Kept, Asked
    <3> QED
      BY <3>1 DEF KeyFor, About, KeyOf
  <2> QED
    BY <2>2, <2>3
<1> QED
  BY <1>1, ExchangeInvariance, PTL

(* An answer that is all there is read as it was meant, whichever API gave *)
(* it and however it numbers the levels, and of no other is a verdict made.*)
THEOREM AnswersAreSaidAsMeant == ExchangeSpec => []SaidAsMeant
<1>1. ExchangeInv => SaidAsMeant
  <2> SUFFICES ASSUME ExchangeInv, stage = "done", ask.meant # None PROVE SaidAsMeant
    BY DEF SaidAsMeant
  <2> DEFINE m == ask.meant
             verdict == FromAnswers(Decode(id, Answered(id, Encode(id, ask.sources, model), m)))
             sane == Whole(m) /\ Sane(m.confidence, One) /\ Sane(m.divergence, One)
                       /\ Sane(Worth(m), Top)
  <2>1. InputOK /\ Checked /\ Resolved /\ Understood
    BY DEF ExchangeInv
  <2>2. id \in {"typesafe", "openai"}
    BY <2>1, SettledShows
  <2>3. m \in Meanings /\ ask.verdict = verdict
    BY <2>1, PairAssumption DEF Understood, InputOK, world
  <2>4. IF sane
          THEN /\ verdict = [kind |-> m.kind, confidence |-> Clamp(m.confidence, One),
                             worth |-> Clamp(Worth(m), Top), divergence |-> Clamp(m.divergence, One)]
               /\ verdict \in Verdicts /\ verdict # None
               /\ Label(verdict.worth) = m.level
               /\ Near(verdict.divergence, m.divergence)
          ELSE verdict = None
    BY <2>2, <2>3, JudgedAs
  <2> HIDE DEF verdict
  <2>5. /\ ask.verdict # None <=> sane
        /\ sane => /\ ask.verdict.kind = m.kind /\ Label(ask.verdict.worth) = m.level
                   /\ ask.verdict.confidence = Clamp(m.confidence, One)
                   /\ Near(ask.verdict.divergence, m.divergence)
    BY <2>3, <2>4
  <2>6. Shown.named <=> (100 \div One) * ask.verdict.confidence >= settled.value["floor"]
    BY DEF Shown, Assessment
  <2> QED
    BY <2>5, <2>6 DEF SaidAsMeant, Whole, Worth, Place
<1> QED
  BY <1>1, ExchangeInvariance, PTL

-----------------------------------------------------------------------------
(* The complexity cache. *)

(* What there is to know of a request. *)
LEMMA RequestFacts ==
    ASSUME NEW o \in Requests
    PROVE  /\ o.weight \in Nat /\ o.cached \in BOOLEAN
           /\ \A d \in o.roots \cup o.kept : d \in Seq(STRING)
  BY RequestsAssumption DEF Request

LEMMA AnalysisType ==
    ASSUME NEW b \in Builds, NEW w \in Nat, NEW c \in FileContents
    PROVE  Analysis(b, w, c) \in Found \cup {Nil}
  BY DEF Analysis, Found

LEMMA EmptyType == Empty \in [Files -> FileEntry \cup {Nil}] /\ Empty \in [Files -> Found \cup {Nil}]
  BY DEF Empty

(* Setting one file of one run. *)
LEMMA OneFileType ==
    ASSUME NEW S, NEW F \in [Runs -> [Files -> S]], NEW r \in Runs, NEW f \in Files, NEW x \in S
    PROVE  [F EXCEPT ![r][f] = x] \in [Runs -> [Files -> S]]
  OBVIOUS

(* No file is under two roots of one run's walk. *)
LEMMA WalksAreDisjoint ==
    ASSUME NEW o \in Requests, NEW d \in o.roots, NEW e \in o.roots, d # e,
           NEW f \in Walk(o, d)
    PROVE  f \notin Walk(o, e)
<1>1. d \in Seq(STRING) /\ e \in Seq(STRING) /\ f \in Seq(STRING)
  BY RequestFacts, FilesAssumption DEF Walk
<1>2. Len(d) \in Nat /\ Len(e) \in Nat /\ Len(f) \in Nat
  BY <1>1
<1>3. SUFFICES ASSUME f \in Walk(o, e)
               PROVE  FALSE
  OBVIOUS
<1>4. Above(d, f) /\ Above(e, f)
  BY <1>3 DEF Walk
<1>5. \A i \in 1 .. Len(d) : i \in 1 .. Len(e) => d[i] = e[i]
  BY <1>4 DEF Above
<1>6. CASE Len(d) <= Len(e)
  <2>1. Above(d, e)
    BY <1>2, <1>5, <1>6 DEF Above
  <2>2. QED
    BY <1>4, <2>1 DEF Walk
<1>7. CASE Len(e) <= Len(d)
  <2>1. Above(e, d)
    BY <1>2, <1>5, <1>7 DEF Above
  <2>2. QED
    BY <1>3, <1>4, <2>1 DEF Walk
<1>8. QED
  BY <1>2, <1>6, <1>7

-----------------------------------------------------------------------------
LEMMA InitType == AnalysisInit => AnalysisOK
  BY EmptyType, LimitsAssumption, TreesAssumption DEF AnalysisInit, AnalysisOK, NoCache, Builds

(* Clearing a run, as starting and dying do. *)
LEMMA ClearedType ==
    ASSUME AnalysisOK, NEW r \in Runs, Cleared(r)
    PROVE  /\ header' \in [Runs -> Header \cup {Nil}]
           /\ entries' \in [Runs -> [Files -> FileEntry \cup {Nil}]]
           /\ todo' \in [Runs -> SUBSET Files]
           /\ taken' \in [Runs -> [Files -> FileContents \cup {Absent, Unread}]]
           /\ functions' \in [Runs -> [Files -> Found \cup {Nil}]]
           /\ records' \in [Runs -> [Files -> FileEntry \cup {Nil}]]
  BY EmptyType DEF AnalysisOK, Cleared

(* The three ways in which analysing a file may turn out. *)
LEMMA AnalyseCases ==
    ASSUME NEW r, NEW f, Analyse(r, f),
           NEW parsed, parsed = Analysis(alg[r], opt[r].weight, taken[r][f])
    PROVE  \/ /\ Hit(r, f)
              /\ functions' = [functions EXCEPT ![r][f] = entries[r][f].functions]
              /\ records' = [records EXCEPT ![r][f] = entries[r][f]]
           \/ /\ ~Hit(r, f) /\ taken[r][f] # Absent /\ parsed # Nil
              /\ functions' = [functions EXCEPT ![r][f] = parsed]
              /\ \/ header[r] = Nil /\ records' = records
                 \/ header[r] # Nil /\ records' = [records EXCEPT ![r][f] = Record(r, f, parsed)]
           \/ /\ ~Hit(r, f) /\ (taken[r][f] = Absent \/ parsed = Nil)
              /\ functions' = functions /\ records' = records
  BY Zenon DEF Analyse

LEMMA TypeStep == AnalysisOK /\ [AnalysisNext]_analysisVars => AnalysisOK'
<1> SUFFICES ASSUME AnalysisOK, [AnalysisNext]_analysisVars
             PROVE  AnalysisOK'
  OBVIOUS
<1>1. ASSUME NEW r \in Runs, StartRun(r)
      PROVE  AnalysisOK'
  <2>1. PICK o \in Requests : opt' = [opt EXCEPT ![r] = o] /\ left' = [left EXCEPT ![r] = o.roots]
    BY <1>1 DEF StartRun
  <2>2. opt' \in [Runs -> Requests \cup {Nil}] /\ o # Nil
    BY <2>1, NothingsAssumption DEF AnalysisOK
  <2>3. left' \in [Runs -> SUBSET Seq(STRING)]
    BY <2>1, RequestFacts DEF AnalysisOK
  <2>8. \A q \in Runs : phase'[q] # "idle" => opt'[q] # Nil /\ left'[q] \subseteq opt'[q].roots
    BY <1>1, <2>1, <2>2 DEF AnalysisOK, StartRun
  <2>4. phase' \in [Runs -> {"idle", "started", "walking", "done"}] /\ alg' \in [Runs -> Builds]
    BY <1>1 DEF AnalysisOK, StartRun
  <2>5. starts' \in [Runs -> 0 .. MaxStarts]
    BY <1>1, LimitsAssumption DEF AnalysisOK, StartRun
  <2>6. UNCHANGED <<disk, source, exe, edits>> /\ Cleared(r)
    BY <1>1 DEF StartRun, outside
  <2>7. QED
    BY <2>2, <2>3, <2>4, <2>5, <2>6, <2>8, ClearedType DEF AnalysisOK
<1>2. ASSUME NEW r \in Runs, OpenCache(r)
      PROVE  AnalysisOK'
  <2>1. opt[r] \in Requests /\ opt[r].weight \in Nat
    BY <1>2, RequestFacts DEF OpenCache, AnalysisOK
  <2> DEFINE h == [exe |-> exe, weight |-> opt[r].weight]
  <2>2. header' \in [Runs -> Header \cup {Nil}]
    <3>1. h \in Header
      BY <2>1 DEF AnalysisOK, Header
    <3>2. header' = header \/ header' = [header EXCEPT ![r] = h]
      BY <1>2 DEF OpenCache
    <3>3. QED
      BY <3>1, <3>2 DEF AnalysisOK
  <2>3. entries' \in [Runs -> [Files -> FileEntry \cup {Nil}]]
    <3>1. Load(h) \in [Files -> FileEntry \cup {Nil}]
      BY EmptyType DEF AnalysisOK, Load, Matches
    <3>2. \/ entries' = entries
          \/ entries' = [entries EXCEPT ![r] = Load(h)]
          \/ entries' = [entries EXCEPT ![r] = Empty]
      BY <1>2 DEF OpenCache
    <3>3. QED
      BY <3>1, <3>2, EmptyType DEF AnalysisOK
  <2>4. /\ phase[r] = "started" /\ phase' = [phase EXCEPT ![r] = "walking"]
        /\ UNCHANGED <<disk, opt, alg, left, todo, taken, functions, records, starts, outside>>
    BY <1>2 DEF OpenCache
  <2>5. QED
    BY <2>2, <2>3, <2>4 DEF AnalysisOK, outside
<1>3. ASSUME NEW r \in Runs, NEW d \in left[r], List(r, d)
      PROVE  AnalysisOK'
  <2>1. todo' \in [Runs -> SUBSET Files]
    BY <1>3 DEF List, AnalysisOK, Walk
  <2>2. left' \in [Runs -> SUBSET Seq(STRING)] /\ \A q \in Runs : left'[q] \subseteq left[q]
    BY <1>3 DEF List, AnalysisOK
  <2>3. QED
    BY <1>3, <2>1, <2>2 DEF List, AnalysisOK, outside
<1>4. ASSUME NEW r \in Runs, NEW f \in todo[r], ReadSource(r, f)
      PROVE  AnalysisOK'
  <2>1. f \in Files
    BY <1>4 DEF AnalysisOK
  <2>2. taken' \in [Runs -> [Files -> FileContents \cup {Absent, Unread}]]
    BY <1>4, <2>1 DEF ReadSource, AnalysisOK
  <2>3. QED
    BY <1>4, <2>2 DEF ReadSource, AnalysisOK, outside
<1>5. ASSUME NEW r \in Runs, NEW f \in todo[r], Analyse(r, f)
      PROVE  AnalysisOK'
  <2>1. f \in Files /\ opt[r] \in Requests
    BY <1>5 DEF Analyse, AnalysisOK
  <2>2. opt[r].weight \in Nat /\ alg[r] \in Builds
    BY <2>1, RequestFacts DEF AnalysisOK
  <2>0. PICK parsed : parsed = Analysis(alg[r], opt[r].weight, taken[r][f])
    OBVIOUS
  <2>3. taken[r][f] \in FileContents \cup {Absent}
    BY <1>5, <2>1 DEF Analyse, AnalysisOK
  <2>4. taken[r][f] # Absent /\ parsed # Nil => parsed \in Found /\ Record(r, f, parsed) \in FileEntry
    BY <2>0, <2>2, <2>3, AnalysisType DEF Record, FileEntry
  <2>5. Hit(r, f) => entries[r][f] \in FileEntry /\ entries[r][f].functions \in Found
    BY <2>1 DEF Hit, AnalysisOK, FileEntry
  <2>10. \/ /\ Hit(r, f)
            /\ functions' = [functions EXCEPT ![r][f] = entries[r][f].functions]
            /\ records' = [records EXCEPT ![r][f] = entries[r][f]]
         \/ /\ taken[r][f] # Absent /\ parsed # Nil
            /\ functions' = [functions EXCEPT ![r][f] = parsed]
            /\ records' = records \/ records' = [records EXCEPT ![r][f] = Record(r, f, parsed)]
         \/ functions' = functions /\ records' = records
    BY <1>5, <2>0, AnalyseCases
  <2>6. functions' \in [Runs -> [Files -> Found \cup {Nil}]]
    <3>1. ASSUME NEW x \in Found, functions' = [functions EXCEPT ![r][f] = x]
          PROVE  functions' \in [Runs -> [Files -> Found \cup {Nil}]]
      BY <2>1, <3>1, OneFileType DEF AnalysisOK
    <3>2. functions' = functions => functions' \in [Runs -> [Files -> Found \cup {Nil}]]
      BY DEF AnalysisOK
    <3>3. QED
      BY <2>4, <2>5, <2>10, <3>1, <3>2
  <2>7. records' \in [Runs -> [Files -> FileEntry \cup {Nil}]]
    <3>1. ASSUME NEW x \in FileEntry, records' = [records EXCEPT ![r][f] = x]
          PROVE  records' \in [Runs -> [Files -> FileEntry \cup {Nil}]]
      BY <2>1, <3>1, OneFileType DEF AnalysisOK
    <3>2. records' = records => records' \in [Runs -> [Files -> FileEntry \cup {Nil}]]
      BY DEF AnalysisOK
    <3>3. QED
      BY <2>4, <2>5, <2>10, <3>1, <3>2
  <2>8. todo' \in [Runs -> SUBSET Files]
    BY <1>5 DEF Analyse, AnalysisOK
  <2>9. QED
    BY <1>5, <2>6, <2>7, <2>8 DEF Analyse, AnalysisOK, outside
<1>6. ASSUME NEW r \in Runs, Save(r)
      PROVE  AnalysisOK'
  <2>1. \A f \in Files : CarriedOver(r, f) \in FileEntry \cup {Nil}
    BY DEF AnalysisOK, CarriedOver
  <2>2. disk' \in [header : Header \cup {Nil}, files : [Files -> FileEntry \cup {Nil}]]
    BY <1>6, <2>1 DEF Save, AnalysisOK
  <2>3. phase' \in [Runs -> {"idle", "started", "walking", "done"}]
        /\ \A q \in Runs : phase'[q] # "idle" => phase[q] # "idle"
    BY <1>6 DEF Save, Walked, AnalysisOK
  <2>4. QED
    BY <1>6, <2>2, <2>3 DEF Save, AnalysisOK, outside
<1>7. ASSUME NEW r \in Runs, FinishRun(r)
      PROVE  AnalysisOK'
  BY <1>7 DEF FinishRun, Walked, AnalysisOK, outside
<1>8. ASSUME NEW r \in Runs, Die(r)
      PROVE  AnalysisOK'
  <2>1. /\ phase' \in [Runs -> {"idle", "started", "walking", "done"}]
        /\ left' \in [Runs -> SUBSET Seq(STRING)]
        /\ \A q \in Runs : phase'[q] # "idle" => phase[q] # "idle" /\ left'[q] = left[q]
    BY <1>8 DEF Die, AnalysisOK
  <2>2. QED
    BY <1>8, <2>1, ClearedType DEF Die, AnalysisOK, outside
<1>9. ASSUME NEW f \in Files, Edit(f)
      PROVE  AnalysisOK'
  BY <1>9, LimitsAssumption DEF Edit, AnalysisOK
<1>10. CASE Rebuild
  BY <1>10, LimitsAssumption DEF Rebuild, AnalysisOK, Builds
<1>11. CASE Lose
  BY <1>11, EmptyType DEF Lose, AnalysisOK, NoCache, outside
<1>12. CASE UNCHANGED analysisVars
  BY <1>12 DEF analysisVars, AnalysisOK
<1>13. QED
  BY <1>1, <1>2, <1>3, <1>4, <1>5, <1>6, <1>7, <1>8, <1>9, <1>10, <1>11, <1>12 DEF AnalysisNext, Step

(* Every state is well typed. *)
THEOREM AnalysisTyped == AnalysisSpec => []AnalysisOK
  BY InitType, TypeStep, PTL DEF AnalysisSpec

-----------------------------------------------------------------------------
(* No file is met twice: what lies ahead of a run was never read by it.    *)
LEMMA AheadStep == AnalysisOK /\ Ahead /\ [AnalysisNext]_analysisVars => Ahead'
<1> SUFFICES ASSUME AnalysisOK, Ahead, [AnalysisNext]_analysisVars
             PROVE  Ahead'
  OBVIOUS
<1>0. \A o, d : Walk(o, d) \subseteq Files
  BY DEF Walk
<1>1. ASSUME NEW r \in Runs, StartRun(r)
      PROVE  Ahead'
  <2>1. /\ taken' = [taken EXCEPT ![r] = [f \in Files |-> Unread]]
        /\ todo' = [todo EXCEPT ![r] = {}]
        /\ \E o : opt' = [opt EXCEPT ![r] = o] /\ left' = [left EXCEPT ![r] = o.roots]
    BY <1>1 DEF StartRun, Cleared
  <2>2. \A q \in Runs : q # r => /\ taken'[q] = taken[q] /\ todo'[q] = todo[q]
                                 /\ opt'[q] = opt[q] /\ left'[q] = left[q]
    BY <2>1 DEF AnalysisOK
  <2>3. taken'[r] = [f \in Files |-> Unread] /\ todo'[r] = {}
    BY <2>1 DEF AnalysisOK
  <2>4. QED
    BY <1>0, <2>2, <2>3 DEF Ahead
<1>2. ASSUME NEW r \in Runs, NEW d \in left[r], List(r, d)
      PROVE  Ahead'
  <2>1. phase[r] = "walking" /\ opt[r] \in Requests /\ left[r] \subseteq opt[r].roots
    BY <1>2 DEF List, AnalysisOK
  <2>2. /\ UNCHANGED <<taken, opt>>
        /\ \A q \in Runs : q # r => todo'[q] = todo[q] /\ left'[q] = left[q]
        /\ left'[r] = left[r] \ {d} /\ todo'[r] \subseteq Walk(opt[r], d)
    BY <1>2 DEF List, AnalysisOK
  <2>3. ASSUME NEW e \in left'[r], NEW f \in Walk(opt[r], e)
        PROVE  taken[r][f] = Unread /\ f \notin todo'[r]
    BY <1>2, <2>1, <2>2, WalksAreDisjoint DEF Ahead
  <2>4. QED
    BY <2>2, <2>3 DEF Ahead
<1>3. ASSUME NEW r \in Runs, NEW f \in todo[r], ReadSource(r, f)
      PROVE  Ahead'
  <2>1. f \in Files /\ UNCHANGED <<opt, left, todo>>
    BY <1>3 DEF ReadSource, AnalysisOK
  <2>2. \A q \in Runs, g \in Files : q # r \/ g # f => taken'[q][g] = taken[q][g]
    BY <1>3 DEF ReadSource, AnalysisOK
  <2>3. QED
    BY <1>0, <1>3, <2>1, <2>2 DEF Ahead
<1>4. ASSUME NEW r \in Runs, NEW f \in todo[r], Analyse(r, f)
      PROVE  Ahead'
  <2>1. UNCHANGED <<opt, left, taken>> /\ \A q \in Runs : todo'[q] \subseteq todo[q]
    BY <1>4 DEF Analyse, AnalysisOK
  <2>2. QED
    BY <2>1 DEF Ahead
<1>5. ASSUME NEW r \in Runs, Die(r)
      PROVE  Ahead'
  <2>1. /\ opt' = opt /\ left'[r] = {}
        /\ \A q \in Runs : q # r => /\ taken'[q] = taken[q] /\ todo'[q] = todo[q]
                                    /\ left'[q] = left[q]
    BY <1>5 DEF Die, Cleared, AnalysisOK
  <2>2. QED
    BY <2>1 DEF Ahead
<1>6. ASSUME UNCHANGED <<opt, left, todo, taken>>
      PROVE  Ahead'
  BY <1>6 DEF Ahead
<1>7. ASSUME NEW r \in Runs, OpenCache(r) \/ Save(r) \/ FinishRun(r)
      PROVE  UNCHANGED <<opt, left, todo, taken>>
  BY <1>7 DEF OpenCache, Save, FinishRun
<1>8. ASSUME \/ \E f \in Files : Edit(f)
             \/ Rebuild \/ Lose \/ UNCHANGED analysisVars
      PROVE  UNCHANGED <<opt, left, todo, taken>>
  BY <1>8 DEF Edit, Rebuild, Lose, analysisVars
<1>9. QED
  BY <1>1, <1>2, <1>3, <1>4, <1>5, <1>6, <1>7, <1>8 DEF AnalysisNext, Step

LEMMA InitAhead == AnalysisInit => Ahead
  BY DEF AnalysisInit, Ahead

(* The deepest member above a file that a walk finds is the walked one. *)
LEMMA WalkersOwn ==
    ASSUME NEW o \in Requests, NEW d \in o.roots, NEW f \in Walk(o, d)
    PROVE  Owner(o, f, d)
<1>1. ASSUME NEW n \in o.roots \cup o.kept, Above(n, f)
      PROVE  Len(n) <= Len(d)
  <2>1. n \in Seq(STRING) /\ d \in Seq(STRING) /\ f \in Seq(STRING)
    BY RequestFacts, FilesAssumption DEF Walk
  <2>2. Len(n) \in Nat /\ Len(d) \in Nat
    BY <2>1
  <2>3. SUFFICES ASSUME Len(d) < Len(n)
                 PROVE  FALSE
    BY <2>2
  <2>4. Above(d, n) /\ n # d
    BY <1>1, <2>2, <2>3 DEF Above, Walk
  <2>5. QED
    BY <1>1, <2>4 DEF Walk
<1>2. QED
  BY <1>1 DEF Owner, Walk

(* "Each file is analyzed once, by the member that owns it", whatever the  *)
(* members' directories are and whichever of them are selected.            *)
THEOREM OneAnalysisEach == AnalysisSpec => OwnersOnly
<1>1. AnalysisOK /\ Ahead /\ [AnalysisNext]_analysisVars =>
        [\A r \in Runs : \A f \in todo'[r] \ todo[r] :
           /\ taken[r][f] = Unread
           /\ \E d \in left[r] \ left'[r] : Owner(opt[r], f, d)]_analysisVars
  <2> SUFFICES ASSUME AnalysisOK, Ahead, [AnalysisNext]_analysisVars,
                      NEW r \in Runs, NEW f \in todo'[r] \ todo[r]
               PROVE  /\ taken[r][f] = Unread
                      /\ \E d \in left[r] \ left'[r] : Owner(opt[r], f, d)
    OBVIOUS
  <2>1. ASSUME NEW q \in Runs, StartRun(q) \/ Die(q)
        PROVE  todo'[r] \subseteq todo[r]
    BY <2>1 DEF StartRun, Die, Cleared, AnalysisOK
  <2>2. ASSUME NEW q \in Runs, OpenCache(q) \/ Save(q) \/ FinishRun(q)
        PROVE  todo' = todo
    BY <2>2 DEF OpenCache, Save, FinishRun
  <2>3. ASSUME NEW q \in Runs, NEW g \in todo[q], ReadSource(q, g) \/ Analyse(q, g)
        PROVE  todo'[r] \subseteq todo[r]
    <3>1. CASE ReadSource(q, g)
      BY <3>1 DEF ReadSource
    <3>2. CASE Analyse(q, g)
      <4>1. todo' = [todo EXCEPT ![q] = todo[q] \ {g}]
        BY <3>2, Zenon DEF Analyse
      <4>2. QED
        BY <4>1 DEF AnalysisOK
    <3>3. QED
      BY <2>3, <3>1, <3>2
  <2>4. ASSUME \/ \E g \in Files : Edit(g)
               \/ Rebuild \/ Lose \/ UNCHANGED analysisVars
        PROVE  todo' = todo
    BY <2>4 DEF Edit, Rebuild, Lose, analysisVars
  <2>9. PICK q \in Runs : \E d \in left[q] : List(q, d)
    BY <2>1, <2>2, <2>3, <2>4 DEF AnalysisNext, Step
  <2>5. PICK d \in left[q] : List(q, d)
    BY <2>9
  <2>6. q = r /\ f \in Walk(opt[r], d) /\ d \in left[r] \ left'[r]
    BY <2>5 DEF List, AnalysisOK
  <2>7. opt[r] \in Requests /\ d \in opt[r].roots
    BY <2>5, <2>6 DEF List, AnalysisOK
  <2>8. QED
    BY <2>6, <2>7, WalkersOwn DEF Ahead
<1>2. QED
  BY <1>1, InitType, TypeStep, InitAhead, AheadStep, PTL DEF AnalysisSpec, OwnersOnly

-----------------------------------------------------------------------------
LEMMA InitMine == AnalysisInit => Mine
  BY DEF AnalysisInit, Mine, Empty

(* What a run has to do with a file, the file's owner sent it to do. *)
LEMMA MineStep == AnalysisOK /\ Mine /\ [AnalysisNext]_analysisVars => Mine'
<1> SUFFICES ASSUME AnalysisOK, Mine, [AnalysisNext]_analysisVars,
                    NEW q \in Runs, NEW g \in Files,
                    g \in todo'[q] \/ records'[q][g] # Nil
             PROVE  Owned(opt'[q], g)
  BY DEF Mine
<1>u. ASSUME opt'[q] = opt[q], g \in todo[q] \/ records[q][g] # Nil
      PROVE  Owned(opt'[q], g)
  BY <1>u DEF Mine
<1>1. ASSUME NEW r \in Runs, StartRun(r) \/ Die(r)
      PROVE  Owned(opt'[q], g)
  <2>1. Cleared(r)
    BY <1>1 DEF StartRun, Die
  <2>2. q # r
    BY <2>1 DEF Cleared, AnalysisOK, Empty
  <2>3. opt'[q] = opt[q] /\ todo'[q] = todo[q] /\ records'[q] = records[q]
    BY <1>1, <2>1, <2>2 DEF StartRun, Die, Cleared, AnalysisOK
  <2>4. QED
    BY <1>u, <2>3
<1>2. ASSUME NEW r \in Runs, NEW d \in left[r], List(r, d)
      PROVE  Owned(opt'[q], g)
  <2>1. /\ UNCHANGED <<opt, records>> /\ opt[r] \in Requests /\ d \in opt[r].roots
        /\ todo'[r] \subseteq Walk(opt[r], d) /\ (q # r => todo'[q] = todo[q])
    BY <1>2 DEF List, AnalysisOK
  <2>2. CASE q = r /\ g \in todo'[r]
    BY <2>1, <2>2, WalkersOwn DEF Owned
  <2>3. QED
    BY <1>u, <2>1, <2>2
<1>3. ASSUME NEW r \in Runs, NEW f \in todo[r], Analyse(r, f)
      PROVE  Owned(opt'[q], g)
  <2>0. PICK parsed : parsed = Analysis(alg[r], opt[r].weight, taken[r][f])
    OBVIOUS
  <2>1. UNCHANGED opt /\ f \in Files
    BY <1>3 DEF Analyse, AnalysisOK
  <2>2. todo' = [todo EXCEPT ![r] = todo[r] \ {f}]
    BY <1>3, Zenon DEF Analyse
  <2>3. \/ records' = records
        \/ records' = [records EXCEPT ![r][f] = entries[r][f]]
        \/ records' = [records EXCEPT ![r][f] = Record(r, f, parsed)]
    BY <1>3, <2>0, AnalyseCases
  <2>4. todo'[q] \subseteq todo[q]
    BY <2>2 DEF AnalysisOK
  <2>5. records'[q][g] = records[q][g] \/ (q = r /\ g = f)
    BY <2>3 DEF AnalysisOK
  <2>6. QED
    BY <1>u, <2>1, <2>4, <2>5
<1>4. ASSUME NEW r \in Runs, \/ OpenCache(r) \/ Save(r) \/ FinishRun(r)
                             \/ \E f \in todo[r] : ReadSource(r, f)
      PROVE  UNCHANGED <<opt, todo, records>>
  BY <1>4 DEF OpenCache, Save, FinishRun, ReadSource
<1>5. ASSUME \/ \E f \in Files : Edit(f)
             \/ Rebuild \/ Lose \/ UNCHANGED analysisVars
      PROVE  UNCHANGED <<opt, todo, records>>
  BY <1>5 DEF Edit, Rebuild, Lose, analysisVars
<1>6. QED
  BY <1>u, <1>1, <1>2, <1>3, <1>4, <1>5 DEF AnalysisNext, Step

(* Among the walked roots above a file one is the deepest. *)
LEMMA DeepestRoot ==
    ASSUME NEW o \in Requests, NEW f \in Files, NEW w \in o.roots, Above(w, f)
    PROVE  \E d \in o.roots : /\ Above(d, f)
                              /\ \A n \in o.roots : Above(n, f) => Len(n) <= Len(d)
<1> DEFINE Over == {n \in o.roots : Above(n, f)}
           Depths == {Len(n) : n \in Over}
<1>1. \A n \in Over : Len(n) \in Nat
  BY RequestFacts
<1>2. Len(f) \in Nat
  BY FilesAssumption
<1>3. Depths \in SUBSET Nat /\ Depths # {}
  BY <1>1
<1>4. \A k \in Depths : k <= Len(f)
  BY DEF Above
<1> HIDE DEF Depths
<1>5. PICK m \in Depths : \A k \in Depths : k <= m
  BY <1>2, <1>3, <1>4, GreatestNumber
<1>6. QED
  BY <1>5 DEF Depths

(* A save evicts what the members it walked own, and nothing else: the two *)
(* ways in which the code tells whose a file is agree.                     *)
LEMMA EvictsTheOwned ==
    ASSUME NEW o \in Requests, NEW f \in Files
    PROVE  Evicted(o, f) <=> Owned(o, f)
<1>1. ASSUME Owned(o, f)
      PROVE  Evicted(o, f)
  BY <1>1 DEF Owned, Owner, Evicted
<1>2. ASSUME Evicted(o, f)
      PROVE  Owned(o, f)
  <2>1. PICK w \in o.roots : /\ Above(w, f)
                             /\ \A k \in o.kept : Above(k, f) => Len(w) >= Len(k)
    BY <1>2 DEF Evicted
  <2>2. PICK d \in o.roots : /\ Above(d, f)
                             /\ \A n \in o.roots : Above(n, f) => Len(n) <= Len(d)
    BY <2>1, DeepestRoot
  <2>3. \A n \in o.roots \cup o.kept : Len(n) \in Nat
    BY RequestFacts
  <2>4. Len(w) <= Len(d)
    BY <2>1, <2>2
  <2>5. \A k \in o.kept : Above(k, f) => Len(k) <= Len(d)
    BY <2>1, <2>3, <2>4
  <2>6. QED
    BY <2>2, <2>5 DEF Owned, Owner
<1>3. QED
  BY <1>1, <1>2

(* "Only what a run walked is evicted", however the members' directories   *)
(* are nested and whichever of them are selected.                          *)
THEOREM OnlyTheWalkedIsEvicted == AnalysisSpec => SavesItsShare
<1>1. AnalysisOK /\ Mine /\ [AnalysisNext]_analysisVars =>
        [\A r \in Runs : Save(r) =>
           \A f \in Files :
              IF Owned(opt[r], f)
                THEN disk'.files[f] = records[r][f]
                ELSE disk = [header |-> header[r], files |-> entries[r]]
                       => disk'.files[f] = disk.files[f]]_analysisVars
  <2> SUFFICES ASSUME AnalysisOK, Mine, NEW r \in Runs, Save(r), NEW f \in Files
               PROVE  IF Owned(opt[r], f)
                        THEN disk'.files[f] = records[r][f]
                        ELSE disk = [header |-> header[r], files |-> entries[r]]
                               => disk'.files[f] = disk.files[f]
    OBVIOUS
  <2>1. disk'.files[f] = IF records[r][f] # Nil THEN records[r][f] ELSE CarriedOver(r, f)
    BY DEF Save
  <2>2. opt[r] \in Requests
    BY DEF Save, Walked, AnalysisOK
  <2>3. Evicted(opt[r], f) <=> Owned(opt[r], f)
    BY <2>2, EvictsTheOwned
  <2>4. CASE Owned(opt[r], f)
    BY <2>1, <2>3, <2>4 DEF CarriedOver
  <2>5. CASE ~Owned(opt[r], f)
    <3>1. records[r][f] = Nil
      BY <2>5 DEF Mine
    <3>2. disk'.files[f] = entries[r][f]
      BY <2>1, <2>3, <2>5, <3>1 DEF CarriedOver
    <3>3. QED
      BY <2>5, <3>2
  <2>6. QED
    BY <2>4, <2>5
<1>2. QED
  BY <1>1, InitType, TypeStep, InitMine, MineStep, PTL DEF AnalysisSpec, SavesItsShare

-----------------------------------------------------------------------------
(* From here on an executable is told from the one that replaced it.       *)

LEMMA InitSound == AnalysisInit => CacheIsSound /\ AsUncached /\ HoldsItsOwn
  BY NothingsAssumption DEF AnalysisInit, CacheIsSound, AsUncached, HoldsItsOwn, NoCache, Empty

LEMMA HoldsItsOwnStep ==
    ASSUME ~ByName, AnalysisOK, CacheIsSound, HoldsItsOwn, [AnalysisNext]_analysisVars
    PROVE  HoldsItsOwn'
<1> DEFINE Own(r) ==
      /\ header[r] # Nil => header[r] = [exe |-> alg[r], weight |-> opt[r].weight]
      /\ \A f \in Files :
           /\ entries[r][f] # Nil => Holds(header[r], entries[r][f])
           /\ records[r][f] # Nil => Holds(header[r], records[r][f])
<1>0. \A r \in Runs : Own(r)
  BY DEF HoldsItsOwn
<1>u. ASSUME NEW r \in Runs, header'[r] = header[r], entries'[r] = entries[r],
             records'[r] = records[r], alg'[r] = alg[r], opt'[r] = opt[r]
      PROVE  Own(r)'
  BY <1>0, <1>u DEF Holds
<1>c. ASSUME NEW r \in Runs, Cleared(r)
      PROVE  Own(r)'
  BY <1>c DEF Cleared, AnalysisOK, Empty
<1> SUFFICES ASSUME NEW q \in Runs
             PROVE  Own(q)'
  BY DEF HoldsItsOwn
<1>1. ASSUME NEW r \in Runs, StartRun(r) \/ Die(r)
      PROVE  Own(q)'
  <2>1. Cleared(r)
    BY <1>1 DEF StartRun, Die
  <2>2. CASE q = r
    BY <1>c, <2>1, <2>2
  <2>3. CASE q # r
    <3>1. /\ header'[q] = header[q] /\ entries'[q] = entries[q] /\ records'[q] = records[q]
          /\ alg'[q] = alg[q] /\ opt'[q] = opt[q]
      BY <1>1, <2>1, <2>3 DEF StartRun, Die, Cleared, AnalysisOK
    <3>2. QED
      BY <1>u, <3>1
  <2>4. QED
    BY <2>2, <2>3
<1>2. ASSUME NEW r \in Runs, OpenCache(r)
      PROVE  Own(q)'
  <2>0. PICK h : h = [exe |-> exe, weight |-> opt[r].weight]
    OBVIOUS
  <2>1. /\ UNCHANGED <<alg, opt, records>>
        /\ \/ /\ Identified(r)
              /\ header' = [header EXCEPT ![r] = h]
              /\ \/ entries' = [entries EXCEPT ![r] = Load(h)]
                 \/ entries' = [entries EXCEPT ![r] = Empty]
           \/ UNCHANGED <<header, entries>>
    BY <1>2, <2>0 DEF OpenCache
  <2>2. CASE q # r \/ UNCHANGED <<header, entries>>
    <3>1. header'[q] = header[q] /\ entries'[q] = entries[q]
      BY <2>1, <2>2 DEF AnalysisOK
    <3>2. QED
      BY <1>u, <2>1, <3>1
  <2>3. CASE q = r /\ ~UNCHANGED <<header, entries>>
    <3>1. h = [exe |-> alg[r], weight |-> opt[r].weight] /\ h # Nil
      <4>1. exe = alg[r]
        BY <2>1, <2>3 DEF Identified
      <4>2. opt[r] \in Requests
        BY <1>2 DEF OpenCache, AnalysisOK
      <4>3. h \in Header
        BY <2>0, <4>2, RequestFacts DEF AnalysisOK, Header
      <4>4. QED
        BY <2>0, <4>1, <4>3, NothingsAssumption
    <3>2. header'[r] = h /\ (entries'[r] = Load(h) \/ entries'[r] = Empty)
      BY <2>1, <2>3 DEF AnalysisOK
    <3>3. ASSUME NEW f \in Files, entries'[r][f] # Nil
          PROVE  Holds(h, entries'[r][f])
      BY <3>2, <3>3 DEF Load, Matches, Empty, CacheIsSound
    <3>4. ASSUME NEW f \in Files, records[r][f] # Nil
          PROVE  Holds(h, records[r][f])
      <4>1. header[r] = h
        BY <1>0, <3>1, <3>4 DEF Holds
      <4>2. QED
        BY <1>0, <3>4, <4>1
    <3>5. QED
      BY <2>1, <2>3, <3>1, <3>2, <3>3, <3>4 DEF Holds
  <2>4. QED
    BY <2>2, <2>3
<1>3. ASSUME NEW r \in Runs, NEW f \in todo[r], Analyse(r, f)
      PROVE  Own(q)'
  <2>0. PICK parsed : parsed = Analysis(alg[r], opt[r].weight, taken[r][f])
    OBVIOUS
  <2>1. UNCHANGED <<alg, opt, header, entries>>
    BY <1>3 DEF Analyse
  <2>2. f \in Files
    BY <1>3 DEF AnalysisOK
  <2>3. \/ records' = records
        \/ Hit(r, f) /\ records' = [records EXCEPT ![r][f] = entries[r][f]]
        \/ header[r] # Nil /\ records' = [records EXCEPT ![r][f] = Record(r, f, parsed)]
    BY <1>3, <2>0, AnalyseCases
  <2>4. CASE records'[q] = records[q]
    BY <1>u, <2>1, <2>4
  <2>5. CASE q = r /\ records'[q] # records[q]
    <3>1. ASSUME NEW g \in Files, g # f
          PROVE  records'[r][g] = records[r][g]
      BY <2>3, <3>1 DEF AnalysisOK
    <3>2. \/ records'[r][f] = entries[r][f]
          \/ header[r] # Nil /\ records'[r][f] = Record(r, f, parsed)
      BY <2>2, <2>3, <2>5 DEF AnalysisOK
    <3>3. ASSUME header[r] # Nil
          PROVE  Holds(header[r], Record(r, f, parsed))
      <4>1. header[r] = [exe |-> alg[r], weight |-> opt[r].weight]
        BY <1>0, <3>3
      <4>2. header[r].exe = alg[r] /\ header[r].weight = opt[r].weight
        BY <4>1
      <4>3. /\ Record(r, f, parsed).functions = parsed
            /\ Record(r, f, parsed).content = taken[r][f]
        BY DEF Record
      <4>4. QED
        BY <2>0, <3>3, <4>2, <4>3 DEF Holds
    <3>4. records'[r][f] # Nil => Holds(header[r], records'[r][f])
      BY <1>0, <2>2, <3>2, <3>3
    <3>5. QED
      BY <1>0, <2>1, <2>5, <3>1, <3>4 DEF Holds
  <2>6. q # r => records'[q] = records[q]
    BY <2>3 DEF AnalysisOK
  <2>7. QED
    BY <2>4, <2>5, <2>6
<1>4. ASSUME UNCHANGED <<header, entries, records, alg, opt>>
      PROVE  Own(q)'
  BY <1>u, <1>4
<1>5. ASSUME NEW r \in Runs, Save(r) \/ FinishRun(r)
      PROVE  UNCHANGED <<header, entries, records, alg, opt>>
  BY <1>5 DEF Save, FinishRun
<1>6. ASSUME NEW r \in Runs, \/ \E d \in left[r] : List(r, d)
                             \/ \E f \in todo[r] : ReadSource(r, f)
      PROVE  UNCHANGED <<header, entries, records, alg, opt>>
  BY <1>6 DEF List, ReadSource
<1>7. ASSUME \/ \E f \in Files : Edit(f)
             \/ Rebuild \/ Lose \/ UNCHANGED analysisVars
      PROVE  UNCHANGED <<header, entries, records, alg, opt>>
  BY <1>7 DEF Edit, Rebuild, Lose, analysisVars
<1> HIDE DEF Own
<1>8. QED
  BY <1>1, <1>2, <1>3, <1>4, <1>5, <1>6, <1>7 DEF AnalysisNext, Step

LEMMA CacheStep ==
    ASSUME AnalysisOK, CacheIsSound, HoldsItsOwn, [AnalysisNext]_analysisVars
    PROVE  CacheIsSound'
<1>1. ASSUME NEW r \in Runs, Save(r)
      PROVE  CacheIsSound'
  <2>1. /\ disk'.header = header[r]
        /\ \A f \in Files : \/ disk'.files[f] = records[r][f] /\ records[r][f] # Nil
                            \/ disk'.files[f] = CarriedOver(r, f)
    BY <1>1 DEF Save
  <2>2. \A f \in Files : CarriedOver(r, f) = Nil \/ CarriedOver(r, f) = entries[r][f]
    BY DEF CarriedOver
  <2>3. ASSUME NEW f \in Files, disk'.files[f] # Nil
        PROVE  Holds(header[r], disk'.files[f])
    BY <2>1, <2>2, <2>3 DEF HoldsItsOwn
  <2>4. QED
    BY <2>1, <2>3 DEF CacheIsSound, Holds
<1>2. CASE Lose
  BY <1>2 DEF Lose, CacheIsSound, NoCache, Empty
<1>3. CASE disk' = disk
  BY <1>3 DEF CacheIsSound, Holds
<1>4. ASSUME NEW r \in Runs, \/ StartRun(r) \/ OpenCache(r) \/ FinishRun(r) \/ Die(r)
                             \/ \E d \in left[r] : List(r, d)
                             \/ \E f \in todo[r] : ReadSource(r, f) \/ Analyse(r, f)
      PROVE  disk' = disk
  BY <1>4 DEF StartRun, OpenCache, FinishRun, Die, List, ReadSource, Analyse
<1>5. ASSUME (\E f \in Files : Edit(f)) \/ Rebuild \/ UNCHANGED analysisVars
      PROVE  disk' = disk
  BY <1>5 DEF Edit, Rebuild, analysisVars
<1>6. QED
  BY <1>1, <1>2, <1>3, <1>4, <1>5 DEF AnalysisNext, Step

(* What a run has to report of one file. *)
Due(r, f) == IF taken[r][f] \in FileContents /\ f \notin todo[r]
               THEN Analysis(alg[r], opt[r].weight, taken[r][f])
               ELSE Nil

LEMMA ReportStep ==
    ASSUME AnalysisOK, Ahead, AsUncached, HoldsItsOwn, [AnalysisNext]_analysisVars
    PROVE  AsUncached'
<1>0. \A r \in Runs, f \in Files : functions[r][f] = Due(r, f)
  BY DEF AsUncached, Due
<1> SUFFICES ASSUME NEW q \in Runs, NEW g \in Files
             PROVE  functions'[q][g] = Due(q, g)'
  BY DEF AsUncached, Due
<1>u. ASSUME functions'[q] = functions[q], taken'[q] = taken[q], todo'[q] = todo[q],
             alg'[q] = alg[q], opt'[q] = opt[q]
      PROVE  functions'[q][g] = Due(q, g)'
  BY <1>0, <1>u DEF Due
<1>1. ASSUME NEW r \in Runs, StartRun(r) \/ Die(r)
      PROVE  functions'[q][g] = Due(q, g)'
  <2>1. Cleared(r)
    BY <1>1 DEF StartRun, Die
  <2>2. CASE q = r
    <3>1. functions'[q][g] = Nil /\ taken'[q][g] = Unread
      BY <2>1, <2>2 DEF Cleared, AnalysisOK, Empty
    <3>2. QED
      BY <3>1, NothingsAssumption DEF Due
  <2>3. CASE q # r
    <3>1. /\ functions'[q] = functions[q] /\ taken'[q] = taken[q] /\ todo'[q] = todo[q]
          /\ alg'[q] = alg[q] /\ opt'[q] = opt[q]
      BY <1>1, <2>1, <2>3 DEF StartRun, Die, Cleared, AnalysisOK
    <3>2. QED
      BY <1>u, <3>1
  <2>4. QED
    BY <2>2, <2>3
<1>2. ASSUME NEW r \in Runs, NEW d \in left[r], List(r, d)
      PROVE  functions'[q][g] = Due(q, g)'
  <2>1. /\ UNCHANGED <<functions, taken, alg, opt>>
        /\ todo[r] = {} /\ todo'[r] \subseteq Walk(opt[r], d)
        /\ q # r => todo'[q] = todo[q]
    BY <1>2 DEF List, AnalysisOK
  <2>2. CASE q = r /\ g \in todo'[r]
    <3>1. taken[r][g] = Unread
      BY <1>2, <2>1, <2>2 DEF Ahead
    <3>2. QED
      BY <1>0, <2>1, <2>2, <3>1, NothingsAssumption DEF Due
  <2>3. CASE q = r /\ g \notin todo'[r]
    BY <1>0, <2>1, <2>3 DEF Due
  <2>4. QED
    BY <1>u, <2>1, <2>2, <2>3
<1>3. ASSUME NEW r \in Runs, NEW f \in todo[r], ReadSource(r, f)
      PROVE  functions'[q][g] = Due(q, g)'
  <2>1. /\ UNCHANGED <<functions, todo, alg, opt>> /\ f \in Files
        /\ taken[r][f] = Unread
        /\ q # r \/ g # f => taken'[q][g] = taken[q][g]
    BY <1>3 DEF ReadSource, AnalysisOK
  <2>2. CASE q = r /\ g = f
    BY <1>0, <1>3, <2>1, <2>2 DEF Due
  <2>3. CASE q # r \/ g # f
    BY <1>0, <2>1, <2>3 DEF Due
  <2>4. QED
    BY <2>2, <2>3
<1>4. ASSUME NEW r \in Runs, NEW f \in todo[r], Analyse(r, f)
      PROVE  functions'[q][g] = Due(q, g)'
  <2>0. PICK parsed : parsed = Analysis(alg[r], opt[r].weight, taken[r][f])
    OBVIOUS
  <2>1. UNCHANGED <<taken, alg, opt>> /\ f \in Files /\ taken[r][f] # Unread
    BY <1>4 DEF Analyse, AnalysisOK
  <2>2. todo' = [todo EXCEPT ![r] = todo[r] \ {f}]
    BY <1>4, Zenon DEF Analyse
  <2>3. \/ Hit(r, f) /\ functions' = [functions EXCEPT ![r][f] = entries[r][f].functions]
        \/ taken[r][f] # Absent /\ functions' = [functions EXCEPT ![r][f] = parsed]
        \/ (taken[r][f] = Absent \/ parsed = Nil) /\ functions' = functions
    BY <1>4, <2>0, AnalyseCases
  <2>4. CASE q = r /\ g = f
    <3>1. f \notin todo'[r] /\ functions[r][f] = Nil
      BY <1>0, <1>4, <2>1, <2>2 DEF AnalysisOK, Due
    <3>2. CASE Hit(r, f) /\ functions' = [functions EXCEPT ![r][f] = entries[r][f].functions]
      <4>1. /\ entries[r][f] # Nil /\ entries[r][f] \in FileEntry /\ header[r] # Nil
            /\ entries[r][f].content = taken[r][f]
        BY <2>1, <3>2 DEF Hit, AnalysisOK
      <4>2. /\ taken[r][f] \in FileContents
            /\ header[r].exe = alg[r] /\ header[r].weight = opt[r].weight
        <5>1. entries[r][f].content \in FileContents
          BY <4>1 DEF FileEntry
        <5>2. header[r] = [exe |-> alg[r], weight |-> opt[r].weight]
          BY <4>1 DEF HoldsItsOwn
        <5>3. QED
          BY <4>1, <5>1, <5>2
      <4>3. entries[r][f].functions = parsed
        <5>1. Holds(header[r], entries[r][f])
          BY <2>1, <4>1 DEF HoldsItsOwn
        <5>2. QED
          BY <2>0, <4>1, <4>2, <5>1 DEF Holds
      <4>4. functions'[r][f] = entries[r][f].functions
        BY <2>1, <3>2 DEF AnalysisOK
      <4>5. QED
        BY <2>0, <2>1, <2>4, <3>1, <4>2, <4>3, <4>4 DEF Due
    <3>3. CASE taken[r][f] # Absent /\ functions' = [functions EXCEPT ![r][f] = parsed]
      <4>1. taken[r][f] \in FileContents
        BY <2>1, <3>3 DEF AnalysisOK
      <4>2. functions'[r][f] = parsed
        BY <2>1, <3>3 DEF AnalysisOK
      <4>3. QED
        BY <2>0, <2>1, <2>4, <3>1, <4>1, <4>2 DEF Due
    <3>4. CASE (taken[r][f] = Absent \/ parsed = Nil) /\ functions' = functions
      BY <2>0, <2>1, <2>4, <3>1, <3>4, NothingsAssumption DEF Due
    <3>5. QED
      BY <2>3, <3>2, <3>3, <3>4
  <2>5. CASE q # r \/ g # f
    <3>1. functions'[q][g] = functions[q][g]
      BY <2>3, <2>5 DEF AnalysisOK
    <3>2. g \in todo'[q] <=> g \in todo[q]
      BY <2>2, <2>5 DEF AnalysisOK
    <3>3. QED
      BY <1>0, <2>1, <3>1, <3>2 DEF Due
  <2>6. QED
    BY <2>4, <2>5
<1>5. ASSUME NEW r \in Runs, OpenCache(r) \/ Save(r) \/ FinishRun(r)
      PROVE  UNCHANGED <<functions, taken, todo, alg, opt>>
  BY <1>5 DEF OpenCache, Save, FinishRun
<1>6. ASSUME \/ \E f \in Files : Edit(f)
             \/ Rebuild \/ Lose \/ UNCHANGED analysisVars
      PROVE  UNCHANGED <<functions, taken, todo, alg, opt>>
  BY <1>6 DEF Edit, Rebuild, Lose, analysisVars
<1>7. QED
  BY <1>u, <1>1, <1>2, <1>3, <1>4, <1>5, <1>6 DEF AnalysisNext, Step

-----------------------------------------------------------------------------
(* The inductive invariant, where an executable is told from the one that  *)
(* replaced it.                                                            *)
THEOREM AnalysisInvariance == ASSUME ~ByName PROVE AnalysisSpec => []AnalysisInv
<1>1. AnalysisInit => AnalysisInv
  BY InitType, InitAhead, InitMine, InitSound DEF AnalysisInv
<1>2. AnalysisInv /\ [AnalysisNext]_analysisVars => AnalysisInv'
  BY TypeStep, AheadStep, MineStep, HoldsItsOwnStep, CacheStep, ReportStep DEF AnalysisInv
<1>3. QED
  BY <1>1, <1>2, PTL DEF AnalysisSpec

(* No run, whichever others it overlaps with, stores what a run under the  *)
(* same header would not have found for itself.                            *)
THEOREM StoredAsFound == ASSUME ~ByName PROVE AnalysisSpec => []CacheIsSound
<1>1. AnalysisInv => CacheIsSound
  BY DEF AnalysisInv
<1>2. QED
  BY <1>1, AnalysisInvariance, PTL

(* "Transparency": a run reports exactly what it would without a cache.    *)
THEOREM Transparency == ASSUME ~ByName PROVE AnalysisSpec => []AsUncached
<1>1. AnalysisInv => AsUncached
  BY DEF AnalysisInv
<1>2. QED
  BY <1>1, AnalysisInvariance, PTL
=============================================================================
