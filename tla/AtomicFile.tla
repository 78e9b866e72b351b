----------------------------- MODULE AtomicFile -----------------------------
(***************************************************************************)
(* src/cache/file.rs: `write_atomic' and `read_retrying', the two          *)
(* operations under every on-disk cache (verdicts, complexity records).    *)
(*                                                                         *)
(* Several processes share one cache directory, each with several worker   *)
(* threads.  The model follows one file of it, Target: the temporary name  *)
(* of a write contains the name of the file it replaces, so writes of two  *)
(* different files never touch the same name.                              *)
(*                                                                         *)
(* The file system is directory entries over inodes: a reader that opened  *)
(* the file goes on reading the inode it opened, whatever name is given to *)
(* another inode in the meantime.                                          *)
(***************************************************************************)
EXTENDS Naturals, FiniteSets

CONSTANTS Procs,        \* the cargo-crap processes sharing target/
          Writers,      \* the worker threads that write
          Home,         \* the process each writer belongs to
          Readers,      \* the readers, of any process
          Pids,         \* the operating system's process ids, reused freely
          NoPid,        \* the pid of a process that is not running
          Contents,     \* the whole contents a write may carry
          Torn,         \* a file created or truncated and not yet complete
          NoFile,       \* what a read of a missing file finds
          Denied,       \* what a read refused on every try ends with
          Inodes,       \* the file system's inodes
          NoInode,      \* where a name that is not linked points
          Target,       \* the name of the cache file
          MaxTemp,      \* bound on NEXT_TEMP within one process's life
          ReadAttempts  \* READ_ATTEMPTS

ASSUME HomeAssumption == Home \in [Writers -> Procs]
ASSUME DistinctAssumption ==
    /\ Torn \notin Contents /\ NoFile \notin Contents \cup {Torn}
    /\ Denied \notin Contents \cup {Torn, NoFile} \cup Inodes \cup {NoInode}
    /\ NoPid \notin Pids /\ NoInode \notin Inodes
    /\ Target \notin Pids \X Nat
ASSUME BoundAssumption == MaxTemp \in Nat /\ ReadAttempts \in Nat \ {0}

(* The temporary names: the process id and the number NEXT_TEMP gave. *)
TempNames == Pids \X Nat
Names == {Target} \cup (Pids \X (0 .. MaxTemp))

VARIABLES pid,      \* each process's id, NoPid while it is not running
          next,     \* NEXT_TEMP of each process
          pc,       \* where each writer is in write_atomic
          temp,     \* the temporary name it was given, Target while it has none
          bytes,    \* the content it is writing, Torn while it writes none
          fd,       \* the inode it holds open
          dir,      \* the directory: the inode each name is linked to
          data,     \* what each inode holds
          rpc,      \* "idle", "trying", "pausing" or "reading"
          tries,    \* how many tries of the read were denied
          view,     \* what the latest open found: an inode, NoInode or Denied
          tidy      \* no crash and no failed removal has interrupted a write yet

writerVars == <<pc, temp, bytes, fd>>
readerVars == <<rpc, tries, view>>
diskVars == <<dir, data>>
procVars == <<pid, next>>
vars == <<pid, next, pc, temp, bytes, fd, dir, data, rpc, tries, view, tidy>>

Stages == {"idle", "create", "fill", "rename", "replacing", "cleanup"}

Running(p) == pid[p] # NoPid
Active(w) == pc[w] # "idle"

(* No name, no open file and no reader refers to the inode.  A reader      *)
(* keeps the inode of its latest read until its next one, so that what the *)
(* read found stays visible.                                               *)
Free(i) == /\ \A n \in Names : dir[n] # i
           /\ \A w \in Writers : fd[w] # i
           /\ \A r \in Readers : view[r] # i

TypeOK ==
    /\ pid \in [Procs -> Pids \cup {NoPid}]
    /\ next \in [Procs -> 0 .. MaxTemp + 1]
    /\ pc \in [Writers -> Stages]
    /\ temp \in [Writers -> Names]
    /\ bytes \in [Writers -> Contents \cup {Torn}]
    /\ fd \in [Writers -> Inodes \cup {NoInode}]
    /\ dir \in [Names -> Inodes \cup {NoInode}]
    /\ data \in [Inodes -> Contents \cup {Torn}]
    /\ rpc \in [Readers -> {"idle", "trying", "pausing", "reading"}]
    /\ tries \in [Readers -> 0 .. ReadAttempts]
    /\ view \in [Readers -> Inodes \cup {NoInode, Denied}]
    /\ tidy \in BOOLEAN

Init ==
    /\ pid = [p \in Procs |-> NoPid]
    /\ next = [p \in Procs |-> 0]
    /\ pc = [w \in Writers |-> "idle"]
    /\ temp = [w \in Writers |-> Target]
    /\ bytes = [w \in Writers |-> Torn]
    /\ fd = [w \in Writers |-> NoInode]
    /\ dir = [n \in Names |-> NoInode]
    /\ data = [i \in Inodes |-> Torn]
    /\ rpc = [r \in Readers |-> "idle"]
    /\ tries = [r \in Readers |-> 0]
    /\ view = [r \in Readers |-> NoInode]
    /\ tidy = TRUE

-----------------------------------------------------------------------------
(* The operating system: processes start, with a pid no running process    *)
(* has and NEXT_TEMP at 0, and die at any moment with everything they had  *)
(* open.                                                                   *)

Start(p) ==
    /\ ~Running(p)
    /\ \E k \in Pids : /\ \A q \in Procs : pid[q] # k
                       /\ pid' = [pid EXCEPT ![p] = k]
    /\ UNCHANGED <<next, writerVars, readerVars, diskVars, tidy>>

Crash(p) ==
    /\ Running(p)
    /\ pid' = [pid EXCEPT ![p] = NoPid]
    /\ pc' = [w \in Writers |-> IF Home[w] = p THEN "idle" ELSE pc[w]]
    /\ fd' = [w \in Writers |-> IF Home[w] = p THEN NoInode ELSE fd[w]]
    /\ temp' = [w \in Writers |-> IF Home[w] = p THEN Target ELSE temp[w]]
    /\ bytes' = [w \in Writers |-> IF Home[w] = p THEN Torn ELSE bytes[w]]
    /\ next' = [next EXCEPT ![p] = 0]
    /\ tidy' = (tidy /\ \A w \in Writers : Home[w] = p => ~Active(w))
    /\ UNCHANGED <<diskVars, readerVars>>

-----------------------------------------------------------------------------
(* write_atomic *)

(* The temporary name a write is given: `.{name}.{pid}.{NEXT_TEMP}.tmp'.   *)
TempName(p) == <<pid[p], next[p]>>

(* The call returns and its locals are gone. *)
Return(w) == /\ pc' = [pc EXCEPT ![w] = "idle"]
             /\ temp' = [temp EXCEPT ![w] = Target]
             /\ bytes' = [bytes EXCEPT ![w] = Torn]

(* The directory exists, NEXT_TEMP.fetch_add gives the write its name.  A  *)
(* directory that cannot be created fails the call with nothing done.      *)
BeginWrite(w, c) ==
    LET p == Home[w] IN
    /\ pc[w] = "idle" /\ Running(p) /\ next[p] <= MaxTemp
    /\ temp' = [temp EXCEPT ![w] = TempName(p)]
    /\ next' = [next EXCEPT ![p] = @ + 1]
    /\ bytes' = [bytes EXCEPT ![w] = c]
    /\ pc' = [pc EXCEPT ![w] = "create"]
    /\ UNCHANGED <<pid, fd, diskVars, readerVars, tidy>>

(* fs::write opens the temporary file: a new inode, or a leftover of that  *)
(* very name truncated.                                                    *)
Create(w) ==
    LET n == temp[w] IN
    /\ pc[w] = "create"
    /\ \E i \in Inodes :
         /\ IF dir[n] = NoInode THEN Free(i) ELSE i = dir[n]
         /\ dir' = [dir EXCEPT ![n] = i]
         /\ data' = [data EXCEPT ![i] = Torn]
         /\ fd' = [fd EXCEPT ![w] = i]
    /\ pc' = [pc EXCEPT ![w] = "fill"]
    /\ UNCHANGED <<procVars, temp, bytes, readerVars, tidy>>

(* ... and writes every byte through the file it holds open. *)
Fill(w) ==
    /\ pc[w] = "fill"
    /\ data' = [data EXCEPT ![fd[w]] = bytes[w]]
    /\ fd' = [fd EXCEPT ![w] = NoInode]
    /\ pc' = [pc EXCEPT ![w] = "rename"]
    /\ UNCHANGED <<procVars, temp, bytes, dir, readerVars, tidy>>

(* A slip: the rename does not wait for the bytes. *)
BeginRename_Early(w) ==
    /\ pc[w] \in {"fill", "rename"}
    /\ pc' = [pc EXCEPT ![w] = "replacing"]
    /\ fd' = [fd EXCEPT ![w] = NoInode]
    /\ UNCHANGED <<procVars, temp, bytes, diskVars, readerVars, tidy>>

(* fs::rename begins: from here to its end Windows refuses to open the     *)
(* file being replaced.                                                    *)
BeginRename(w) ==
    /\ pc[w] = "rename"
    /\ pc' = [pc EXCEPT ![w] = "replacing"]
    /\ UNCHANGED <<procVars, temp, bytes, fd, diskVars, readerVars, tidy>>

(* fs::rename takes effect: one directory update. *)
Rename(w) ==
    /\ pc[w] = "replacing"
    /\ dir[temp[w]] # NoInode
    /\ dir' = [dir EXCEPT ![Target] = dir[temp[w]], ![temp[w]] = NoInode]
    /\ Return(w)
    /\ UNCHANGED <<procVars, fd, data, readerVars, tidy>>

(* A slip: the error is returned at once, without remove_file. *)
FailWrite_NoCleanup(w) ==
    /\ pc[w] \in {"create", "fill", "replacing"}
    /\ fd' = [fd EXCEPT ![w] = NoInode]
    /\ Return(w)
    /\ UNCHANGED <<procVars, diskVars, readerVars, tidy>>

(* Opening, writing or renaming fails: the write goes on to remove_file. *)
FailWrite(w) ==
    /\ pc[w] \in {"create", "fill", "replacing"}
    /\ pc' = [pc EXCEPT ![w] = "cleanup"]
    /\ fd' = [fd EXCEPT ![w] = NoInode]
    /\ UNCHANGED <<procVars, temp, bytes, diskVars, readerVars, tidy>>

(* remove_file, whose own failure is ignored, and the error is returned. *)
Cleanup(w) ==
    /\ pc[w] = "cleanup"
    /\ \/ /\ dir' = [dir EXCEPT ![temp[w]] = NoInode]
          /\ UNCHANGED tidy
       \/ /\ UNCHANGED dir
          /\ tidy' = FALSE
    /\ Return(w)
    /\ UNCHANGED <<procVars, fd, data, readerVars>>

-----------------------------------------------------------------------------
(* read_retrying over a read of the whole file *)

BeginRead(r) ==
    /\ rpc[r] = "idle"
    /\ rpc' = [rpc EXCEPT ![r] = "trying"]
    /\ tries' = [tries EXCEPT ![r] = 0]
    /\ UNCHANGED <<procVars, writerVars, diskVars, view, tidy>>

(* The file opens, or is missing, which returns at once. *)
Open(r) ==
    /\ rpc[r] = "trying"
    /\ view' = [view EXCEPT ![r] = dir[Target]]
    /\ rpc' = [rpc EXCEPT ![r] = IF dir[Target] = NoInode
                                   THEN "idle" ELSE "reading"]
    /\ UNCHANGED <<procVars, writerVars, diskVars, tries, tidy>>

(* The open is denied while the file is being replaced: all but the last   *)
(* of READ_ATTEMPTS tries are followed by a pause and another.             *)
Deny(r) ==
    /\ rpc[r] = "trying"
    /\ \E w \in Writers : pc[w] = "replacing"
    /\ tries' = [tries EXCEPT ![r] = @ + 1]
    /\ IF tries[r] + 1 < ReadAttempts
         THEN /\ rpc' = [rpc EXCEPT ![r] = "pausing"]
              /\ UNCHANGED view
         ELSE /\ rpc' = [rpc EXCEPT ![r] = "idle"]
              /\ view' = [view EXCEPT ![r] = Denied]
    /\ UNCHANGED <<procVars, writerVars, diskVars, tidy>>

(* RETRY_DELAY is over. *)
Retry(r) ==
    /\ rpc[r] = "pausing"
    /\ rpc' = [rpc EXCEPT ![r] = "trying"]
    /\ UNCHANGED <<procVars, writerVars, diskVars, tries, view, tidy>>

(* The bytes are read from the inode that was opened. *)
Finish(r) ==
    /\ rpc[r] = "reading"
    /\ rpc' = [rpc EXCEPT ![r] = "idle"]
    /\ UNCHANGED <<procVars, writerVars, diskVars, tries, view, tidy>>

-----------------------------------------------------------------------------
System == \E p \in Procs : Start(p) \/ Crash(p)

Write(w) ==
    \/ \E c \in Contents : BeginWrite(w, c)
    \/ Create(w) \/ Fill(w) \/ BeginRename(w) \/ Rename(w)
    \/ FailWrite(w) \/ Cleanup(w)

Read(r) == BeginRead(r) \/ Open(r) \/ Deny(r) \/ Retry(r) \/ Finish(r)

Next ==
    \/ System
    \/ \E w \in Writers : Write(w)
    \/ \E r \in Readers : Read(r)

Spec == Init /\ [][Next]_vars

-----------------------------------------------------------------------------
(* What the latest read of a reader returns: the bytes of the inode it     *)
(* opened, as they stand when they are looked at.                          *)
Seen(r) == CASE view[r] = Denied -> Denied
             [] view[r] = NoInode -> NoFile
             [] OTHER -> data[view[r]]

Stored == IF dir[Target] = NoInode THEN NoFile ELSE data[dir[Target]]

(* Two writes under way never use one temporary name, whichever process    *)
(* they belong to and however often pids and NEXT_TEMP start over: "the    *)
(* temporary name is unique per process and per write".                    *)
UniqueTemp ==
    \A v, w \in Writers :
        v # w /\ Active(v) /\ Active(w) => temp[v] # temp[w]

(* The cache file, and whatever a reader holds open, is always complete:   *)
(* no write in progress shares an inode with them.                         *)
WholeFiles ==
    /\ Stored \in Contents \cup {NoFile}
    /\ \A r \in Readers : Seen(r) \in Contents \cup {NoFile, Denied}

(* A temporary file outlives its write only once a crash or a failed       *)
(* removal has interrupted a write: "a failed write removes it".           *)
NoLeftovers ==
    tidy => \A n \in Names \ {Target} :
              dir[n] # NoInode => \E w \in Writers : Active(w) /\ temp[w] = n

(* What makes the three above inductive.  A running write owns its name:   *)
(* it carries its process's pid and a number already handed out ...        *)
OwnNames ==
    /\ \A p, q \in Procs : p # q /\ Running(p) => pid[p] # pid[q]
    /\ \A w \in Writers : Active(w) =>
          /\ Running(Home[w])
          /\ temp[w] \in TempNames
          /\ temp[w][1] = pid[Home[w]]
          /\ temp[w][2] < next[Home[w]]

(* ... no inode has two names, and an inode with a temporary name is held  *)
(* open by no reader ...                                                   *)
OneLink ==
    \A m, n \in Names : dir[m] = dir[n] /\ m # n => dir[m] = NoInode
HiddenTemp ==
    \A r \in Readers : \A n \in Names \ {Target} :
        dir[n] # NoInode => dir[n] # view[r]

(* ... and a write finds under its name the inode it is filling, and then  *)
(* the bytes it wrote.  A read under way has a try left.                   *)
Progress ==
    \A w \in Writers :
        /\ pc[w] = "fill" => /\ dir[temp[w]] = fd[w]
                             /\ fd[w] \in Inodes
        /\ pc[w] \in {"rename", "replacing"} =>
             /\ dir[temp[w]] \in Inodes
             /\ data[dir[temp[w]]] = bytes[w]
        /\ Active(w) => bytes[w] \in Contents
    /\ \A r \in Readers : rpc[r] \in {"trying", "pausing"} => tries[r] < ReadAttempts

IInv == /\ TypeOK /\ OwnNames /\ UniqueTemp /\ OneLink /\ HiddenTemp
        /\ Progress /\ WholeFiles

(* Readers and writers of the file behave as over one atomic register:     *)
(* every read returns one whole content the file really had, and writes    *)
(* change it in one step.                                                  *)
Register == INSTANCE AtomicRegister WITH
                reg <- Stored, seen <- [r \in Readers |-> Seen(r)]
ImplementsRegister == Register!Spec
=============================================================================
