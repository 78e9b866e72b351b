--------------------------- MODULE AtomicRegister ---------------------------
(***************************************************************************)
(* What src/cache/file.rs promises about one cache file: a register that   *)
(* some writer may replace at any moment by a whole new content, and that  *)
(* a read sees as it stood at one moment of that read ("sees the old file  *)
(* or the new one, never a torn file").  A read may also be turned away,   *)
(* and the file may be absent.                                             *)
(***************************************************************************)
CONSTANTS Readers,    \* whoever reads the file
          Contents,   \* the contents a writer may put there
          NoFile,     \* the register before the first write
          Denied      \* a read that was refused access

VARIABLES reg,        \* what the file holds
          seen        \* what each reader's latest read found

vars == <<reg, seen>>

Init == /\ reg = NoFile
        /\ seen = [r \in Readers |-> NoFile]

(* A writer replaces the whole content; no reader's result changes. *)
Put == /\ \E c \in Contents : reg' = c
       /\ UNCHANGED seen

(* A read finds the register as it stands, or is denied. *)
Get(r) == /\ \E v \in {reg, Denied} : seen' = [seen EXCEPT ![r] = v]
          /\ UNCHANGED reg

Next == Put \/ \E r \in Readers : Get(r)

Spec == Init /\ [][Next]_vars
=============================================================================
