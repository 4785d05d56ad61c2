---------------------------- MODULE GoldenMemory ----------------------------
(***************************************************************************)
(* What the long-term memory promises to whoever reads it: a set of        *)
(* records that changes one file at a time, where every record that        *)
(* changes evolves as its evidence allows.                                 *)
(***************************************************************************)
CONSTANTS
    MemId,               \* ids of long-term records
    MemoryType,          \* one file per memory type
    TypeOf(_),           \* the memory type of a record
    InitialRecord(_),    \* what is there of a record to begin with
    Evolves(_, _, _)     \* the changes of a record that are called for

VARIABLE memory          \* [MemId -> record]

Init == memory = [m \in MemId |-> InitialRecord(m)]

\* One file is rewritten; the records of the others stay.
Rewrite(file) ==
    \A m \in MemId :
      \/ memory'[m] = memory[m]
      \/ TypeOf(m) = file /\ Evolves(m, memory[m], memory'[m])

Next == /\ memory' = [m \in MemId |-> memory'[m]]
        /\ \E file \in MemoryType : Rewrite(file)

Spec == Init /\ [][Next]_memory

=============================================================================
