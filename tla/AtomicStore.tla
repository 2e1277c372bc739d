------------------------------ MODULE AtomicStore ------------------------------
(***************************************************************************)
(* What writeCacheAtomically() promises (atomic_write.hpp): the names of   *)
(* the schema cache form a store whose cells change by one indivisible     *)
(* step.  A reader sees the previous file, the new file or no file, never  *)
(* an intermediate one.  The value of a cell is the source directory its   *)
(* complete content was copied from.                                       *)
(***************************************************************************)
CONSTANTS
    Names,   \* file names inside the cache directory
    Dirs,    \* source directories a file can be copied from
    NoFile   \* the name does not exist

VARIABLE store

Cell == Dirs \cup {NoFile}

Init == store = [n \in Names |-> NoFile]

\* rename() of a complete temporary file over the name.
Put(n, d) == store' = [store EXCEPT ![n] = d]

\* remove() of one name.
Remove(n) == store' = [store EXCEPT ![n] = NoFile]

\* The user deletes the cache, or a power loss forgets directory entries that
\* were never fsync'd: some names disappear together, the others keep their file.
Forget(lost) == store' = [n \in Names |-> IF n \in lost THEN NoFile ELSE store[n]]

Next ==
    \/ \E n \in Names, d \in Dirs : Put(n, d)
    \/ \E n \in Names : Remove(n)
    \/ \E lost \in SUBSET Names : Forget(lost)

Spec == Init /\ [][Next]_store
================================================================================
