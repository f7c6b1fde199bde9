--------------------------- MODULE PrivateMemory ----------------------------
(***************************************************************************)
(* What address spaces promise (memory.rs: "isolates"): every space has a   *)
(* memory of its own.  A step fills, copies, stores to, maps or unmaps one  *)
(* space and leaves what every other space reads alone; a copy reads what   *)
(* the original read at that moment; what the loader made read-only stays.  *)
(***************************************************************************)
EXTENDS Naturals

CONSTANTS Spaces,      \* names of address spaces
          Pages,       \* the user pages
          ReadOnly,    \* the pages no program writes to
          Values,      \* what a page can hold
          Zero,        \* a cleared page
          Absent       \* a page that is not mapped

VARIABLE memory        \* memory[s][p]: what space s reads at page p

Init == memory = [s \in Spaces |-> [p \in Pages |-> Absent]]

Empty(s) == \A p \in Pages : memory[s][p] = Absent

\* A space that reads nothing yet is given an image.
Fill(s) ==
    /\ Empty(s)
    /\ memory'[s] \in [Pages -> Values \cup {Absent}]
    /\ memory' = [memory EXCEPT ![s] = memory'[s]]

\* fork: a space that reads nothing yet becomes a snapshot of another, of those
\* pages there was room for.
Copy(s, child) ==
    /\ Empty(child)
    /\ \E P \in SUBSET Pages :
         memory' = [memory EXCEPT ![child] =
                      [p \in Pages |-> IF p \in P THEN memory[s][p] ELSE Absent]]

Store(s, p, v) ==
    /\ p \notin ReadOnly /\ memory[s][p] # Absent
    /\ memory' = [memory EXCEPT ![s][p] = v]

\* Pages that were absent appear, cleared.
Map(s, P) ==
    /\ \A p \in P : memory[s][p] = Absent
    /\ memory' = [memory EXCEPT ![s] = [p \in Pages |-> IF p \in P THEN Zero ELSE @[p]]]

Unmap(s, P) ==
    memory' = [memory EXCEPT ![s] = [p \in Pages |-> IF p \in P THEN Absent ELSE @[p]]]

Next ==
    \E s \in Spaces :
        \/ \E p \in Pages, v \in Values : Store(s, p, v)
        \/ \E P \in SUBSET Pages : Map(s, P) \/ Unmap(s, P)
        \/ \E child \in Spaces : Copy(s, child)
        \/ Fill(s)

Spec == Init /\ [][Next]_memory
=============================================================================
