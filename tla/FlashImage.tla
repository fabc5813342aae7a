----------------------------- MODULE FlashImage -----------------------------
(***************************************************************************)
(* What updating the firmware over USB promises, whatever the packets: the *)
(* bootloader's own pages are out of reach, pages are erased whole, a word *)
(* is only ever programmed on an erased cell and only with the content     *)
(* the file gives it, and the update is declared complete only when the    *)
(* memory outside the configuration page is the file.                      *)
(***************************************************************************)
EXTENDS Integers

CONSTANTS
  Cells,       \* Addresses
  UserPages,   \* the pages an update may erase, each a set of addresses
  Promised,    \* the addresses a declared update covers
  Images,      \* contents a file can ask for
  Erased       \* content of an erased cell

VARIABLES mem, goal, declared

Init ==
  /\ mem \in [Cells -> {Erased}]
  /\ goal \in [Cells -> {Erased}]
  /\ declared = FALSE

\* Another file is chosen, or the task's outcome is no longer on display.
Choose ==
  /\ goal' \in Images \cup {goal}
  /\ declared' = FALSE
  /\ UNCHANGED mem

ErasePage(page) ==
  /\ ~declared
  /\ mem' = [a \in Cells |-> IF a \in page THEN Erased ELSE mem[a]]
  /\ UNCHANGED <<goal, declared>>

\* An instruction is two cells.
Burn(a) ==
  /\ ~declared
  /\ {a, a + 1} \subseteq UNION UserPages
  /\ \A b \in {a, a + 1} : mem[b] \in {Erased, goal[b]}
  /\ mem' = [mem EXCEPT ![a] = goal[a], ![a + 1] = goal[a + 1]]
  /\ UNCHANGED <<goal, declared>>

Declare ==
  /\ \A a \in Promised : mem[a] = goal[a]
  /\ declared' = TRUE
  /\ UNCHANGED <<mem, goal>>

Next ==
  \/ Choose \/ Declare
  \/ \E page \in UserPages : ErasePage(page)
  \/ \E a \in Cells : Burn(a)

Spec == Init /\ [][Next]_<<mem, goal, declared>>
=============================================================================
