------------------------------- MODULE SdCard -------------------------------
(***************************************************************************)
(* The memory card of firmware v2: its socket, the driver's status (Stat   *)
(* of fat/mmc.c) and the timer interrupt that keeps it (timer.c).          *)
(*                                                                         *)
(* A card that has just been put in does not answer before disk_initialize *)
(* has sent it the commands that wake it.  A block on its way when the     *)
(* card is pulled ends in Junk (0xFF), and nobody looks at its CRC.        *)
(***************************************************************************)
EXTENDS Naturals, Sequences, FiniteSets

CONSTANTS
  Card,      \* the cards at hand
  NoCard,    \* an empty socket
  Disk,      \* Disk[c][n]: sector n of card c, a sequence of items
  Junk,      \* an item read from a card that is gone
  MaxPulls   \* how often a card is pulled out

ASSUME CardAssumption ==
  /\ NoCard \notin Card
  /\ MaxPulls \in Nat

VARIABLES
  card,      \* what is in the socket
  awake,     \* whether it has been initialised since it was put in
  Stat,      \* the flags of the driver: NOINIT, NODISK
  pulls      \* cards pulled so far

sdVars == <<card, awake, Stat, pulls>>

\* Mutant: a card that goes leaves the status initialised.
SeenBy_KeepsInit(stat) == IF card = NoCard THEN stat \cup {"NODISK"} ELSE stat \ {"NODISK"}

\* disk_timerproc: the switch of the socket.
SeenBy(stat) == IF card = NoCard THEN stat \cup {"NODISK", "NOINIT"} ELSE stat \ {"NODISK"}

\* The timer has run for a while when the card is first asked for.
SdInit ==
  /\ card \in Card \cup {NoCard} /\ awake = FALSE /\ pulls = 0
  /\ Stat = SeenBy({"NOINIT"})

\* _T1Interrupt, every millisecond.
Tick == Stat' = SeenBy(Stat) /\ UNCHANGED <<card, awake, pulls>>

\* The interrupt has seen what is in the socket: true after some milliseconds.
Seen == SeenBy(Stat) = Stat

-----------------------------------------------------------------------------
(* The hand at the socket.                                                 *)

Pulled ==
  /\ card # NoCard /\ pulls < MaxPulls
  /\ card' = NoCard /\ awake' = FALSE /\ pulls' = pulls + 1
  /\ UNCHANGED Stat

\* No hand changes cards in a millisecond.
PutIn(c) ==
  /\ card = NoCard /\ Seen
  /\ card' = c /\ UNCHANGED <<awake, Stat, pulls>>

-----------------------------------------------------------------------------
(* The driver.                                                             *)

\* disk_initialize up to its last command: no card is tried when the status
\* says there is none, and one that does not answer is "powered off".
Identify(Found, Failed) ==
  \/ "NODISK" \in Stat /\ Failed /\ UNCHANGED sdVars
  \/ /\ "NODISK" \notin Stat /\ card = NoCard /\ Failed
     /\ Stat' = Stat \cup {"NOINIT"} /\ UNCHANGED <<card, awake, pulls>>
  \/ /\ "NODISK" \notin Stat /\ card # NoCard /\ Found
     /\ awake' = TRUE /\ UNCHANGED <<card, Stat, pulls>>

\* Its end.  The card may be gone by now.
Conclude == Stat' = Stat \ {"NOINIT"} /\ UNCHANGED <<card, awake, pulls>>

Torn(items, k) == [i \in DOMAIN items |-> IF i <= k THEN items[i] ELSE Junk]

Answers(n) == "NOINIT" \notin Stat /\ awake /\ n \in DOMAIN Disk[card]

\* disk_read of one sector; Then is told what arrives.
DiskRead(n, Then(_), Failed) ==
  \/ ~Answers(n) /\ Failed /\ UNCHANGED sdVars
  \/ Answers(n) /\ Then(Disk[card][n]) /\ UNCHANGED sdVars
  \/ /\ Answers(n) /\ Pulled
     /\ \E k \in 0 .. Len(Disk[card][n]) - 1 : Then(Torn(Disk[card][n], k))
=============================================================================
