---------------------------- MODULE LoaderSystem ----------------------------
(***************************************************************************)
(* The board and the Aeon loader joined by the generic USB endpoint, with  *)
(* the cable pulled, the power button pressed and the loader closed at any *)
(* moment.                                                                 *)
(***************************************************************************)
EXTENDS AeonLoader

CONSTANT MaxFaults   \* bound: how often one of these happens

ASSUME FaultsAssumption == MaxFaults \in Nat

VARIABLES
  faults,
  loaded   \* history: the user interface has loaded a core in this operation

vars == <<boardVars, loaderVars, faults, loaded>>

SystemTypeOK ==
  BoardTypeOK /\ LoaderTypeOK /\ faults \in 0 .. MaxFaults /\ loaded \in BOOLEAN

Init == BoardInit /\ LoaderInit /\ faults = 0 /\ loaded = FALSE

LoadsCore == pc = "ui" /\ ui \in {"init", "config"}

BoardStep ==
  /\ Main
  /\ loaded' = (loaded \/ LoadsCore)
  /\ UNCHANGED <<loaderVars, faults>>

Chip == FlashDone /\ UNCHANGED <<loaderVars, faults, loaded>>

LoaderStep ==
  /\ Transfer
  /\ UNCHANGED <<pc, ui, fpga, mux, flashVars, bus, faults, loaded>>

Button ==
  /\ ConfigureFPGA \/ WriteDataflash \/ EraseDataflash
  /\ loaded' = FALSE /\ UNCHANGED faults

Leaves ==
  /\ handle' = IF handle = "open" THEN "stale" ELSE handle
  /\ UNCHANGED <<op, step, n, page, input, said, failed>>

PluggedIn == Plug /\ UNCHANGED <<loaderVars, faults, loaded>>

Fault ==
  /\ faults < MaxFaults /\ faults' = faults + 1
  /\ \/ (Unplug \/ PowerButton) /\ Leaves
     \/ Killed /\ UNCHANGED boardVars
  /\ UNCHANGED loaded

Next == BoardStep \/ Chip \/ LoaderStep \/ Button \/ PluggedIn \/ Fault

\* main() of the board loops for ever, the chip finishes what it has begun,
\* and an operation of the loader goes on from one transfer to the next;
\* nothing obliges the user to do anything.
Fairness == WF_vars(BoardStep) /\ WF_vars(Chip) /\ WF_vars(LoaderStep)

Spec == Init /\ [][Next]_vars /\ Fairness

-----------------------------------------------------------------------------
(* Properties.                                                             *)

Says(m) == op # "none" /\ op' = "none" /\ said' = m

\* "FPGA Configuration Done" is said of an FPGA that runs the host's file,
\* unless a transfer failed or the user interface loaded another core: the
\* status that was read is about the packets before it (mainwindow.cpp:194-200).
ConfiguredWhenSaid ==
  [][Says("configured") /\ ~failed' /\ ~loaded => fpga.core = "file"]_vars

\* "DataFlash is erased now!" is only said when it is (mainwindow.cpp:375-385).
ErasedWhenSaid ==
  [][Says("erased") /\ ~failed' => \A p \in Page, s \in Part : store[p][s] = Blank]_vars

\* "DataFlash Programming is Done", said after every transfer succeeded, is
\* said of a DataFlash that holds the file, whatever the user interface, an
\* unfinished erase or an abandoned session did (mainwindow.cpp:270-332).
StoredUnlessFailed ==
  [][Says("programmed") /\ ~failed' => store = File]_vars

\* "DataFlash Programming is Done" (mainwindow.cpp:332), taken at its word.
ProgrammedWhenSaid == [][Says("programmed") => store = File]_vars

\* The handler never runs a packet twice, nor one from before the session:
\* the packet memory still holds it (usb_handler.c:88-93,243).
FreshCommands == (pc = "main" /\ bus = "configured" /\ Received(ep)) => ep.fresh

\* What waits for the host in the IN endpoint was asked for in its session
\* (usb_handler.c:65-69,247-251).
OwnReplies == (ep.reply # NoReply /\ handle = "open") => ep.current

\* No packet is stored over one that the handler has not seen.
NothingOverwritten ==
  [][LoaderStep /\ ep'.packet # ep.packet => ~ep.fresh]_vars

\* On a board that stays connected every operation comes to its end.
OperationsEnd == (op # "none") ~> (op = "none")

\* Configuring and writing end whatever happens: each of their transfers
\* either succeeds or fails.
WritesEnd == (op \in {"configure", "write"}) ~> (op = "none")
=============================================================================
