----------------------------- MODULE BootSystem -----------------------------
(***************************************************************************)
(* The bootloader in the device and the PC application that drives it,     *)
(* joined by the two HID mailboxes, with the device reset, re-enumerated   *)
(* or unplugged at any moment and the application started again.           *)
(***************************************************************************)
EXTENDS BootDevice, BootHost

CONSTANTS
  MaxFaults,       \* bound: how often the device leaves the bus
  MayRelaunch      \* whether the application is ever started again

ASSUME FaultsAssumption == MaxFaults \in Nat /\ MayRelaunch \in BOOLEAN

VARIABLE faults

vars == <<deviceVars, hostVars, link, faults>>

Init ==
  /\ DeviceInit /\ flash = [a \in Address |-> Blank]
  /\ Launched
  /\ faults = 0

Device == DeviceSteps /\ UNCHANGED <<hostVars, faults>>

\* The handle the application holds belongs to the old enumeration.
Leaves ==
  /\ handle' = IF handle = "open" THEN "stale" ELSE handle
  /\ UNCHANGED <<hpc, task, windowVars, transferVars, report>>

DeviceResets == ResetDevice /\ Leaves /\ UNCHANGED faults

DeviceLeaves ==
  /\ faults < MaxFaults /\ faults' = faults + 1
  /\ EventConfigured \/ PowerCycle
  /\ Leaves

Worker == Tasks /\ UNCHANGED <<deviceVars, faults>>

User ==
  /\ \/ Connection \/ Disconnection
     \/ ChangeSettings
     \/ \E file \in Files : LoadFile(file) \/ LoadFails(file)
     \/ EraseButton \/ WriteButton \/ VerifyButton \/ BlankCheckButton
     \/ MayRelaunch /\ Relaunch
  /\ UNCHANGED <<deviceVars, faults>>

\* A reset the user asks for counts as a fault from the moment it is sent.
UserResets ==
  /\ faults < MaxFaults /\ faults' = faults + 1
  /\ Reset
  /\ UNCHANGED deviceVars

Next == Device \/ DeviceResets \/ DeviceLeaves \/ Worker \/ User \/ UserResets

\* main() of the bootloader loops for ever, and a task of the application
\* that has been started keeps running; nothing obliges the user to act, nor
\* the bus to fail.
Fairness == WF_vars(Device \/ DeviceResets) /\ WF_vars(Worker)

Spec == Init /\ [][Next]_vars /\ Fairness

-----------------------------------------------------------------------------
(* Properties.                                                             *)

\* The words the last successful Write or Verify stands for.
Claimed ==
  IF report = "success" /\ task \in {"write", "verify"}
    THEN RangesOf(view) \cap RangesOf(hexView) ELSE {}

\* "Erase/Program/Verify sequence completed successfully" is only said of a
\* device that holds the file, and stays true until the next task, although
\* GetData takes whatever reply comes for its own (Comm.cpp:404-418,
\* MainWindow.cpp:663-667).
VerifiedImage ==
  \A a \in Claimed \ (IF writeConfig THEN {} ELSE Range(view, "config")) : flash[a] = image[a]

\* A reply that reaches a task answers the request that task has just sent:
\* no older reply is ever in the mailbox (Comm.cpp:388-418,547-556).
OwnReply ==
  (handle = "open" /\ Full(inPacket)) =>
    \/ hpc = "answer" /\ inPacket.cmd = "QUERY_DEVICE"
    \/ hpc = "reply" /\ inPacket.cmd = "GET_DATA" /\ inPacket.addr = addr

\* The device never has to drop a PROGRAM_DEVICE: "host should not do this
\* without sending a PROGRAM_COMPLETE command in between program sections"
\* (app_hid_boot_loader.c:300-318).
ContiguousSections ==
  Dispatched("PROGRAM_DEVICE") => pointer \in {InvalidAddress, packet.addr}

\* Locking the configuration words "will also prevent reprogramming of the
\* last page of flash memory" (Comm.cpp:470-476).
LockedPageKept ==
  [][\A a \in EndNoConfigs .. ConfigEnd - 1 : flash'[a] # flash[a] => ~configsProtected]_vars

\* Whoever erases the configuration words is going to program them again:
\* "to prevent accidental erasing of the configuration words without
\* reprogramming them" (MainWindow.cpp:91,1277).
ConfigErasedToBeWritten ==
  [][\A a \in ConfigStart .. ConfigEnd - 1 :
       (flash'[a] = Blank /\ flash[a] # Blank) => task = "write" /\ writeConfig]_vars

\* The contents the files ask for, by the ranges they are opened with.
Asked ==
  {[a \in Address |-> IF a \in RangesOf(v) THEN Says(file, a) ELSE Blank] :
     file \in Files, v \in Views}

\* The update as FlashImage promises it.
Update == INSTANCE FlashImage
  WITH mem <- flash, goal <- image,
       declared <- (report = "success" /\ task \in {"write", "verify"}),
       Cells <- Address, Erased <- Blank,
       UserPages <- {PageOf(p) : p \in StartPage .. EndPageConfigs},
       Promised <- UserStart .. EndNoConfigs - 1,
       Images <- Asked \cup {BlankImage}

UpdateSpec == Update!Spec

\* On a device that stays connected every write ends in a verified image.
WriteSucceeds == (task = "write" /\ hpc = "erase") ~> (report = "success")

\* Whatever the bus does, a write comes to an end.
WriteEnds == (task = "write" /\ hpc = "erase") ~> (hpc \in {"idle", "stuck"})

\* "Check for future USB connection status changes every 1000 milliseconds"
\* (MainWindow.cpp:138): the window always comes back to waiting for the timer.
PollsAgain == []<>(hpc = "idle")
=============================================================================
