---------------------------- MODULE BootCommands ----------------------------
(***************************************************************************)
(* The bootloader's command interpreter driven by an arbitrary host: one   *)
(* that sends any of the packets Offered in any order, stops at any point, *)
(* and is cut off by resets and re-enumerations.  What holds here is owed  *)
(* to the device alone.                                                    *)
(*                                                                         *)
(* owed is a history variable: the words a PROGRAM_DEVICE has handed over, *)
(* each with the address its packet gave it, that no NVM write has stored. *)
(***************************************************************************)
EXTENDS BootDevice

CONSTANT Offered

ASSUME OfferedAssumption == \A pkt \in Offered : WellFormed(pkt)

VARIABLE owed

vars == <<deviceVars, link, owed>>

CommandsTypeOK ==
  /\ DeviceTypeOK
  /\ owed \subseteq (Address \X Data)

Init ==
  /\ DeviceInit
  /\ flash \in [Address -> {Blank}]
  /\ owed = {}

Accept ==
  /\ BufferWord
  /\ owed' = owed \cup {<<packet.addr + done, Payload(packet, done)>>}

Store ==
  /\ WriteInstruction
  /\ owed' = owed \ {<<FlushAddress, buffer[latch]>>,
                     <<FlushAddress + 1, buffer[latch + 1]>>}

Forget ==
  /\ Disruption
  /\ owed' = {}

OtherSteps ==
  /\ \/ Receive \/ QueryDevice \/ UnlockConfig
     \/ EraseDevice \/ EraseFlash \/ EraseEnds
     \/ ProgramDevice \/ ProgramEnds
     \/ ProgramComplete \/ FlushEnds
     \/ GetData
  /\ UNCHANGED owed

HostSteps ==
  /\ HostReads \/ (\E pkt \in Offered : HostSends(pkt))
  /\ UNCHANGED owed

Next == Accept \/ Store \/ Forget \/ OtherSteps \/ HostSteps

\* main() calls APP_HIDBootLoaderTasks for ever; the operating system of the
\* host polls the IN endpoint.
Fairness ==
  /\ WF_vars(Accept \/ Store \/ OtherSteps \/ (ResetDevice /\ owed' = {}))
  /\ WF_vars(HostReads /\ UNCHANGED owed)

Spec == Init /\ [][Next]_vars /\ Fairness

-----------------------------------------------------------------------------
(* Properties.                                                             *)

\* WriteFlashSubBlock only ever runs on whole instructions at an instruction
\* boundary, inside the user memory, and reads inside the buffer: its loop
\* subtracts 2 from an unsigned char until it is 0
\* (app_hid_boot_loader.c:311,402-416).
WholeInstructions ==
  pc = "flush" =>
    /\ index % 2 = 0
    /\ index > 0 =>
         /\ FlushAddress % 2 = 0
         /\ FlushAddress \in Address /\ FlushAddress + 1 \in Address
         /\ latch + index <= PacketWords

\* Between commands, a word the device has accepted and not stored is still
\* in the buffer at the place its packet's address gives it: the buffer is
\* left justified, the packets right justified (app_hid_boot_loader.c:302-316).
BufferHoldsOwed ==
  pc \in {"idle", "dispatch"} =>
    owed = {<<FlushAddress + j, buffer[j]>> : j \in 0 .. index - 1}

\* Once a section is closed every word the host handed over for it has been
\* written at its own address: PROGRAM_COMPLETE leaves nothing in the buffer
\* (app_hid_boot_loader.c:323-329).
ClosedSectionStored == pointer = InvalidAddress => owed = {}

\* An erase stays out of the bootloader's own pages, and reaches the page of
\* the configuration words only while they are unlocked, even when a new
\* enumeration locks them again between two pages: MaxPageToErase is read in
\* every iteration (app_hid_boot_loader.c:158-177,282-293).
EraseConfined ==
  [][\A a \in Address :
       (pc = "erase" /\ flash'[a] # flash[a]) =>
         a >= UserStart /\ (a >= EndNoConfigs => ~configsProtected)]_vars

\* Every command the interpreter begins comes to an end, although the two
\* that answer wait for the host to have read the previous answer
\* (app_hid_boot_loader.c:254,346).
CommandEnds == pc = "dispatch" ~> pc = "idle"
=============================================================================
