----------------------------- MODULE BootDevice -----------------------------
(***************************************************************************)
(* The command interpreter of the USB HID bootloader                       *)
(* (bootloader/app_hid_boot_loader.c).                                     *)
(*                                                                         *)
(* APP_HIDBootLoaderTasks runs one command at a time: it is idle, or it    *)
(* holds a command it has not begun (pc = "dispatch"), or it is inside one *)
(* of the loops of ERASE_DEVICE, PROGRAM_DEVICE or WriteFlashSubBlock.     *)
(* Each iteration of a loop is a step, so that a reset, or the             *)
(* EVENT_CONFIGURED callback that runs in the USB interrupt, can come      *)
(* between two of them.                                                    *)
(***************************************************************************)
EXTENDS BootLayout

VARIABLES
  flash,            \* program memory
  pc,               \* BootState, and the loop the handler is in
  packet,           \* PacketFromPC
  done,             \* words of the packet already buffered (i of PROGRAM_DEVICE)
  buffer,           \* ProgrammingBuffer
  index,            \* BufferedDataIndex
  pointer,          \* ProgrammedPointer
  latch,            \* i of WriteFlashSubBlock
  erasePage,        \* ErasePageTracker
  configsProtected  \* ConfigsProtected = LOCKCONFIG

progVars   == <<done, buffer, index, pointer, latch>>
deviceVars == <<flash, pc, packet, done, buffer, index, pointer, latch,
                erasePage, configsProtected>>

\* Mutant: relocking forgets MaxPageToErase.
MaxPageToErase_Stays == EndPageConfigs

\* MaxPageToErase is always assigned together with ConfigsProtected.
MaxPageToErase == IF configsProtected THEN EndPageNoConfigs ELSE EndPageConfigs

DeviceTypeOK ==
  /\ flash \in [Address -> Contents]
  /\ pc \in {"idle", "dispatch", "erase", "program", "flush"}
  /\ packet \in Packet
  /\ done \in 0 .. PacketWords
  /\ buffer \in [Slot -> Data]
  /\ index \in 0 .. PacketWords
  /\ pointer \in 0 .. ConfigEnd \cup {InvalidAddress}
  /\ latch \in 0 .. PacketWords
  /\ erasePage \in StartPage .. EndPageConfigs + 1
  /\ configsProtected \in BOOLEAN
  /\ outPacket \in Packet
  /\ inPacket \in Packet

DeviceInit ==
  /\ pc = "idle" /\ packet = Empty
  /\ done = 0 /\ latch = 0
  /\ buffer = NoData /\ index = 0
  /\ pointer = InvalidAddress
  /\ erasePage = StartPage
  /\ configsProtected = TRUE
  /\ outPacket = Empty /\ inPacket = Empty

-----------------------------------------------------------------------------
(* IdleState: a command is taken once the previous response has left.      *)

Receive ==
  /\ pc = "idle"
  /\ ~Full(inPacket) /\ Full(outPacket)
  /\ packet' = outPacket
  /\ outPacket' = Empty
  /\ pc' = "dispatch"
  /\ UNCHANGED <<flash, progVars, erasePage, configsProtected, inPacket>>

-----------------------------------------------------------------------------
(* NotIdleState: one action per command, and one per iteration of a loop.  *)

Dispatched(cmd) == pc = "dispatch" /\ packet.cmd = cmd

QueryDevice ==
  /\ Dispatched("QUERY_DEVICE")
  /\ ~Full(inPacket)
  /\ inPacket' = [cmd |-> "QUERY_DEVICE", addr |-> 0, size |-> 0, data |-> NoData,
                   unlock |-> ~configsProtected]
  /\ pc' = "idle"
  /\ UNCHANGED <<flash, packet, progVars, erasePage, configsProtected, outPacket>>

UnlockConfig ==
  /\ Dispatched("UNLOCK_CONFIG")
  /\ configsProtected' = ~packet.unlock
  /\ pc' = "idle"
  /\ UNCHANGED <<flash, packet, progVars, erasePage, link>>

EraseDevice ==
  /\ Dispatched("ERASE_DEVICE")
  /\ erasePage' = StartPage
  /\ pc' = "erase"
  /\ UNCHANGED <<flash, packet, progVars, configsProtected, link>>

\* Mutant: the last page is left out.
EraseStop_Early == MaxPageToErase

EraseStop == MaxPageToErase + 1

EraseFlash ==
  /\ pc = "erase"
  /\ erasePage < EraseStop
  /\ flash' = [a \in Address |-> IF a \in PageOf(erasePage) THEN Blank ELSE flash[a]]
  /\ erasePage' = erasePage + 1
  /\ UNCHANGED <<pc, packet, progVars, configsProtected, link>>

\* Mutant: the handler does not return to IdleState.
EraseEnds_Stays ==
  /\ pc = "erase" /\ erasePage >= EraseStop
  /\ UNCHANGED <<deviceVars, link>>

EraseEnds ==
  /\ pc = "erase"
  /\ erasePage >= EraseStop
  /\ pc' = "idle"
  /\ UNCHANGED <<flash, packet, progVars, erasePage, configsProtected, link>>

\* Mutant: a section is never found interrupted.
SectionAddress_Any(address) == address

\* Where the open section expects the packet: anywhere when none is open.
SectionAddress(addr) == IF pointer = InvalidAddress THEN addr ELSE pointer

ProgramDevice ==
  /\ Dispatched("PROGRAM_DEVICE")
  /\ pointer' = SectionAddress(packet.addr)
  /\ pc' = IF pointer' = packet.addr THEN "program" ELSE "idle"
  /\ done' = 0
  /\ UNCHANGED <<flash, packet, buffer, index, latch, erasePage, configsProtected, link>>

\* Mutant: the comparison comes before the increment.
BufferFull_Late(n) == n > PacketWords

BufferFull(n) == n = PacketWords

BufferWord ==
  /\ pc = "program"
  /\ done < packet.size
  /\ buffer' = [buffer EXCEPT ![index] = Payload(packet, done)]
  /\ index' = index + 1
  /\ pointer' = pointer + 1
  /\ done' = done + 1
  /\ latch' = 0
  /\ pc' = IF BufferFull(index') THEN "flush" ELSE "program"
  /\ UNCHANGED <<flash, packet, erasePage, configsProtected, link>>

ProgramEnds ==
  /\ pc = "program"
  /\ done = packet.size
  /\ pc' = "idle"
  /\ UNCHANGED <<flash, packet, progVars, erasePage, configsProtected, link>>

\* Mutant: the section is closed without the flush.
ProgramComplete_Closes ==
  /\ Dispatched("PROGRAM_COMPLETE")
  /\ pc' = "idle" /\ pointer' = InvalidAddress /\ index' = 0
  /\ UNCHANGED <<flash, packet, done, buffer, latch, erasePage, configsProtected, link>>

ProgramComplete ==
  /\ Dispatched("PROGRAM_COMPLETE")
  /\ latch' = 0
  /\ pc' = "flush"
  /\ UNCHANGED <<flash, packet, done, buffer, index, pointer, erasePage,
                 configsProtected, link>>

\* Mutant: ProgrammedPointer is taken for the start of the buffer.
FlushAddress_End == pointer

\* The address WriteFlashSubBlock programs next.
FlushAddress == pointer - index

\* One iteration of WriteFlashSubBlock: both words of an instruction.
WriteInstruction ==
  /\ pc = "flush" /\ index > 0
  /\ flash' = [flash EXCEPT
                 ![FlushAddress] = Burn(@, buffer[latch]),
                 ![FlushAddress + 1] = Burn(@, buffer[latch + 1])]
  /\ index' = index - 2
  /\ latch' = latch + 2
  /\ UNCHANGED <<pc, packet, done, buffer, pointer, erasePage, configsProtected, link>>

FlushEnds ==
  /\ pc = "flush" /\ index = 0
  /\ \/ /\ packet.cmd = "PROGRAM_DEVICE"
        /\ pc' = "program"
        /\ UNCHANGED pointer
     \/ /\ packet.cmd = "PROGRAM_COMPLETE"
        /\ pc' = "idle"
        /\ pointer' = InvalidAddress
  /\ UNCHANGED <<flash, packet, done, buffer, index, latch, erasePage,
                 configsProtected, link>>

\* PacketToPC.Data, right justified like the payload of a packet.
ReadOut ==
  [s \in Slot |->
     LET a == packet.addr + s - (PacketWords - packet.size)
     IN  IF s >= PacketWords - packet.size /\ a \in Address THEN flash[a] ELSE Blank]

GetData ==
  /\ Dispatched("GET_DATA")
  /\ ~Full(inPacket)
  /\ inPacket' = [cmd |-> "GET_DATA", addr |-> packet.addr, size |-> packet.size,
                   data |-> ReadOut, unlock |-> FALSE]
  /\ pc' = "idle"
  /\ UNCHANGED <<flash, packet, progVars, erasePage, configsProtected, outPacket>>

-----------------------------------------------------------------------------
(* APP_HIDBootLoaderInitialize: what a new configuration leaves behind.    *)

\* Mutant: an answer not yet sent survives.
Reinitialise_KeepsAnswer ==
  /\ configsProtected' = TRUE
  /\ pointer' = InvalidAddress
  /\ index' = 0
  /\ outPacket' = Empty /\ UNCHANGED inPacket

Reinitialise ==
  /\ configsProtected' = TRUE
  /\ pointer' = InvalidAddress
  /\ index' = 0
  /\ outPacket' = Empty /\ inPacket' = Empty

\* EVENT_CONFIGURED.  The handlers other than ERASE_DEVICE take less than a
\* millisecond, a re-enumeration takes tens of them, so the callback finds
\* the handler idle, about to dispatch, or in the erase loop, which goes on.
EventConfigured ==
  /\ pc \in {"idle", "dispatch", "erase"}
  /\ Reinitialise
  /\ pc' = IF pc = "erase" THEN "erase" ELSE "idle"
  /\ UNCHANGED <<flash, packet, done, buffer, latch, erasePage>>

\* Power is lost, or MCLR is pulled, between any two steps; only the flash
\* survives until the bootloader is enumerated again.
PowerCycle ==
  /\ Reinitialise
  /\ pc' = "idle"
  /\ packet' = Empty
  /\ buffer' = NoData
  /\ done' = 0 /\ latch' = 0 /\ erasePage' = StartPage
  /\ UNCHANGED flash

ResetDevice ==
  /\ Dispatched("RESET_DEVICE")
  /\ PowerCycle

DeviceSteps ==
  \/ Receive \/ QueryDevice \/ UnlockConfig
  \/ EraseDevice \/ EraseFlash \/ EraseEnds
  \/ ProgramDevice \/ BufferWord \/ ProgramEnds
  \/ ProgramComplete \/ WriteInstruction \/ FlushEnds
  \/ GetData

Disruption == ResetDevice \/ EventConfigured \/ PowerCycle

-----------------------------------------------------------------------------
(* The interpreter under any host that keeps to the packet format: whole   *)
(* instructions, inside the ranges QUERY_DEVICE reports.                   *)

WellFormed(pkt) ==
  /\ pkt \in Packet
  /\ pkt.cmd \in Commands
  /\ pkt.addr % 2 = 0 /\ pkt.size % 2 = 0
  /\ pkt.addr + pkt.size <= ConfigEnd
  /\ pkt.data \in [Slot -> Data]

HostSends(pkt) ==
  /\ ~Full(outPacket)
  /\ outPacket' = pkt
  /\ UNCHANGED <<deviceVars, inPacket>>

HostReads ==
  /\ Full(inPacket)
  /\ inPacket' = Empty
  /\ UNCHANGED <<deviceVars, outPacket>>

=============================================================================
