------------------------- MODULE BootCommandsProofs -------------------------
(***************************************************************************)
(* BootCommands for every layout and every set of offered packets.         *)
(*                                                                         *)
(* The invariants of BootCommands are not inductive: they speak of the     *)
(* states in which a command is over, or of the flush loop, and follow     *)
(* from where the loops are in the packet and the buffer.  Inv says that.  *)
(***************************************************************************)
EXTENDS BootCommands, BootDeviceProofs

Inv == CommandsTypeOK /\ Position /\ owed = Buffered

-----------------------------------------------------------------------------
(* Init and the steps: what owed records of the buffer.                    *)

LEMMA InvInit == Init => Inv
<1> SUFFICES ASSUME Init PROVE Inv
  OBVIOUS
<1>1. DeviceInit /\ flash \in [Address -> {Blank}] /\ owed = {}
  BY DEF Init
<1> QED
  BY <1>1, DeviceInvInit DEF Inv, DeviceInv, CommandsTypeOK

LEMMA InvAccept ==
  ASSUME Inv, Accept
  PROVE  Inv'
<1>1. DeviceInv /\ BufferWord /\ owed = Buffered
  BY DEF Inv, CommandsTypeOK, DeviceInv, Accept
<1>2. /\ DeviceInv' /\ owed' = Buffered'
      /\ Payload(packet, done) \in Data /\ packet.addr + done \in Address
  BY <1>1, DeviceInvBufferWord DEF Accept
<1>3. owed' \subseteq Address \X Data
  BY <1>2 DEF Inv, CommandsTypeOK, Accept
<1> QED
  BY <1>2, <1>3 DEF Inv, CommandsTypeOK, DeviceInv

LEMMA InvStore ==
  ASSUME Inv, Store
  PROVE  Inv'
<1>1. DeviceInv /\ WriteInstruction /\ owed = Buffered
  BY DEF Inv, CommandsTypeOK, DeviceInv, Store
<1>2. DeviceInv' /\ owed' = Buffered'
  BY <1>1, DeviceInvWriteInstruction DEF Store, Instruction
<1>3. owed' \subseteq Address \X Data
  BY DEF Inv, CommandsTypeOK, Store
<1> QED
  BY <1>2, <1>3 DEF Inv, CommandsTypeOK, DeviceInv

LEMMA InvForget ==
  ASSUME Inv, Forget
  PROVE  Inv'
<1>1. DeviceInv /\ Disruption
  BY DEF Inv, CommandsTypeOK, DeviceInv, Forget
<1>2. DeviceInv' /\ owed' = Buffered' /\ owed' = {}
  BY <1>1, DeviceInvDisruption DEF Forget
<1> QED
  BY <1>2 DEF Inv, CommandsTypeOK, DeviceInv

LEMMA InvOtherSteps ==
  ASSUME Inv, OtherSteps
  PROVE  Inv'
<1>1. DeviceInv
  BY DEF Inv, CommandsTypeOK, DeviceInv
<1>2. DeviceInv' /\ Buffered' = Buffered /\ owed' = owed
  BY <1>1, DeviceInvBystander, DeviceInvProgramDevice, DeviceInvProgramEnds,
     DeviceInvProgramComplete, DeviceInvFlushEnds
  DEF OtherSteps, Bystander
<1> QED
  BY <1>2 DEF Inv, CommandsTypeOK, DeviceInv

LEMMA InvHost ==
  ASSUME Inv, HostSteps
  PROVE  Inv'
<1>1. DeviceInv
  BY DEF Inv, CommandsTypeOK, DeviceInv
<1>2. /\ UNCHANGED deviceVars /\ inPacket' \in {inPacket, Empty} /\ owed' = owed
      /\ outPacket' = outPacket \/ WellFormed(outPacket')
  BY OfferedAssumption DEF OfferedAssumption, HostSteps, HostReads, HostSends
<1>3. DeviceInv' /\ Buffered' = Buffered
  BY <1>1, <1>2, DeviceInvHost
<1> QED
  BY <1>2, <1>3 DEF Inv, CommandsTypeOK, DeviceInv

LEMMA InvNext == Inv /\ [Next]_vars => Inv'
<1> SUFFICES ASSUME Inv, [Next]_vars PROVE Inv'
  OBVIOUS
<1>1. CASE Accept
  BY <1>1, InvAccept
<1>2. CASE Store
  BY <1>2, InvStore
<1>3. CASE Forget
  BY <1>3, InvForget
<1>4. CASE OtherSteps
  BY <1>4, InvOtherSteps
<1>5. CASE HostSteps
  BY <1>5, InvHost
<1>6. CASE UNCHANGED vars
  BY <1>6 DEF vars, deviceVars, link, Inv, CommandsTypeOK, DeviceTypeOK, Position, Awaited,
              Buffered, FlushAddress, First
<1> QED
  BY <1>1, <1>2, <1>3, <1>4, <1>5, <1>6 DEF Next

-----------------------------------------------------------------------------
(* The theorems.                                                           *)

\* Inv holds in every state of every behaviour of the interpreter.
THEOREM InvAlways == Spec => []Inv
<1>1. Init => Inv
  BY InvInit
<1>2. Inv /\ [Next]_vars => Inv'
  BY InvNext
<1> QED
  BY <1>1, <1>2, PTL DEF Spec

\* The variables of the device keep to the ranges of their C declarations, and
\* the indices to the buffers they index (app_hid_boot_loader.c:139-155).
THEOREM TypeCorrect == Spec => []CommandsTypeOK
<1>1. Inv => CommandsTypeOK
  BY DEF Inv
<1> QED
  BY <1>1, InvAlways, PTL

\* WriteFlashSubBlock never sees half an instruction and never leaves the
\* user memory or the buffer (app_hid_boot_loader.c:395-419).
THEOREM InstructionsWhole == Spec => []WholeInstructions
<1>1. Inv => WholeInstructions
  <2> SUFFICES ASSUME Inv, pc = "flush" PROVE index % 2 = 0 /\ (index > 0 =>
         /\ FlushAddress % 2 = 0
         /\ FlushAddress \in Address /\ FlushAddress + 1 \in Address
         /\ latch + index <= PacketWords)
    BY DEF WholeInstructions
  <2>1. index % 2 = 0 /\ index \in Nat
    BY LayoutFacts DEF Inv, Position, CommandsTypeOK, DeviceTypeOK
  <2>2. ASSUME index > 0
        PROVE /\ FlushAddress % 2 = 0
              /\ FlushAddress \in Address /\ FlushAddress + 1 \in Address
              /\ latch + index <= PacketWords
    BY <2>1, <2>2, LayoutFacts
    DEF Inv, Position, CommandsTypeOK, DeviceTypeOK, FlushAddress, Address
  <2> QED
    BY <2>1, <2>2
<1> QED
  BY <1>1, InvAlways, PTL

\* Between commands the buffer holds exactly the words accepted and not yet
\* stored, each where its address says (app_hid_boot_loader.c:295-321).
THEOREM BufferFaithful == Spec => []BufferHoldsOwed
<1>1. Inv => BufferHoldsOwed
  BY DEF Inv, BufferHoldsOwed, Buffered, First
<1> QED
  BY <1>1, InvAlways, PTL

\* Closing a section loses no word (app_hid_boot_loader.c:323-329).
THEOREM ClosedSectionsStored == Spec => []ClosedSectionStored
<1>1. Inv => ClosedSectionStored
  BY NothingBuffered DEF Inv, Position, ClosedSectionStored
<1> QED
  BY <1>1, InvAlways, PTL

\* A step of the erase loop changes a page the protection of the moment
\* allows it, and no other step of that loop changes anything
\* (app_hid_boot_loader.c:282-293,377-392).
THEOREM ErasesConfined == Spec => EraseConfined
<1> DEFINE Confined ==
      \A a \in Address :
        (pc = "erase" /\ flash'[a] # flash[a]) =>
          a >= UserStart /\ (a >= EndNoConfigs => ~configsProtected)
<1>1. Inv /\ [Next]_vars => [Confined]_vars
  <2> SUFFICES ASSUME Inv, Next, pc = "erase",
                      NEW a \in Address, flash'[a] # flash[a]
               PROVE  a >= UserStart /\ (a >= EndNoConfigs => ~configsProtected)
    OBVIOUS
  <2>1. EraseFlash
    BY DEF Next, Accept, Store, Forget, OtherSteps, HostSteps, BufferWord, WriteInstruction,
           Disruption, ResetDevice, EventConfigured, PowerCycle, Receive, QueryDevice,
           UnlockConfig, EraseDevice, EraseEnds, ProgramDevice, ProgramEnds, ProgramComplete,
           FlushEnds, GetData, HostReads, HostSends, deviceVars, Dispatched
  <2>2. a \in PageOf(erasePage)
    BY <2>1 DEF EraseFlash
  <2>3. /\ erasePage \in Nat /\ StartPage <= erasePage /\ erasePage <= MaxPageToErase
        /\ a \in Int /\ PageWords \in Nat /\ MaxPageToErase \in Nat
    BY <2>1, LayoutFacts, LayoutAssumption
    DEF EraseFlash, EraseStop, Inv, CommandsTypeOK, DeviceTypeOK, MaxPageToErase, Address, LayoutAssumption
  <2>4. erasePage * PageWords <= a /\ a < (erasePage + 1) * PageWords
    BY <2>2, <2>3 DEF PageOf
  <2>5. \A p, q \in Nat : p <= q => p * PageWords <= q * PageWords
    BY <2>3
  <2>6. UserStart <= a
    BY <2>3, <2>4, <2>5, LayoutFacts DEF UserStart
  <2>7. ASSUME configsProtected PROVE a < EndNoConfigs
    <3>1. erasePage + 1 <= EndPageNoConfigs + 1
      BY <2>3, <2>7, LayoutFacts DEF MaxPageToErase
    <3>2. (erasePage + 1) * PageWords <= (EndPageNoConfigs + 1) * PageWords
      BY <2>3, <2>5, <3>1, LayoutFacts
    <3> QED
      BY <2>3, <2>4, <3>2, LayoutFacts DEF EndNoConfigs
  <2>8. EndNoConfigs \in Int
    BY <2>3, LayoutFacts DEF EndNoConfigs
  <2> QED
    BY <2>3, <2>6, <2>7, <2>8
<1> QED
  BY <1>1, InvAlways, PTL DEF Spec, EraseConfined
=============================================================================
