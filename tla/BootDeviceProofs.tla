-------------------------- MODULE BootDeviceProofs --------------------------
(***************************************************************************)
(* Lemmas about the steps of the bootloader's command interpreter, for     *)
(* every layout and for any host that sends well-formed packets: the types *)
(* of its variables, and where its loops stand in the packet and in the    *)
(* buffer.  BootCommandsProofs and BootSystemProofs build on them.         *)
(***************************************************************************)
EXTENDS BootDevice, TLAPS

Awaited(pkt) == Full(pkt) => WellFormed(pkt)

\* Where the loops stand, relative to the packet and to the buffer.
Position ==
  /\ Awaited(outPacket) /\ Awaited(packet)
  /\ pc # "idle" => Full(packet)
  /\ pointer = InvalidAddress => index = 0
  /\ pointer # InvalidAddress => index <= pointer /\ (pointer - index) % 2 = 0
  /\ pc \notin {"program", "flush"} => index < PacketWords /\ index % 2 = 0
  /\ pc = "erase" => packet.cmd = "ERASE_DEVICE"
  /\ pc = "program" =>
       /\ packet.cmd = "PROGRAM_DEVICE"
       /\ pointer = packet.addr + done /\ done <= packet.size
       /\ index < PacketWords /\ (index + done) % 2 = 0
  /\ pc = "flush" =>
       /\ packet.cmd \in {"PROGRAM_DEVICE", "PROGRAM_COMPLETE"}
       /\ index % 2 = 0 /\ latch + index <= PacketWords
       /\ packet.cmd = "PROGRAM_DEVICE" =>
            pointer = packet.addr + done /\ done <= packet.size /\ done % 2 = 0

\* What is left in the buffer starts at latch while it is being written out.
First == IF pc = "flush" THEN latch ELSE 0

Buffered == {<<FlushAddress + j, buffer[First + j]>> : j \in 0 .. index - 1}

DeviceInv == DeviceTypeOK /\ Position

-----------------------------------------------------------------------------
(* Facts about the layout, which keep the products out of the steps.       *)

LEMMA LayoutFacts ==
  /\ PacketWords \in Nat /\ PacketWords > 0 /\ PacketWords % 2 = 0
  /\ ConfigEnd \in Nat /\ InvalidAddress \in Nat /\ ConfigEnd < InvalidAddress
  /\ StartPage \in Nat /\ EndPageNoConfigs \in Nat /\ EndPageConfigs \in Nat
  /\ StartPage <= EndPageNoConfigs /\ EndPageNoConfigs <= EndPageConfigs
  /\ Blank \notin Word /\ Spoiled \notin Word /\ Blank # Spoiled
BY LayoutAssumption DEF LayoutAssumption, ConfigEnd

\* A word of a well-formed packet is in its payload and inside the memory.
LEMMA PayloadFacts ==
  ASSUME NEW pkt, WellFormed(pkt), NEW i \in 0 .. pkt.size - 1
  PROVE  Payload(pkt, i) \in Data /\ pkt.addr + i \in Address
<1>1. /\ pkt.addr \in Nat /\ pkt.size \in 0 .. PacketWords
      /\ pkt.addr + pkt.size <= ConfigEnd /\ pkt.data \in [Slot -> Data]
  BY DEF WellFormed, Packet
<1>2. PacketWords - pkt.size + i \in Slot
  BY <1>1, LayoutFacts DEF Slot
<1>3. pkt.addr + i \in Address
  BY <1>1, LayoutFacts DEF Address
<1> QED
  BY <1>1, <1>2, <1>3 DEF Payload

LEMMA PlainFacts ==
  ASSUME NEW cmd \in Commands \cup {"none"}
  PROVE  /\ Plain(cmd) \in Packet /\ Plain(cmd).cmd = cmd
         /\ Full(Plain(cmd)) <=> cmd # "none"
<1>1. NoData \in [Slot -> Contents]
  BY DEF NoData, Contents, Data
<1>2. 0 \in 0 .. PacketWords
  BY LayoutFacts
<1> QED
  BY <1>1, <1>2 DEF Plain, Packet, Full

\* Burning keeps a word a word.
LEMMA BurnType ==
  ASSUME NEW old \in Contents, NEW new \in Data
  PROVE  Burn(old, new) \in Contents
BY DEF Burn, Contents, Data

\* What is buffered depends only on the buffer and the section.
LEMMA BufferedStays ==
  ASSUME UNCHANGED <<pointer, index, buffer>>, First' = First
  PROVE  Buffered' = Buffered
BY DEF Buffered, FlushAddress

LEMMA NothingBuffered ==
  ASSUME index = 0
  PROVE  Buffered = {}
BY DEF Buffered

LEMMA NothingBufferedNext ==
  ASSUME index' = 0
  PROVE  Buffered' = {}
BY DEF Buffered

-----------------------------------------------------------------------------
(* Init and the steps.                                                     *)

LEMMA DeviceInvInit ==
  ASSUME DeviceInit, flash \in [Address -> {Blank}]
  PROVE  DeviceInv /\ Buffered = {}
<1> USE DEF DeviceInit
<1>1. Empty \in Packet /\ ~Full(Empty)
  BY PlainFacts DEF Empty
<1>2. DeviceTypeOK
  <2>1. flash \in [Address -> Contents]
    BY DEF Contents, Data
  <2>2. buffer \in [Slot -> Data]
    BY DEF NoData, Data
  <2>3. erasePage \in StartPage .. EndPageConfigs + 1
    BY LayoutFacts
  <2> QED
    BY <1>1, <2>1, <2>2, <2>3, LayoutFacts DEF DeviceTypeOK
<1>3. Position
  BY <1>1, LayoutFacts DEF Position, Awaited
<1> QED
  BY <1>2, <1>3, NothingBuffered DEF DeviceInv

\* Commands that leave the buffer and the section alone.
Bystander ==
  \/ Receive \/ QueryDevice \/ UnlockConfig
  \/ EraseDevice \/ EraseFlash \/ EraseEnds
  \/ GetData

LEMMA DeviceInvBystander ==
  ASSUME DeviceInv, Bystander
  PROVE  DeviceInv' /\ Buffered' = Buffered
<1> USE DEF DeviceInv, progVars, link
<1>1. Empty \in Packet /\ ~Full(Empty)
  BY PlainFacts DEF Empty
<1>2. DeviceTypeOK'
  <2> USE DEF DeviceTypeOK
  <2>1. CASE Receive
    BY <2>1, <1>1 DEF Receive
  <2>2. CASE QueryDevice
    <3>1. NoData \in [Slot -> Contents] /\ 0 \in 0 .. PacketWords
      BY LayoutFacts DEF NoData, Contents, Data
    <3>2. inPacket' \in Packet
      BY <2>2, <3>1 DEF QueryDevice, Packet, Commands
    <3> QED
      BY <2>2, <3>2 DEF QueryDevice
  <2>3. CASE UnlockConfig
    BY <2>3 DEF UnlockConfig, Packet
  <2>4. CASE EraseDevice
    BY <2>4, LayoutFacts DEF EraseDevice
  <2>5. CASE EraseFlash
    <3>1. flash' \in [Address -> Contents]
      BY <2>5 DEF EraseFlash, Contents, Data
    <3>2. erasePage' \in StartPage .. EndPageConfigs + 1
      BY <2>5, LayoutFacts DEF EraseFlash, EraseStop, MaxPageToErase
    <3> QED
      BY <2>5, <3>1, <3>2 DEF EraseFlash
  <2>6. CASE EraseEnds
    BY <2>6 DEF EraseEnds
  <2>7. CASE GetData
    <3>1. inPacket' \in Packet
      <4>1. ReadOut \in [Slot -> Contents]
        BY DEF ReadOut, Contents, Data
      <4>2. packet.addr \in Nat /\ packet.size \in 0 .. PacketWords
        BY DEF Packet
      <4> QED
        BY <2>7, <4>1, <4>2 DEF GetData, Packet, Commands
    <3> QED
      BY <2>7, <3>1 DEF GetData
  <2> QED
    BY <2>1, <2>2, <2>3, <2>4, <2>5, <2>6, <2>7 DEF Bystander
<1>3. /\ UNCHANGED <<pointer, index, buffer>>
      /\ pc \in {"idle", "dispatch", "erase"} /\ pc' \in {"idle", "dispatch", "erase"}
  BY DEF Bystander, Receive, QueryDevice, UnlockConfig, EraseDevice, EraseFlash, EraseEnds,
         GetData, Dispatched
<1>4. Position'
  <2>1. Awaited(outPacket)' /\ Awaited(packet)' /\ (pc # "idle" => Full(packet))'
    BY <1>1 DEF Position, Awaited, Bystander, Receive, QueryDevice, UnlockConfig, EraseDevice,
         EraseFlash, EraseEnds, GetData, Dispatched
  <2>2. (pc = "erase" => packet.cmd = "ERASE_DEVICE")'
    BY DEF Position, Bystander, Receive, QueryDevice, UnlockConfig, EraseDevice,
         EraseFlash, EraseEnds, GetData, Dispatched
  <2> QED
    BY <1>3, <2>1, <2>2 DEF Position
<1>5. Buffered' = Buffered
  BY <1>3, BufferedStays DEF First
<1> QED
  BY <1>2, <1>4, <1>5

\* The ends of the loops, and what starts them.
LEMMA DeviceInvProgramDevice ==
  ASSUME DeviceInv, ProgramDevice
  PROVE  DeviceInv' /\ Buffered' = Buffered
<1> USE DEF DeviceInv, ProgramDevice, Dispatched, link
<1>1. WellFormed(packet) /\ packet.addr \in Nat /\ packet.addr % 2 = 0
      /\ packet.addr + packet.size <= ConfigEnd /\ packet.size \in 0 .. PacketWords
  BY DEF Position, Awaited, Full, WellFormed, Packet
<1>2. index \in Nat /\ index < PacketWords /\ index % 2 = 0
  BY LayoutFacts DEF Position, DeviceTypeOK
<1>3. pointer' \in 0 .. ConfigEnd /\ pointer' # InvalidAddress
  BY <1>1, LayoutFacts DEF SectionAddress, DeviceTypeOK
<1>4. DeviceTypeOK'
  BY <1>3, LayoutFacts DEF DeviceTypeOK
<1>5. index <= pointer' /\ (pointer' - index) % 2 = 0
  BY <1>1, <1>2 DEF SectionAddress, Position
<1>6. Position'
  BY <1>1, <1>2, <1>3, <1>5 DEF Position, Awaited
<1>7. Buffered' = Buffered
  <2>1. CASE pointer = InvalidAddress
    BY <2>1, NothingBuffered, NothingBufferedNext DEF Position
  <2>2. CASE pointer # InvalidAddress
    BY <2>2, BufferedStays DEF SectionAddress, First
  <2> QED
    BY <2>1, <2>2
<1> QED
  BY <1>4, <1>6, <1>7

LEMMA DeviceInvProgramEnds ==
  ASSUME DeviceInv, ProgramEnds
  PROVE  DeviceInv' /\ Buffered' = Buffered
<1> USE DEF DeviceInv, ProgramEnds, progVars, link
<1>1. DeviceTypeOK'
  BY DEF DeviceTypeOK
<1>2. packet.size % 2 = 0 /\ packet.size \in Nat /\ index \in Nat /\ done \in Nat
  BY LayoutFacts DEF Position, Awaited, Full, WellFormed, Packet, DeviceTypeOK
<1>3. index % 2 = 0
  BY <1>2 DEF Position
<1>4. Position'
  BY <1>2, <1>3 DEF Position, Awaited
<1>5. Buffered' = Buffered
  BY BufferedStays DEF First
<1> QED
  BY <1>1, <1>4, <1>5

LEMMA DeviceInvProgramComplete ==
  ASSUME DeviceInv, ProgramComplete
  PROVE  DeviceInv' /\ Buffered' = Buffered
<1> USE DEF DeviceInv, ProgramComplete, Dispatched, link
<1>1. DeviceTypeOK'
  BY LayoutFacts DEF DeviceTypeOK
<1>2. index \in Nat /\ index < PacketWords
  BY LayoutFacts DEF Position, DeviceTypeOK
<1>3. Position'
  BY <1>2, LayoutFacts DEF Position, Awaited
<1>4. Buffered' = Buffered
  BY BufferedStays DEF First
<1> QED
  BY <1>1, <1>3, <1>4

LEMMA DeviceInvFlushEnds ==
  ASSUME DeviceInv, FlushEnds
  PROVE  DeviceInv' /\ Buffered' = Buffered
<1> USE DEF DeviceInv, FlushEnds, link
<1>1. DeviceTypeOK'
  BY DEF DeviceTypeOK
<1>2. done \in Nat
  BY DEF DeviceTypeOK
<1>3. Position'
  BY <1>2, LayoutFacts DEF Position, Awaited
<1>4. Buffered' = Buffered
  BY NothingBuffered, NothingBufferedNext
<1> QED
  BY <1>1, <1>3, <1>4

-----------------------------------------------------------------------------
(* The two loops that move words.                                          *)

\* A word of the packet joins the others.
LEMMA DeviceInvBufferWord ==
  ASSUME DeviceInv, BufferWord
  PROVE  /\ DeviceInv'
         /\ Buffered' = Buffered \cup {<<packet.addr + done, Payload(packet, done)>>}
         /\ Payload(packet, done) \in Data /\ packet.addr + done \in Address
<1> USE DEF DeviceInv, BufferWord, BufferFull
<1> DEFINE word == Payload(packet, done)
<1>1. /\ WellFormed(packet) /\ packet.addr \in Nat
      /\ packet.addr + packet.size <= ConfigEnd /\ packet.size \in 0 .. PacketWords
  BY DEF Position, Awaited, Full, WellFormed, Packet
<1>2. /\ done \in Nat /\ done < packet.size /\ index \in Nat /\ index < PacketWords
      /\ pointer = packet.addr + done /\ (index + done) % 2 = 0
      /\ pointer # InvalidAddress
      /\ packet.cmd = "PROGRAM_DEVICE"
  BY <1>1, LayoutFacts DEF Position, DeviceTypeOK
<1>3. word \in Data /\ packet.addr + done \in Address
  BY <1>1, <1>2, PayloadFacts
<1>4. index \in Slot /\ buffer \in [Slot -> Data]
  BY <1>2, LayoutFacts DEF Slot, DeviceTypeOK
<1>5. DeviceTypeOK'
  <2>1. buffer' \in [Slot -> Data]
    BY <1>3, <1>4
  <2>2. index' \in 0 .. PacketWords /\ done' \in 0 .. PacketWords /\ pointer' \in 0 .. ConfigEnd
    BY <1>1, <1>2, LayoutFacts
  <2> QED
    BY <2>1, <2>2, LayoutFacts DEF DeviceTypeOK, link
<1>6. Position'
  <2>1. index <= pointer /\ (pointer - index) % 2 = 0
    BY <1>2 DEF Position
  <2>2. index' <= pointer' /\ pointer' - index' = pointer - index /\ pointer' # InvalidAddress
    BY <1>1, <1>2, <2>1, LayoutFacts
  <2>3. (index' + done') % 2 = 0
    BY <1>2
  <2>4. pc' = "program" => index' < PacketWords
    BY <1>2, LayoutFacts
  <2>5. pc' = "flush" => index' = PacketWords /\ latch' = 0 /\ index' % 2 = 0 /\ done' % 2 = 0
    BY <1>2, <2>3, LayoutFacts
  <2>6. pointer' = packet'.addr + done' /\ done' <= packet'.size
    BY <1>1, <1>2
  <2>7. Awaited(outPacket)' /\ Awaited(packet)' /\ Full(packet)'
    BY <1>2 DEF Position, Awaited, Full, link
  <2> QED
    BY <1>2, <2>1, <2>2, <2>3, <2>4, <2>5, <2>6, <2>7, LayoutFacts DEF Position
<1>7. Buffered' = Buffered \cup {<<packet.addr + done, word>>}
  <2> DEFINE at == pointer - index
  <2>1. FlushAddress' = at /\ First = 0 /\ First' = 0 /\ at \in Int
    BY <1>2 DEF FlushAddress, First
  <2>2. \A j \in 0 .. index - 1 : buffer'[j] = buffer[j]
    BY <1>2, <1>4, LayoutFacts DEF Slot
  <2>3. buffer'[index] = word /\ at + index = packet.addr + done
    BY <1>2, <1>4
  <2>4. Buffered = {<<at + j, buffer[j]>> : j \in 0 .. index - 1}
    BY <1>2, <2>1 DEF Buffered, FlushAddress
  <2>5. Buffered' = {<<at + j, buffer'[j]>> : j \in 0 .. index}
    BY <1>2, <2>1 DEF Buffered
  <2>6. {<<at + j, buffer'[j]>> : j \in 0 .. index}
          = {<<at + j, buffer[j]>> : j \in 0 .. index - 1} \cup {<<packet.addr + done, word>>}
    <3>1. 0 .. index = (0 .. index - 1) \cup {index}
      BY <1>2
    <3> QED
      BY <2>2, <2>3, <3>1
  <2> QED
    BY <2>4, <2>5, <2>6
<1> QED
  BY <1>3, <1>5, <1>6, <1>7

\* The two words WriteFlashSubBlock takes out of the buffer.
Instruction == {<<FlushAddress, buffer[latch]>>, <<FlushAddress + 1, buffer[latch + 1]>>}

\* Where they are, and where they go.
LEMMA InstructionFacts ==
  ASSUME DeviceInv, pc = "flush", index > 0
  PROVE  /\ index \in Nat /\ index >= 2 /\ index % 2 = 0 /\ index <= PacketWords
         /\ latch \in Nat /\ latch + index <= PacketWords
         /\ pointer \in 0 .. ConfigEnd /\ pointer # InvalidAddress
         /\ index <= pointer /\ (pointer - index) % 2 = 0
         /\ FlushAddress \in Address /\ FlushAddress + 1 \in Address
         /\ FlushAddress % 2 = 0 /\ FlushAddress # FlushAddress + 1
         /\ buffer[latch] \in Data /\ buffer[latch + 1] \in Data
         /\ Instruction \subseteq Buffered
<1> USE DEF DeviceInv
<1>1. /\ index \in Nat /\ index >= 2 /\ index % 2 = 0 /\ index <= PacketWords
      /\ latch \in Nat /\ latch + index <= PacketWords
      /\ pointer \in 0 .. ConfigEnd /\ pointer # InvalidAddress
      /\ index <= pointer /\ (pointer - index) % 2 = 0
  BY LayoutFacts DEF Position, DeviceTypeOK
<1>2. FlushAddress \in Address /\ FlushAddress + 1 \in Address
  BY <1>1, LayoutFacts DEF FlushAddress, Address
<1>3. buffer[latch] \in Data /\ buffer[latch + 1] \in Data
  <2>1. latch \in Slot /\ latch + 1 \in Slot
    BY <1>1, LayoutFacts DEF Slot
  <2> QED
    BY <2>1 DEF DeviceTypeOK
<1>4. FlushAddress % 2 = 0 /\ FlushAddress # FlushAddress + 1
  BY <1>1 DEF FlushAddress
<1>5. Instruction \subseteq Buffered
  <2>1. First = latch /\ 0 \in 0 .. index - 1 /\ 1 \in 0 .. index - 1
    BY <1>1 DEF First
  <2>2. FlushAddress + 0 = FlushAddress /\ latch + 0 = latch
    BY <1>1, <1>2 DEF Address
  <2> QED
    BY <2>1, <2>2 DEF Instruction, Buffered
<1> QED
  BY <1>1, <1>2, <1>3, <1>4, <1>5

LEMMA DeviceInvWriteInstruction ==
  ASSUME DeviceInv, WriteInstruction
  PROVE  DeviceInv' /\ Buffered' = Buffered \ Instruction
<1> USE DEF DeviceInv, WriteInstruction, link
<1>1. /\ index \in Nat /\ index >= 2 /\ index % 2 = 0 /\ index <= PacketWords
      /\ latch \in Nat /\ latch + index <= PacketWords
      /\ pointer \in 0 .. ConfigEnd /\ pointer # InvalidAddress
      /\ index <= pointer /\ (pointer - index) % 2 = 0
  BY InstructionFacts
<1>2. FlushAddress \in Address /\ FlushAddress + 1 \in Address /\ FlushAddress # FlushAddress + 1
  BY InstructionFacts
<1>3. buffer[latch] \in Data /\ buffer[latch + 1] \in Data
  BY InstructionFacts
<1>4. DeviceTypeOK'
  <2>1. flash \in [Address -> Contents]
    BY DEF DeviceTypeOK
  <2>2. Burn(flash[FlushAddress], buffer[latch]) \in Contents
    BY <1>2, <1>3, <2>1, BurnType
  <2>3. Burn(flash[FlushAddress + 1], buffer[latch + 1]) \in Contents
    BY <1>2, <1>3, <2>1, BurnType
  <2>5. flash' \in [Address -> Contents]
    BY <1>2, <2>1, <2>2, <2>3
  <2>6. index' \in 0 .. PacketWords /\ latch' \in 0 .. PacketWords
    BY <1>1, LayoutFacts
  <2> QED
    BY <2>5, <2>6 DEF DeviceTypeOK
<1>5. Position'
  <2>1. index' % 2 = 0 /\ latch' + index' <= PacketWords /\ index' <= pointer'
        /\ (pointer' - index') % 2 = 0
    BY <1>1, LayoutFacts
  <2> QED
    BY <1>1, <2>1 DEF Position, Awaited
<1>6. Buffered' = Buffered \ Instruction
  <2> DEFINE at == pointer - index
             pair(j) == <<at + j, buffer[latch + j]>>
  <2>1. Buffered = {pair(j) : j \in 0 .. index - 1}
    BY DEF Buffered, FlushAddress, First
  <2>2. Buffered' = {pair(j) : j \in 2 .. index - 1}
    <3>1. Buffered' = {<<at + 2 + j, buffer[latch + 2 + j]>> : j \in 0 .. index - 3}
      BY <1>1 DEF Buffered, FlushAddress, First
    <3>2. \A j \in 0 .. index - 3 :
            j + 2 \in 2 .. index - 1 /\ <<at + 2 + j, buffer[latch + 2 + j]>> = pair(j + 2)
      BY <1>1
    <3>3. \A j \in 2 .. index - 1 :
            j - 2 \in 0 .. index - 3
              /\ <<at + 2 + (j - 2), buffer[latch + 2 + (j - 2)]>> = pair(j)
      BY <1>1
    <3> QED
      BY <3>1, <3>2, <3>3
  <2>3. Instruction = {pair(0), pair(1)}
    BY <1>1 DEF FlushAddress, Instruction
  <2>4. 0 .. index - 1 = {0, 1} \cup 2 .. index - 1
    BY <1>1
  <2>5. \A j \in 2 .. index - 1 : pair(j) # pair(0) /\ pair(j) # pair(1)
    BY <1>1
  <2> HIDE DEF pair
  <2> QED
    BY <2>1, <2>2, <2>3, <2>4, <2>5
<1> QED
  BY <1>4, <1>5, <1>6

LEMMA DeviceInvDisruption ==
  ASSUME DeviceInv, Disruption
  PROVE  DeviceInv' /\ Buffered' = {}
<1> USE DEF DeviceInv
<1>1. EventConfigured \/ PowerCycle
  BY DEF Disruption, ResetDevice
<1>2. /\ configsProtected' = TRUE /\ pointer' = InvalidAddress /\ index' = 0
      /\ outPacket' = Empty /\ inPacket' = Empty
  BY <1>1 DEF EventConfigured, PowerCycle, Reinitialise
<1>3. Empty \in Packet /\ ~Full(Empty)
  BY PlainFacts DEF Empty
<1>4. DeviceTypeOK'
  <2>1. NoData \in [Slot -> Data]
    BY DEF NoData, Data
  <2> QED
    BY <1>1, <1>2, <1>3, <2>1, LayoutFacts
    DEF DeviceTypeOK, EventConfigured, PowerCycle
<1>5. Position'
  <2>1. Awaited(outPacket)' /\ Awaited(packet)' /\ (pc # "idle" => Full(packet))'
    BY <1>1, <1>2, <1>3 DEF Position, Awaited, EventConfigured, PowerCycle
  <2>2. pc' \notin {"program", "flush"}
    BY <1>1 DEF EventConfigured, PowerCycle
  <2>3. (pc = "erase" => packet.cmd = "ERASE_DEVICE")'
    BY <1>1 DEF Position, EventConfigured, PowerCycle
  <2> QED
    BY <1>2, <2>1, <2>2, <2>3, LayoutFacts DEF Position
<1>6. Buffered' = {}
  BY <1>2, NothingBufferedNext
<1> QED
  BY <1>4, <1>5, <1>6

\* A host that takes answers and sends well-formed packets.
LEMMA DeviceInvHost ==
  ASSUME DeviceInv, UNCHANGED deviceVars, inPacket' \in {inPacket, Empty},
         outPacket' = outPacket \/ WellFormed(outPacket')
  PROVE  DeviceInv' /\ Buffered' = Buffered
<1> USE DEF DeviceInv, deviceVars
<1>1. Empty \in Packet
  BY PlainFacts DEF Empty
<1>2. DeviceTypeOK'
  BY <1>1 DEF DeviceTypeOK, WellFormed
<1>3. Position'
  BY DEF Position, Awaited
<1>4. Buffered' = Buffered
  BY BufferedStays DEF First
<1> QED
  BY <1>2, <1>3, <1>4

=============================================================================
