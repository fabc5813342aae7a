---------------------------- MODULE LoaderProofs ----------------------------
(***************************************************************************)
(* Theorems about LoaderSystem, for every size of the bitstream and of the *)
(* DataFlash, every file and any number of faults; and, of a bus on which  *)
(* nothing fails, what the loader says of the FPGA and of the DataFlash.   *)
(***************************************************************************)
EXTENDS LoaderSystem, TLAPS

-----------------------------------------------------------------------------
(* What each operation of the endpoint does.                               *)

SameTransfers(e, f) ==
  f.packet = e.packet /\ f.fresh = e.fresh /\ f.current = e.current /\ f.reply = e.reply

LEMMA ArmFact ==
  ASSUME NEW P, NEW R, NEW e \in EndpointType(P, R)
  PROVE  /\ Arm(e) \in EndpointType(P, R)
         /\ SameTransfers(e, Arm(e))
         /\ e.cpu # NoBuffer =>
              Arm(e).cpu # NoBuffer /\ Arm(e).out # NoBuffer /\ Arm(e).owned[Arm(e).out]
<1>1. e.cpu \in {0, 1, 2}
  BY DEF EndpointType, Buffers, NoBuffer
<1>2. CASE e.cpu = NoBuffer
  BY <1>2 DEF Arm, EndpointType, Buffers, NoBuffer, SameTransfers
<1>3. CASE e.cpu \in Buffers
  <2>1. e.cpu # NoBuffer /\ 1 - e.cpu \in Buffers /\ 1 - e.cpu # NoBuffer
    BY <1>3 DEF Buffers, NoBuffer
  <2>2. Arm(e) = [e EXCEPT !.owned[e.cpu] = TRUE, !.out = e.cpu, !.cpu = 1 - e.cpu]
    BY <2>1 DEF Arm
  <2>3. [e.owned EXCEPT ![e.cpu] = TRUE] \in [Buffers -> BOOLEAN]
    BY DEF EndpointType
  <2>4. [e.owned EXCEPT ![e.cpu] = TRUE][e.cpu]
    BY <1>3 DEF EndpointType
  <2>. QED BY <1>3, <2>1, <2>2, <2>3, <2>4 DEF EndpointType, SameTransfers
<1>. QED BY <1>1, <1>2, <1>3 DEF Buffers, NoBuffer

LEMMA ClearedFact ==
  ASSUME NEW P, NEW R, NEW p \in P, NEW b \in Buffers \cup {NoBuffer},
         NEW h \in Buffers \cup {NoBuffer}
  PROVE  /\ Cleared(p, b, h) \in EndpointType(P, R)
         /\ Cleared(p, b, h).packet = p /\ Cleared(p, b, h).reply = NoReply
         /\ Cleared(p, b, h).cpu = b /\ ~Cleared(p, b, h).fresh
<1>1. Released \in [Buffers -> BOOLEAN]
  BY DEF Released
<1>. QED BY <1>1 DEF Cleared, EndpointType, Buffers

LEMMA EndpointInitFact ==
  ASSUME NEW P, NEW R, NEW p \in P
  PROVE  /\ EndpointInit(p) \in EndpointType(P, R)
         /\ EndpointInit(p).packet = p /\ EndpointInit(p).reply = NoReply
         /\ ~EndpointInit(p).fresh
<1>1. Released \in [Buffers -> BOOLEAN]
  BY DEF Released
<1>. QED BY <1>1 DEF EndpointInit, Cleared, EndpointType, Buffers

LEMMA ConfigureFact ==
  ASSUME NEW P, NEW R, NEW e \in EndpointType(P, R)
  PROVE  /\ Configure(e) \in EndpointType(P, R)
         /\ Configure(e).packet = e.packet
         /\ Configure(e).reply = NoReply /\ ~Configure(e).fresh
         /\ Configure(e).cpu # NoBuffer /\ Configure(e).out # NoBuffer
         /\ Configure(e).owned[Configure(e).out]
<1>. DEFINE c == Cleared(e.packet, 0, NoBuffer)
<1>1. e.packet \in P
  BY DEF EndpointType
<1>2. c \in EndpointType(P, R) /\ c.packet = e.packet /\ c.reply = NoReply
      /\ c.cpu # NoBuffer /\ ~c.fresh
  BY <1>1, ClearedFact DEF Buffers, NoBuffer
<1>. HIDE DEF c
<1>3. Configure(e) = Arm(c)
  BY DEF Configure, c
<1>. QED BY <1>2, <1>3, ArmFact DEF SameTransfers

LEMMA BusResetFact ==
  ASSUME NEW P, NEW R, NEW e \in EndpointType(P, R)
  PROVE  /\ BusReset(e) \in EndpointType(P, R)
         /\ BusReset(e).packet = e.packet /\ BusReset(e).reply = NoReply
         /\ ~BusReset(e).fresh
<1>. DEFINE c == Cleared(e.packet, NoBuffer, e.out)
<1>1. e.packet \in P /\ e.out \in Buffers \cup {NoBuffer}
  BY DEF EndpointType
<1>2. c \in EndpointType(P, R) /\ c.packet = e.packet /\ c.reply = NoReply /\ ~c.fresh
  BY <1>1, ClearedFact DEF Buffers, NoBuffer
<1>3. BusReset(e) = c
  BY DEF BusReset
<1>. QED BY <1>2, <1>3

LEMMA StoreFact ==
  ASSUME NEW P, NEW R, NEW e \in EndpointType(P, R), NEW p \in P
  PROVE  /\ Store(e, p) \in EndpointType(P, R)
         /\ Store(e, p).packet = p /\ Store(e, p).fresh
         /\ Store(e, p).cpu = e.cpu /\ Store(e, p).out = e.out
         /\ Store(e, p).current = e.current /\ Store(e, p).reply = e.reply
<1>1. 1 - e.sie \in Buffers
  BY DEF EndpointType, Buffers
<1>2. [e.owned EXCEPT ![e.sie] = FALSE] \in [Buffers -> BOOLEAN]
  BY DEF EndpointType
<1>. QED BY <1>1, <1>2 DEF Store, EndpointType

LEMMA TakenFact ==
  ASSUME NEW P, NEW R, NEW e \in EndpointType(P, R)
  PROVE  /\ Taken(e) \in EndpointType(P, R)
         /\ Taken(e).packet = e.packet /\ Taken(e).current = e.current /\ ~Taken(e).fresh
         /\ Taken(e).reply = e.reply /\ Taken(e).cpu = e.cpu /\ Taken(e).out = e.out
BY DEF Taken, EndpointType

LEMMA TakenArmFact ==
  ASSUME NEW P, NEW R, NEW e \in EndpointType(P, R)
  PROVE  /\ Arm(Taken(e)) \in EndpointType(P, R)
         /\ Arm(Taken(e)).packet = e.packet /\ Arm(Taken(e)).current = e.current
         /\ Arm(Taken(e)).reply = e.reply /\ ~Arm(Taken(e)).fresh
         /\ e.cpu # NoBuffer =>
              /\ Arm(Taken(e)).cpu # NoBuffer /\ Arm(Taken(e)).out # NoBuffer
              /\ Arm(Taken(e)).owned[Arm(Taken(e)).out]
<1>. DEFINE t == Taken(e)
<1>1. t \in EndpointType(P, R) /\ t.packet = e.packet /\ t.current = e.current
      /\ t.reply = e.reply /\ t.cpu = e.cpu /\ ~t.fresh
  BY TakenFact
<1>. HIDE DEF t
<1>2. Arm(t) \in EndpointType(P, R) /\ SameTransfers(t, Arm(t))
      /\ (t.cpu # NoBuffer =>
            Arm(t).cpu # NoBuffer /\ Arm(t).out # NoBuffer /\ Arm(t).owned[Arm(t).out])
  BY <1>1, ArmFact
<1>3. t = Taken(e)
  BY DEF t
<1>. QED BY <1>1, <1>2, <1>3 DEF SameTransfers

-----------------------------------------------------------------------------
(* Type correctness.  The ranges of what a packet carries and of the       *)
(* loader's counters make it inductive.                                    *)

Endpoint == EndpointType(Packet, Reply)

PacketOK(p) ==
  /\ p.cmd = "FPGA_WRITE_BITSTREAM" => p.part \in 1 .. Chunks
  /\ p.cmd = "DATAFLASH_FILL_BUFFER" => p.part \in Part
  /\ p.cmd = "DATAFLASH_FLUSH_BUFFER" => p.page \in Page
  /\ p.cmd = "DATAFLASH_READ" => p.page \in Page /\ p.part \in Part

StepOK ==
  /\ step \in {"master", "fill", "flush", "read", "compare"} => page \in Page
  /\ step \in {"fill", "read", "compare"} => n \in Part
  /\ step \in {"poll", "polled"} => n \in 1 .. Polls
  /\ step = "chunk" => n \in 1 .. Chunks + 1

TypeInv == SystemTypeOK /\ StepOK /\ PacketOK(ep.packet)

LEMMA AnswerFact ==
  ASSUME BoardTypeOK, NEW b0 \in BOOLEAN, NEW b1 \in BOOLEAN, NEW d \in Data,
         Answer(b0, b1, d)
  PROVE  ep' \in Endpoint /\ ep'.packet = ep.packet /\ pc' = "reply"
<1>. DEFINE r == [byte0 |-> b0, byte1 |-> b1, data |-> d]
            t == Taken(ep)
<1>1. r \in Reply
  BY DEF Reply
<1>2. t \in Endpoint /\ t.packet = ep.packet
  BY TakenFact DEF BoardTypeOK, Endpoint
<1>3. ep' = [t EXCEPT !.reply = r, !.current = TRUE] /\ pc' = "reply"
  BY DEF Answer
<1>. HIDE DEF r, t
<1>. QED BY <1>1, <1>2, <1>3 DEF Endpoint, EndpointType

LEMMA RefreshFact ==
  ASSUME BoardTypeOK, Refresh
  PROVE  ep' \in Endpoint /\ ep'.packet = ep.packet /\ pc' = "ui"
BY TakenArmFact DEF BoardTypeOK, Refresh, Endpoint

LEMMA InitType == Init => TypeInv
<1>. SUFFICES ASSUME Init PROVE TypeInv
  OBVIOUS
<1>1. NoPacket \in Packet /\ PacketOK(NoPacket)
  BY BoardAssumption DEF NoPacket, Packet, PacketOK
<1>2. ep = EndpointInit(NoPacket)
  BY DEF Init, BoardInit, Booted
<1>3. ep \in Endpoint /\ ep.packet = NoPacket
  BY <1>1, <1>2, EndpointInitFact DEF Endpoint
<1>4. BoardTypeOK
  BY <1>3, BoardAssumption
  DEF Init, BoardInit, Booted, BoardTypeOK, Endpoint, Ready, Image
<1>5. failed \in BOOLEAN /\ loaded \in BOOLEAN /\ NoInput \in Bytes
  BY Zenon DEF Init, LoaderInit, NoInput, Bytes
<1>6. LoaderTypeOK /\ StepOK
  BY <1>5, BoardAssumption, LoaderAssumption
  DEF Init, LoaderInit, LoaderTypeOK, StepOK, Bytes, Page, Part
<1>7. faults \in 0 .. MaxFaults
  BY FaultsAssumption DEF Init
<1>. QED BY <1>1, <1>3, <1>4, <1>5, <1>6, <1>7 DEF TypeInv, SystemTypeOK

\* What an action keeps that touches neither the loader nor the packet.
LEMMA BoardTypeKept ==
  ASSUME TypeInv, BoardTypeOK', UNCHANGED loaderVars, ep'.packet = ep.packet,
         faults' \in 0 .. MaxFaults, loaded' \in BOOLEAN
  PROVE  TypeInv'
BY DEF TypeInv, SystemTypeOK, LoaderTypeOK, StepOK, loaderVars

LEMMA FeedFact ==
  ASSUME NEW f \in [core: {"none", "service", "card", "file"}, taken: 0 .. Chunks],
         NEW k \in 1 .. Chunks
  PROVE  Feed(f, k) \in [core: {"none", "service", "card", "file"}, taken: 0 .. Chunks]
BY BoardAssumption DEF Feed, Running, Broken

LEMMA UsbHandlerType ==
  ASSUME TypeInv, UsbHandler
  PROVE  BoardTypeOK' /\ ep'.packet = ep.packet
<1>. USE BoardAssumption DEF flashVars
<1>1. BoardTypeOK /\ PacketOK(ep.packet) /\ ep \in Endpoint
  BY DEF TypeInv, SystemTypeOK, BoardTypeOK, Endpoint
<1>2. ep.packet \in Packet
  BY <1>1 DEF Endpoint, EndpointType
<1>3. CASE UsbIdle
  BY <1>1, <1>3 DEF UsbIdle, BoardTypeOK
<1>4. CASE FpgaGetStatus
  <2>1. PICK b \in InitB(fpga) : Answer(b, fpga.core # "none", Junk)
    BY <1>4 DEF FpgaGetStatus
  <2>2. b \in BOOLEAN
    <3>1. (fpga.taken < Broken) \in BOOLEAN
      OBVIOUS
    <3>. QED BY <2>1, <3>1, Zenon DEF InitB
  <2>3. ep' \in Endpoint /\ ep'.packet = ep.packet /\ pc' = "reply"
    BY <1>1, <2>1, <2>2, AnswerFact
  <2>. QED BY <1>1, <1>4, <2>3 DEF FpgaGetStatus, BoardTypeOK, Endpoint
<1>5. CASE FpgaReset
  BY <1>1, <1>5, RefreshFact DEF FpgaReset, BoardTypeOK, Endpoint, Unconfigured
<1>6. CASE FpgaWriteBitstream
  <2>1. ep.packet.part \in 1 .. Chunks
    BY <1>1, <1>6 DEF FpgaWriteBitstream, Receives, PacketOK
  <2>2. fpga' \in [core: {"none", "service", "card", "file"}, taken: 0 .. Chunks]
    BY <1>1, <1>6, <2>1, FeedFact DEF FpgaWriteBitstream, BoardTypeOK
  <2>. QED BY <1>1, <1>6, <2>2, RefreshFact DEF FpgaWriteBitstream, BoardTypeOK, Endpoint
<1>7. CASE SetSpiMaster
  BY <1>1, <1>7, RefreshFact DEF SetSpiMaster, BoardTypeOK, Endpoint
<1>8. CASE DataflashGetStatus
  <2>1. PICK b \in IF mux = "mcu" THEN {job = Ready} ELSE BOOLEAN : Answer(b, FALSE, Junk)
    BY <1>8 DEF DataflashGetStatus
  <2>2. ep' \in Endpoint /\ ep'.packet = ep.packet /\ pc' = "reply"
    BY <1>1, <2>1, AnswerFact
  <2>. QED BY <1>1, <1>8, <2>2 DEF DataflashGetStatus, BoardTypeOK, Endpoint
<1>9. CASE DataflashChipErase
  BY <1>1, <1>9, RefreshFact DEF DataflashChipErase, BoardTypeOK, Endpoint, Erasing
<1>10. CASE DataflashFillBuffer
  <2>1. ep.packet.data \in Data
    BY <1>2 DEF Packet
  <2>2. buffer' \in [Part -> Data]
    BY <1>1, <1>10, <2>1 DEF DataflashFillBuffer, BoardTypeOK
  <2>. QED BY <1>1, <1>10, <2>2, RefreshFact DEF DataflashFillBuffer, BoardTypeOK, Endpoint
<1>11. CASE DataflashFlushBuffer
  <2>1. ep.packet.page \in Page
    BY <1>1, <1>11 DEF DataflashFlushBuffer, Receives, PacketOK
  <2>2. job' \in 0 .. Pages + 1
    BY <1>1, <1>11, <2>1 DEF DataflashFlushBuffer, BoardTypeOK, Page
  <2>3. ep' \in Endpoint /\ ep'.packet = ep.packet
    BY <1>1, <1>11, TakenFact DEF DataflashFlushBuffer, Endpoint
  <2>. QED BY <1>1, <1>11, <2>2, <2>3 DEF DataflashFlushBuffer, BoardTypeOK, Endpoint
<1>12. CASE DataflashRead
  <2>. DEFINE d == IF Listening THEN store[ep.packet.page][ep.packet.part] ELSE Junk
  <2>1. ep.packet.page \in Page /\ ep.packet.part \in Part
    BY <1>1, <1>12 DEF DataflashRead, Receives, PacketOK
  <2>2. d \in Data
    BY <1>1, <2>1 DEF BoardTypeOK, Image
  <2>3. ep' \in Endpoint /\ ep'.packet = ep.packet /\ pc' = "reply"
    BY <1>1, <1>12, <2>2, AnswerFact DEF DataflashRead
  <2>. QED BY <1>1, <1>12, <2>3 DEF DataflashRead, BoardTypeOK, Endpoint
<1>13. CASE FlushEnds \/ ReplyTaken
  <2>1. ep' = Arm(ep) /\ pc' = "ui" /\ UNCHANGED <<ui, fpga, mux, store, buffer, job, bus>>
    BY <1>13 DEF FlushEnds, ReplyTaken
  <2>2. ep' \in Endpoint /\ ep'.packet = ep.packet
    BY <1>1, <2>1, ArmFact DEF Endpoint, SameTransfers
  <2>. QED BY <1>1, <2>1, <2>2 DEF BoardTypeOK, Endpoint
<1>. QED BY <1>3, <1>4, <1>5, <1>6, <1>7, <1>8, <1>9, <1>10, <1>11, <1>12, <1>13
         DEF UsbHandler

LEMMA UiHandlerType ==
  ASSUME TypeInv, UiHandler
  PROVE  BoardTypeOK' /\ ep' = ep
<1>. USE BoardAssumption DEF flashVars, TypeInv, SystemTypeOK, BoardTypeOK
<1>. DEFINE Fpgas == [core: {"none", "service", "card", "file"}, taken: 0 .. Chunks]
<1>1. /\ Unconfigured \in Fpgas /\ Running("service") \in Fpgas
      /\ Running("card") \in Fpgas /\ Running("file") \in Fpgas
  BY DEF Unconfigured, Running
<1>2. CASE UiInit
  <2>1. fpga' \in Fpgas
    BY <1>1, <1>2 DEF UiInit
  <2>. QED BY <1>2, <2>1 DEF UiInit
<1>3. CASE UiAutoStart
  BY <1>3 DEF UiAutoStart
<1>4. CASE UiMainLoop
  BY <1>4 DEF UiMainLoop, InUi
<1>5. CASE UiConfig
  <2>1. Disturb(fpga) \in Fpgas
    BY DEF Disturb, Broken
  <2>2. fpga' \in Fpgas /\ mux' \in {"mcu", "fpga"}
    BY <1>1, <1>5, <2>1 DEF UiConfig
  <2>. QED BY <1>5, <2>2 DEF UiConfig
<1>6. CASE UiLoop
  BY <1>6 DEF UiLoop
<1>. QED BY <1>2, <1>3, <1>4, <1>5, <1>6 DEF UiHandler

LEMMA BoardStepType ==
  ASSUME TypeInv, BoardStep
  PROVE  TypeInv'
<1>1. BoardTypeOK' /\ ep'.packet = ep.packet
  BY UsbHandlerType, UiHandlerType DEF BoardStep, Main
<1>2. loaded' \in BOOLEAN /\ UNCHANGED <<loaderVars, faults>>
  BY Zenon DEF BoardStep
<1>. QED BY <1>1, <1>2, BoardTypeKept DEF TypeInv, SystemTypeOK

LEMMA ChipType ==
  ASSUME TypeInv, Chip
  PROVE  TypeInv'
<1>. USE BoardAssumption DEF TypeInv, SystemTypeOK, BoardTypeOK
<1>1. [p \in Page |-> [s \in Part |-> Blank]] \in Image
  BY DEF Image
<1>2. [store EXCEPT ![job] = buffer] \in Image
  BY DEF Image
<1>3. store' \in Image /\ job' \in 0 .. Pages + 1
  BY <1>1, <1>2 DEF Chip, FlashDone, Ready
<1>4. BoardTypeOK' /\ ep' = ep
  BY <1>3 DEF Chip, FlashDone
<1>. QED BY <1>4, BoardTypeKept DEF Chip

\* One transfer of the loader, whatever its result, and where it goes next.

TransferOK == ep' \in Endpoint /\ PacketOK(ep'.packet) /\ failed' \in BOOLEAN

BoardKept == UNCHANGED <<pc, ui, fpga, mux, store, buffer, job, bus, faults, loaded>>

MayGo(s, k) ==
  /\ s \in {"master", "fill", "flush", "read", "compare"} => page \in Page
  /\ s \in {"fill", "read", "compare"} => k \in Part
  /\ s \in {"poll", "polled"} => k \in 1 .. Polls
  /\ s = "chunk" => k \in 1 .. Chunks + 1
  /\ k \in 0 .. Polls + Chunks + Parts
  /\ s \in {"reset", "poll", "polled", "chunk", "final", "finished", "master",
            "fill", "flush", "read", "compare", "erase", "status", "wait", "idle"}

LEMMA EndpointFacts ==
  ASSUME TypeInv
  PROVE  ep \in Endpoint /\ PacketOK(ep.packet) /\ failed \in BOOLEAN
BY DEF TypeInv, SystemTypeOK, BoardTypeOK, LoaderTypeOK, Endpoint

LEMMA FailsOK ==
  ASSUME TypeInv, WriteFails \/ ReadFails
  PROVE  TransferOK
<1>1. ep' = ep /\ failed' \in BOOLEAN
  BY Zenon DEF WriteFails, ReadFails
<1>. QED BY <1>1, EndpointFacts DEF TransferOK

LEMMA WritesOK ==
  ASSUME TypeInv, NEW cmd, NEW pg \in 0 .. Pages, NEW part \in 0 .. Chunks + Parts,
         NEW d \in Data,
         cmd \in {"FPGA_GET_STATUS", "FPGA_RESET", "FPGA_WRITE_BITSTREAM",
                 "SET_SPI_MASTER", "DATAFLASH_GET_STATUS", "DATAFLASH_CHIP_ERASE",
                 "DATAFLASH_FILL_BUFFER", "DATAFLASH_FLUSH_BUFFER", "DATAFLASH_READ"},
         cmd = "FPGA_WRITE_BITSTREAM" => part \in 1 .. Chunks,
         cmd = "DATAFLASH_FILL_BUFFER" => part \in Part,
         cmd = "DATAFLASH_FLUSH_BUFFER" => pg \in Page,
         cmd = "DATAFLASH_READ" => pg \in Page /\ part \in Part,
         Writes(cmd, pg, part, d)
  PROVE  TransferOK
<1>. DEFINE p == [cmd |-> cmd, page |-> pg, part |-> part, data |-> d]
<1>1. p \in Packet /\ PacketOK(p)
  BY DEF Packet, PacketOK
<1>2. ep' = Store(ep, p) /\ failed' = failed
  BY DEF Writes
<1>. HIDE DEF p
<1>. QED BY <1>1, <1>2, EndpointFacts, StoreFact DEF TransferOK, Endpoint

LEMMA SendsOK ==
  ASSUME TypeInv, NEW cmd,
         cmd \in {"FPGA_GET_STATUS", "FPGA_RESET", "DATAFLASH_GET_STATUS",
                 "DATAFLASH_CHIP_ERASE"},
         Sends(cmd)
  PROVE  TransferOK
<1>1. Writes(cmd, 0, 0, Blank) \/ WriteFails
  BY DEF Sends
<1>2. 0 \in 0 .. Pages /\ 0 \in 0 .. Chunks + Parts /\ Blank \in Data
  BY BoardAssumption
<1>. QED BY <1>1, <1>2, WritesOK, FailsOK

LEMMA ReadsOK ==
  ASSUME TypeInv, Reads
  PROVE  TransferOK /\ ep.reply \in Reply
<1>1. ep.reply \in Reply \cup {NoReply}
  BY EndpointFacts DEF Endpoint, EndpointType
<1>2. ep' = [ep EXCEPT !.reply = NoReply] /\ ep.reply # NoReply /\ failed' = failed
  BY DEF Reads
<1>3. ep' \in Endpoint /\ ep'.packet = ep.packet
  BY <1>2, EndpointFacts DEF Endpoint, EndpointType
<1>. QED BY <1>1, <1>2, <1>3, EndpointFacts DEF TransferOK

LEMMA AsksOK ==
  ASSUME TypeInv, NEW a, Asks(a)
  PROVE  TransferOK
BY ReadsOK, FailsOK DEF Asks

LEMMA GoesType ==
  ASSUME TypeInv, BoardKept, TransferOK, NEW s, NEW k, Goes(s, k), MayGo(s, k),
         input' \in Bytes
  PROVE  TypeInv'
<1>1. BoardTypeOK'
  BY DEF TypeInv, SystemTypeOK, BoardTypeOK, BoardKept, TransferOK, Endpoint
<1>2. LoaderTypeOK'
  BY DEF TypeInv, SystemTypeOK, LoaderTypeOK, TransferOK, Goes, MayGo, Bytes
<1>3. StepOK' /\ PacketOK(ep'.packet)
  BY DEF StepOK, TransferOK, Goes, MayGo
<1>4. faults' \in 0 .. MaxFaults /\ loaded' \in BOOLEAN
  BY DEF TypeInv, SystemTypeOK, BoardKept
<1>. QED BY <1>1, <1>2, <1>3, <1>4 DEF TypeInv, SystemTypeOK

LEMMA EndsType ==
  ASSUME TypeInv, BoardKept, TransferOK, NEW m, Ends(m),
         m \in {"nothing", "resetError", "configured", "configurationError",
               "transmitError", "verifyFailed", "programmed", "erased"}
  PROVE  TypeInv'
<1>1. BoardTypeOK'
  BY DEF TypeInv, SystemTypeOK, BoardTypeOK, BoardKept, TransferOK, Endpoint
<1>2. LoaderTypeOK' /\ StepOK'
  BY BoardAssumption, LoaderAssumption
  DEF LoaderTypeOK, StepOK, TransferOK, Ends, NoInput
<1>3. faults' \in 0 .. MaxFaults /\ loaded' \in BOOLEAN /\ PacketOK(ep'.packet)
  BY DEF TypeInv, SystemTypeOK, BoardKept, TransferOK
<1>. QED BY <1>1, <1>2, <1>3 DEF TypeInv, SystemTypeOK

LEMMA NextPageType ==
  ASSUME TypeInv, BoardKept, TransferOK, NextPage, page \in Page
  PROVE  TypeInv'
<1>1. CASE page < Pages
  <2>1. page' \in Page /\ n' \in Part /\ n' \in 0 .. Polls + Chunks + Parts
        /\ step' = "fill" /\ UNCHANGED <<op, said, handle, input>>
    BY <1>1, BoardAssumption, LoaderAssumption DEF NextPage, Page, Part
  <2>2. BoardTypeOK'
    BY DEF TypeInv, SystemTypeOK, BoardTypeOK, BoardKept, TransferOK, Endpoint
  <2>3. LoaderTypeOK'
    BY <2>1, BoardAssumption DEF TypeInv, SystemTypeOK, LoaderTypeOK, TransferOK, Page
  <2>4. StepOK' /\ PacketOK(ep'.packet)
    BY <2>1 DEF StepOK, TransferOK
  <2>5. faults' \in 0 .. MaxFaults /\ loaded' \in BOOLEAN
    BY DEF TypeInv, SystemTypeOK, BoardKept
  <2>. QED BY <2>2, <2>3, <2>4, <2>5 DEF TypeInv, SystemTypeOK
<1>2. CASE ~(page < Pages)
  BY <1>2, EndsType DEF NextPage
<1>. QED BY <1>1, <1>2

LEMMA NextPartType ==
  ASSUME TypeInv, BoardKept, TransferOK, NextPart, page \in Page, n \in Part
  PROVE  TypeInv'
<1>1. CASE n < Parts
  <2>1. Goes("read", n + 1) /\ MayGo("read", n + 1)
    BY <1>1, BoardAssumption, LoaderAssumption DEF NextPart, MayGo, Part
  <2>2. input' \in Bytes
    BY <1>1 DEF NextPart, TypeInv, SystemTypeOK, LoaderTypeOK, Bytes
  <2>. QED BY <2>1, <2>2, GoesType
<1>2. CASE ~(n < Parts)
  BY <1>2, NextPageType DEF NextPart
<1>. QED BY <1>1, <1>2

LEMMA TransferType ==
  ASSUME TypeInv, LoaderStep
  PROVE  TypeInv'
<1>. USE BoardAssumption, LoaderAssumption
<1>1. BoardKept /\ Transfer
  BY DEF LoaderStep, BoardKept, flashVars
<1>2. /\ input \in Bytes /\ n \in 0 .. Polls + Chunks + Parts /\ page \in 0 .. Pages
      /\ StepOK
  BY DEF TypeInv, SystemTypeOK, LoaderTypeOK, Bytes
<1>3. CASE SendReset
  BY <1>1, <1>2, <1>3, SendsOK, GoesType DEF SendReset, MayGo
<1>4. CASE SendPoll
  <2>1. MayGo("polled", n)
    BY <1>2, <1>4 DEF SendPoll, At, MayGo, StepOK
  <2>. QED BY <1>1, <1>2, <1>4, <2>1, SendsOK, GoesType DEF SendPoll
<1>5. CASE ReadPoll
  <2>1. PICK a \in Bytes :
          /\ Asks(a)
          /\ \/ a.byte0 /\ Goes("chunk", 1) /\ input' = a
             \/ ~a.byte0 /\ n < Polls /\ Goes("poll", n + 1) /\ input' = a
             \/ ~a.byte0 /\ n = Polls /\ Ends("resetError")
    BY <1>5 DEF ReadPoll
  <2>2. TransferOK
    BY <2>1, AsksOK
  <2>3. MayGo("chunk", 1) /\ (n < Polls => MayGo("poll", n + 1))
    BY <1>2 DEF MayGo
  <2>. QED BY <1>1, <2>1, <2>2, <2>3, GoesType, EndsType
<1>6. CASE SendChunk
  <2>1. n \in 1 .. Chunks + 1 /\ UNCHANGED input
    BY <1>2, <1>6 DEF SendChunk, At, StepOK
  <2>2. MayGo("final", 0) /\ (n <= Chunks => MayGo("chunk", n + 1))
    BY <2>1 DEF MayGo
  <2>3. TransferOK
    <3>1. CASE n <= Chunks /\ Writes("FPGA_WRITE_BITSTREAM", 0, n, Blank)
      BY <2>1, <3>1, WritesOK
    <3>2. CASE WriteFails
      BY <3>2, FailsOK
    <3>3. CASE UNCHANGED <<ep, failed>>
      BY <3>3, EndpointFacts DEF TransferOK
    <3>. QED BY <1>6, <3>1, <3>2, <3>3 DEF SendChunk
  <2>. QED BY <1>1, <1>2, <1>6, <2>1, <2>2, <2>3, GoesType DEF SendChunk
<1>7. CASE SendFinal
  BY <1>1, <1>2, <1>7, SendsOK, GoesType DEF SendFinal, MayGo
<1>8. CASE ReadFinal
  <2>1. PICK a \in Bytes :
          Asks(a) /\ Ends(IF a.byte1 THEN "configured" ELSE "configurationError")
    BY <1>8 DEF ReadFinal
  <2>. QED BY <1>1, <2>1, AsksOK, EndsType
<1>9. CASE SetMaster
  <2>1. page \in Page
    BY <1>2, <1>9 DEF SetMaster, At, StepOK
  <2>2. MayGo("fill", 1) /\ 0 \in 0 .. Pages /\ 0 \in 0 .. Chunks + Parts
    BY <2>1 DEF MayGo, Part
  <2>. QED BY <1>1, <1>2, <1>9, <2>2, WritesOK, FailsOK, GoesType, EndsType DEF SetMaster
<1>10. CASE Fill
  <2>1. page \in Page /\ n \in Part
    BY <1>2, <1>10 DEF Fill, At, StepOK
  <2>2. MayGo("flush", 0) /\ (n < Parts => MayGo("fill", n + 1))
    BY <2>1 DEF MayGo, Part
  <2>3. File[page][n] \in Data /\ n \in 0 .. Chunks + Parts
    BY <2>1 DEF Image, Part
  <2>4. TransferOK
    BY <1>2, <1>10, <2>1, <2>3, WritesOK, FailsOK DEF Fill
  <2>. QED BY <1>1, <1>2, <1>10, <2>2, <2>4, GoesType DEF Fill
<1>11. CASE Flush
  <2>1. page \in Page
    BY <1>2, <1>11 DEF Flush, At, StepOK
  <2>2. MayGo("read", 1) /\ 0 \in 0 .. Chunks + Parts
    BY <2>1 DEF MayGo, Part
  <2>. QED BY <1>1, <1>2, <1>11, <2>1, <2>2, WritesOK, FailsOK, GoesType, EndsType DEF Flush
<1>12. CASE Read
  <2>1. page \in Page /\ n \in Part
    BY <1>2, <1>12 DEF Read, At, StepOK
  <2>2. MayGo("compare", n) /\ n \in 0 .. Chunks + Parts
    BY <1>2, <2>1 DEF MayGo, Part
  <2>. QED BY <1>1, <1>2, <1>12, <2>1, <2>2, WritesOK, FailsOK, GoesType, NextPageType DEF Read
<1>13. CASE Compare
  <2>1. page \in Page /\ n \in Part
    BY <1>2, <1>13 DEF Compare, At, StepOK
  <2>2. TransferOK
    BY <1>13, ReadsOK, FailsOK DEF Compare
  <2>. QED BY <1>1, <1>13, <2>1, <2>2, EndsType, NextPartType, NextPageType DEF Compare
<1>14. CASE ChipErase
  BY <1>1, <1>2, <1>14, SendsOK, GoesType DEF ChipErase, MayGo
<1>15. CASE EraseStatus
  BY <1>1, <1>2, <1>15, SendsOK, GoesType DEF EraseStatus, MayGo
<1>16. CASE EraseDone
  <2>1. PICK a \in Bytes :
          Asks(a) /\ IF a.byte0 THEN Ends("erased") ELSE Goes("status", 0) /\ input' = a
    BY <1>16 DEF EraseDone
  <2>2. MayGo("status", 0)
    BY DEF MayGo
  <2>. QED BY <1>1, <2>1, <2>2, AsksOK, GoesType, EndsType
<1>. QED BY <1>1, <1>3, <1>4, <1>5, <1>6, <1>7, <1>8, <1>9, <1>10, <1>11, <1>12, <1>13,
            <1>14, <1>15, <1>16 DEF Transfer

LEMMA ButtonType ==
  ASSUME TypeInv, Button
  PROVE  TypeInv'
<1>. USE BoardAssumption, LoaderAssumption
<1>1. PICK o \in {"configure", "write", "erase"}, s \in {"reset", "master", "erase"},
           G \in {Bytes, {NoInput}} : Opens(o, s, G)
  BY DEF Button, ConfigureFPGA, WriteDataflash, EraseDataflash
<1>2. ep' \in Endpoint /\ ep'.packet = ep.packet
  BY <1>1, EndpointFacts, ConfigureFact DEF Opens, SetConfiguration, Endpoint
<1>3. BoardTypeOK'
  BY <1>1, <1>2
  DEF TypeInv, SystemTypeOK, BoardTypeOK, Opens, SetConfiguration, flashVars, Endpoint
<1>4. input' \in Bytes
  <2>1. NoInput \in Bytes
    BY DEF NoInput, Bytes
  <2>2. input' \in G
    BY <1>1 DEF Opens
  <2>. QED BY <2>1, <2>2
<1>5. failed' \in BOOLEAN /\ loaded' \in BOOLEAN
  BY <1>1, Zenon DEF Opens, Button
<1>6. op' = o /\ step' = s /\ n' = 1 /\ page' = 1 /\ handle' = "open" /\ said' = "nothing"
  BY <1>1 DEF Opens
<1>7. LoaderTypeOK' /\ StepOK'
  BY <1>4, <1>5, <1>6 DEF LoaderTypeOK, StepOK, Bytes, Page
<1>8. faults' \in 0 .. MaxFaults
  BY DEF Button, TypeInv, SystemTypeOK
<1>. QED BY <1>2, <1>3, <1>5, <1>7, <1>8, EndpointFacts DEF TypeInv, SystemTypeOK

LEMMA PluggedInType ==
  ASSUME TypeInv, PluggedIn
  PROVE  TypeInv'
<1>1. ep' \in Endpoint /\ ep'.packet = ep.packet
  BY EndpointFacts, BusResetFact DEF PluggedIn, Plug, Endpoint
<1>2. BoardTypeOK'
  BY <1>1 DEF TypeInv, SystemTypeOK, BoardTypeOK, PluggedIn, Plug, flashVars, Endpoint
<1>. QED BY <1>1, <1>2, BoardTypeKept DEF PluggedIn, TypeInv, SystemTypeOK

LEMMA FaultType ==
  ASSUME TypeInv, Fault
  PROVE  TypeInv'
<1>1. faults' \in 0 .. MaxFaults /\ loaded' \in BOOLEAN
  BY FaultsAssumption DEF Fault, TypeInv, SystemTypeOK
<1>2. CASE Unplug /\ Leaves
  <2>1. BoardTypeOK' /\ ep' = ep
    BY <1>2 DEF Unplug, flashVars, TypeInv, SystemTypeOK, BoardTypeOK
  <2>2. LoaderTypeOK' /\ StepOK'
    BY <1>2 DEF Leaves, TypeInv, SystemTypeOK, LoaderTypeOK, StepOK
  <2>. QED BY <1>1, <2>1, <2>2 DEF TypeInv, SystemTypeOK
<1>3. CASE PowerButton /\ Leaves
  <2>1. NoPacket \in Packet /\ PacketOK(NoPacket)
    BY BoardAssumption DEF NoPacket, Packet, PacketOK
  <2>2. ep' \in Endpoint /\ ep'.packet = NoPacket
    <3>1. ep' = EndpointInit(NoPacket)
      BY <1>3 DEF PowerButton
    <3>. QED BY <2>1, <3>1, EndpointInitFact DEF Endpoint
  <2>3. BoardTypeOK'
    BY <1>3, <2>2 DEF PowerButton, flashVars, TypeInv, SystemTypeOK, BoardTypeOK, Endpoint
  <2>4. LoaderTypeOK' /\ StepOK'
    BY <1>3 DEF Leaves, TypeInv, SystemTypeOK, LoaderTypeOK, StepOK
  <2>. QED BY <1>1, <2>1, <2>2, <2>3, <2>4 DEF TypeInv, SystemTypeOK
<1>4. CASE Killed /\ UNCHANGED boardVars
  <2>1. BoardTypeOK' /\ ep' = ep
    BY <1>4 DEF boardVars, flashVars, TypeInv, SystemTypeOK, BoardTypeOK
  <2>2. LoaderTypeOK' /\ StepOK'
    BY <1>4, BoardAssumption, LoaderAssumption
    DEF Killed, Ends, NoInput, TypeInv, SystemTypeOK, LoaderTypeOK, StepOK
  <2>. QED BY <1>1, <2>1, <2>2 DEF TypeInv, SystemTypeOK
<1>. QED BY <1>2, <1>3, <1>4 DEF Fault

LEMMA NextType == TypeInv /\ [Next]_vars => TypeInv'
<1>. SUFFICES ASSUME TypeInv, [Next]_vars PROVE TypeInv'
  OBVIOUS
<1>1. CASE Next
  BY <1>1, BoardStepType, ChipType, TransferType, ButtonType, PluggedInType, FaultType
  DEF Next
<1>2. CASE UNCHANGED vars
  BY <1>2
  DEF vars, boardVars, flashVars, loaderVars, TypeInv, SystemTypeOK, BoardTypeOK,
      LoaderTypeOK, StepOK
<1>. QED BY <1>1, <1>2

LEMMA TypeInvariant == Spec => []TypeInv
BY InitType, NextType, PTL DEF Spec

\* Every variable keeps its type, whatever the board, the loader and the user
\* do: in particular no packet names a page or a part that does not exist
\* (usb_handler.c:198-227, mainwindow.cpp:270-330).
THEOREM LoaderTypeCorrect == Spec => []SystemTypeOK
<1>1. TypeInv => SystemTypeOK
  BY DEF TypeInv
<1>. QED BY <1>1, TypeInvariant, PTL

-----------------------------------------------------------------------------
(* Packets and answers.  While the bus is configured the handle looks at a *)
(* descriptor; when main() is about to look, the descriptor has come back  *)
(* only because the host has filled it since.                              *)

Served ==
  bus = "configured" =>
    /\ ep.cpu # NoBuffer /\ ep.out # NoBuffer
    /\ pc \in {"main", "ui"} /\ ~ep.owned[ep.out] => ep.fresh

Current == ep.reply # NoReply => ep.current

Exchange == TypeInv /\ Served /\ Current

\* The endpoint is left alone, and main() stays where it looks at it or not.
LEMMA KeptExchange ==
  ASSUME Exchange, TypeInv', UNCHANGED <<ep, bus>>,
         pc' \in {"main", "ui"} => pc \in {"main", "ui"}
  PROVE  Exchange'
BY DEF Exchange, Served, Current

LEMMA RefreshExchange ==
  ASSUME Exchange, TypeInv', UNCHANGED bus, ep' = Arm(Taken(ep)) \/ ep' = Arm(ep)
  PROVE  Exchange'
<1>1. ep \in Endpoint
  BY EndpointFacts DEF Exchange
<1>2. /\ ep'.current = ep.current /\ ep'.reply = ep.reply
      /\ ep.cpu # NoBuffer =>
           ep'.cpu # NoBuffer /\ ep'.out # NoBuffer /\ ep'.owned[ep'.out]
  BY <1>1, ArmFact, TakenArmFact DEF Endpoint, SameTransfers
<1>. QED BY <1>2 DEF Exchange, Served, Current

LEMMA AnswerExchange ==
  ASSUME Exchange, TypeInv', UNCHANGED bus, NEW b0, NEW b1, NEW d, Answer(b0, b1, d)
  PROVE  Exchange'
<1>. DEFINE r == [byte0 |-> b0, byte1 |-> b1, data |-> d]
            t == Taken(ep)
<1>1. t \in Endpoint /\ t.cpu = ep.cpu /\ t.out = ep.out
  BY EndpointFacts, TakenFact DEF Exchange, Endpoint
<1>2. ep' = [t EXCEPT !.reply = r, !.current = TRUE] /\ pc' = "reply"
  BY DEF Answer
<1>. HIDE DEF r, t
<1>3. ep'.cpu = ep.cpu /\ ep'.out = ep.out /\ ep'.current
  BY <1>1, <1>2 DEF Endpoint, EndpointType
<1>. QED BY <1>2, <1>3 DEF Exchange, Served, Current

LEMMA BoardExchange ==
  ASSUME Exchange, TypeInv', BoardStep
  PROVE  Exchange'
<1>1. CASE UsbIdle
  BY <1>1, KeptExchange DEF UsbIdle
<1>2. CASE \/ FpgaReset \/ FpgaWriteBitstream \/ SetSpiMaster
           \/ DataflashChipErase \/ DataflashFillBuffer
  BY <1>2, RefreshExchange
  DEF FpgaReset, FpgaWriteBitstream, SetSpiMaster, DataflashChipErase,
      DataflashFillBuffer, Refresh
<1>3. CASE FpgaGetStatus
  BY <1>3, AnswerExchange DEF FpgaGetStatus
<1>4. CASE DataflashGetStatus
  BY <1>4, AnswerExchange DEF DataflashGetStatus
<1>5. CASE DataflashRead
  BY <1>5, AnswerExchange DEF DataflashRead
<1>6. CASE DataflashFlushBuffer
  <2>1. /\ ep'.cpu = ep.cpu /\ ep'.out = ep.out
        /\ ep'.reply = ep.reply /\ ep'.current = ep.current
    BY <1>6, EndpointFacts, TakenFact DEF DataflashFlushBuffer, Exchange, Endpoint
  <2>. QED BY <1>6, <2>1 DEF DataflashFlushBuffer, Exchange, Served, Current
<1>7. CASE FlushEnds \/ ReplyTaken
  BY <1>7, RefreshExchange DEF FlushEnds, ReplyTaken
<1>8. CASE UiHandler
  BY <1>8, KeptExchange
  DEF UiHandler, UiInit, UiAutoStart, UiMainLoop, UiConfig, UiLoop, InUi
<1>. QED BY <1>1, <1>2, <1>3, <1>4, <1>5, <1>6, <1>7, <1>8
         DEF BoardStep, Main, UsbHandler

\* A transfer stores a packet, takes the answer or leaves the endpoint alone.
LEMMA TransferEffect ==
  ASSUME LoaderStep
  PROVE  \/ \E p : ep' = Store(ep, p)
         \/ ep' = [ep EXCEPT !.reply = NoReply]
         \/ ep' = ep
<1>1. ASSUME NEW cmd, NEW pg, NEW part, NEW d, Writes(cmd, pg, part, d)
      PROVE  \E p : ep' = Store(ep, p)
  BY <1>1 DEF Writes
<1>2. WriteFails \/ ReadFails => ep' = ep
  BY DEF WriteFails, ReadFails
<1>3. Reads => ep' = [ep EXCEPT !.reply = NoReply]
  BY DEF Reads
<1>4. CASE SendReset \/ SendPoll \/ SendFinal \/ ChipErase \/ EraseStatus
  BY <1>1, <1>2, <1>4 DEF SendReset, SendPoll, SendFinal, ChipErase, EraseStatus, Sends
<1>5. CASE ReadPoll \/ ReadFinal \/ EraseDone
  BY <1>2, <1>3, <1>5 DEF ReadPoll, ReadFinal, EraseDone, Asks
<1>6. CASE SendChunk \/ SetMaster \/ Fill \/ Flush \/ Read
  BY <1>1, <1>2, <1>6 DEF SendChunk, SetMaster, Fill, Flush, Read
<1>7. CASE Compare
  BY <1>2, <1>3, <1>7 DEF Compare
<1>. QED BY <1>4, <1>5, <1>6, <1>7 DEF LoaderStep, Transfer

LEMMA TransferExchange ==
  ASSUME Exchange, TypeInv', LoaderStep
  PROVE  Exchange'
<1>1. UNCHANGED <<pc, bus>>
  BY DEF LoaderStep
<1>2. ep \in Endpoint
  BY EndpointFacts DEF Exchange
<1>3. CASE \E p : ep' = Store(ep, p)
  <2>1. PICK p : ep' = Store(ep, p)
    BY <1>3
  <2>2. ep \in EndpointType(Packet \cup {p}, Reply)
    BY <1>2 DEF Endpoint, EndpointType
  <2>3. /\ ep'.fresh /\ ep'.cpu = ep.cpu /\ ep'.out = ep.out
        /\ ep'.current = ep.current /\ ep'.reply = ep.reply
    BY <2>1, <2>2, StoreFact
  <2>. QED BY <1>1, <2>3 DEF Exchange, Served, Current
<1>4. CASE ep' = [ep EXCEPT !.reply = NoReply]
  <2>1. /\ ep'.fresh = ep.fresh /\ ep'.cpu = ep.cpu /\ ep'.out = ep.out
        /\ ep'.owned = ep.owned /\ ep'.reply = NoReply
    BY <1>2, <1>4 DEF Endpoint, EndpointType
  <2>. QED BY <1>1, <2>1 DEF Exchange, Served, Current
<1>5. CASE ep' = ep
  BY <1>1, <1>5, KeptExchange
<1>. QED BY <1>3, <1>4, <1>5, TransferEffect

LEMMA ButtonExchange ==
  ASSUME Exchange, TypeInv', Button
  PROVE  Exchange'
<1>1. SetConfiguration
  BY DEF Button, ConfigureFPGA, WriteDataflash, EraseDataflash, Opens
<1>2. /\ ep'.reply = NoReply /\ ep'.cpu # NoBuffer /\ ep'.out # NoBuffer
      /\ ep'.owned[ep'.out]
  BY <1>1, EndpointFacts, ConfigureFact DEF SetConfiguration, Exchange, Endpoint
<1>. QED BY <1>2 DEF Exchange, Served, Current

LEMMA FaultExchange ==
  ASSUME Exchange, TypeInv', PluggedIn \/ Fault
  PROVE  Exchange'
<1>1. CASE PluggedIn
  <2>1. bus' = "reset" /\ ep' = BusReset(ep)
    BY <1>1 DEF PluggedIn, Plug
  <2>2. ep'.reply = NoReply
    BY <2>1, EndpointFacts, BusResetFact DEF Exchange, Endpoint
  <2>. QED BY <2>1, <2>2 DEF Exchange, Served, Current
<1>2. CASE Fault /\ Unplug
  BY <1>2 DEF Unplug, Exchange, Served, Current
<1>3. CASE Fault /\ PowerButton
  <2>1. bus' = "gone" /\ ep' = EndpointInit(NoPacket)
    BY <1>3 DEF PowerButton
  <2>2. ep'.reply = NoReply
    BY <2>1 DEF EndpointInit, Cleared
  <2>. QED BY <2>1, <2>2 DEF Exchange, Served, Current
<1>4. CASE Fault /\ UNCHANGED boardVars
  BY <1>4, KeptExchange DEF boardVars
<1>. QED BY <1>1, <1>2, <1>3, <1>4 DEF Fault

LEMMA ExchangeInvariant == Spec => []Exchange
<1>1. Init => Exchange
  <2>. SUFFICES ASSUME Init PROVE Exchange
    OBVIOUS
  <2>1. bus = "gone" /\ ep = EndpointInit(NoPacket)
    BY DEF Init, BoardInit, Booted
  <2>2. ep.reply = NoReply
    BY <2>1 DEF EndpointInit, Cleared
  <2>. QED BY <2>1, <2>2, InitType DEF Exchange, Served, Current
<1>2. Exchange /\ TypeInv' /\ [Next]_vars => Exchange'
  <2>. SUFFICES ASSUME Exchange, TypeInv', [Next]_vars PROVE Exchange'
    OBVIOUS
  <2>1. CASE BoardStep
    BY <2>1, BoardExchange
  <2>2. CASE Chip
    BY <2>2, KeptExchange DEF Chip, FlashDone
  <2>3. CASE LoaderStep
    BY <2>3, TransferExchange
  <2>4. CASE Button
    BY <2>4, ButtonExchange
  <2>5. CASE PluggedIn \/ Fault
    BY <2>5, FaultExchange
  <2>6. CASE UNCHANGED vars
    BY <2>6, KeptExchange DEF vars, boardVars
  <2>. QED BY <2>1, <2>2, <2>3, <2>4, <2>5, <2>6 DEF Next
<1>3. Exchange => TypeInv
  BY DEF Exchange
<1>. QED BY <1>1, <1>2, <1>3, TypeInvariant, PTL DEF Spec

\* The command interpreter never runs a packet twice, nor one that was sent
\* in an earlier session, although the packet memory still holds it and the
\* handle survives a bus reset (usb_handler.c:42-46, 65-69, 88-93, 243).
THEOREM CommandsAreFresh == Spec => []FreshCommands
<1>1. Exchange => FreshCommands
  BY DEF Exchange, Served, FreshCommands, Received
<1>. QED BY <1>1, ExchangeInvariant, PTL

\* The loader never reads an answer that was given to an earlier session
\* (usb_handler.c:65-69, 247-251).
THEOREM AnswersAreCurrent == Spec => []OwnReplies
<1>1. Exchange => OwnReplies
  BY DEF Exchange, Current, OwnReplies
<1>. QED BY <1>1, ExchangeInvariant, PTL
-----------------------------------------------------------------------------
(* Programming the DataFlash.  While no transfer of the operation has      *)
(* failed, the packet that waits for the handler is the one the loader     *)
(* sent last; an answer other than Junk shows that the chip is ready and   *)
(* holds what was read; and once a part has been compared, the chip can be *)
(* busy with a later page only.  So what was compared stays as it was.     *)

WriteGoing == op = "write" /\ ~failed
Verifying  == step \in {"read", "compare"}

Orders ==
  ep.fresh =>
    \/ step = "fill" /\ ep.packet.cmd \in {"SET_SPI_MASTER", "DATAFLASH_FILL_BUFFER"}
    \/ step = "flush" /\ ep.packet.cmd = "DATAFLASH_FILL_BUFFER"
    \/ /\ step = "read" /\ n = 1
       /\ ep.packet.cmd = "DATAFLASH_FLUSH_BUFFER" /\ ep.packet.page = page
    \/ /\ step = "compare"
       /\ ep.packet.cmd = "DATAFLASH_READ" /\ ep.packet.page = page /\ ep.packet.part = n

Answered ==
  ep.reply # NoReply =>
    /\ step = "compare" /\ ~ep.fresh
    /\ ep.reply.data # Junk => job = Ready /\ ep.reply.data = store[page][n]

Quiet ==
  page > 1 \/ (Verifying /\ n > 1) =>
    job = Ready \/ (Verifying /\ n = 1 /\ job = page)

Written ==
  /\ \A p \in Page : p < page => \A s \in Part : store[p][s] = File[p][s]
  /\ Verifying => \A s \in Part : s < n => store[page][s] = File[page][s]

Stored ==
  WriteGoing =>
    /\ step \in {"master", "fill", "flush", "read", "compare"}
    /\ Orders /\ Answered /\ Quiet /\ Written

\* Steps that touch neither the loader nor the chip, and bring nothing new
\* to the endpoint.
LEMMA KeptStored ==
  ASSUME Stored, UNCHANGED <<loaderVars, store, job>>,
         ep'.fresh => ep.fresh /\ ep'.packet = ep.packet,
         ep'.reply = NoReply \/ ep'.reply = ep.reply
  PROVE  Stored'
BY DEF Stored, WriteGoing, Orders, Answered, Quiet, Written, Verifying, loaderVars

\* A command that is not answered: it may set the chip to work.
LEMMA CommandStored ==
  ASSUME Stored, UNCHANGED <<loaderVars, store>>,
         ep.fresh, ~ep'.fresh, ep'.reply = ep.reply,
         WriteGoing => \/ UNCHANGED job
                       \/ step = "read" /\ n = 1 /\ job' = page
  PROVE  Stored'
<1>1. WriteGoing => ep.reply = NoReply
  BY DEF Stored, Answered
<1>. QED BY <1>1 DEF Stored, WriteGoing, Orders, Answered, Quiet, Written, Verifying, loaderVars

LEMMA BoardStored ==
  ASSUME Exchange, Stored, BoardStep
  PROVE  Stored'
<1>. USE DEF flashVars
<1>1. ep \in Endpoint
  BY EndpointFacts DEF Exchange
<1>2. UNCHANGED loaderVars
  BY DEF BoardStep
<1>3. ASSUME NEW cmd, Receives(cmd)
      PROVE  ep.fresh /\ ep.packet.cmd = cmd
  BY <1>3 DEF Receives, Received, Exchange, Served
<1>4. Taken(ep).packet = ep.packet /\ ~Taken(ep).fresh /\ Taken(ep).reply = ep.reply
  BY <1>1, TakenFact DEF Endpoint
<1>5. Refresh => ~ep'.fresh /\ ep'.reply = ep.reply
  BY <1>1, TakenArmFact DEF Refresh, Endpoint
<1>6. CASE UsbIdle \/ UiHandler
  BY <1>2, <1>6, KeptStored
  DEF UsbIdle, UiHandler, UiInit, UiAutoStart, UiMainLoop, UiConfig, UiLoop
<1>7. CASE FpgaReset \/ FpgaWriteBitstream \/ SetSpiMaster \/ DataflashFillBuffer
  BY <1>2, <1>5, <1>7, KeptStored
  DEF FpgaReset, FpgaWriteBitstream, SetSpiMaster, DataflashFillBuffer
<1>8. CASE FpgaGetStatus \/ DataflashGetStatus
  <2>1. ep.fresh
        /\ ep.packet.cmd \in {"READ_STATUS", "FPGA_GET_STATUS", "DATAFLASH_GET_STATUS"}
    BY <1>3, <1>8 DEF FpgaGetStatus, DataflashGetStatus
  <2>2. ~WriteGoing
    BY <2>1 DEF Stored, Orders
  <2>. QED BY <1>2, <2>2 DEF Stored, WriteGoing, loaderVars
<1>9. CASE DataflashChipErase
  <2>1. ep.fresh /\ ep.packet.cmd = "DATAFLASH_CHIP_ERASE"
    BY <1>3, <1>9 DEF DataflashChipErase
  <2>2. ~WriteGoing
    BY <2>1 DEF Stored, Orders
  <2>. QED BY <1>2, <2>2 DEF Stored, WriteGoing, loaderVars
<1>10. CASE DataflashFlushBuffer
  <2>1. ep.fresh /\ ep.packet.cmd = "DATAFLASH_FLUSH_BUFFER"
    BY <1>3, <1>10 DEF DataflashFlushBuffer
  <2>2. WriteGoing => step = "read" /\ n = 1 /\ ep.packet.page = page
    BY <2>1 DEF Stored, Orders
  <2>. QED BY <1>2, <1>4, <1>10, <2>1, <2>2, CommandStored DEF DataflashFlushBuffer
<1>11. CASE DataflashRead
  <2>. DEFINE d == IF Listening THEN store[ep.packet.page][ep.packet.part] ELSE Junk
              r == [byte0 |-> FALSE, byte1 |-> FALSE, data |-> d]
              t == Taken(ep)
  <2>1. ep.fresh /\ ep.packet.cmd = "DATAFLASH_READ"
    BY <1>3, <1>11 DEF DataflashRead
  <2>2. WriteGoing => step = "compare" /\ ep.packet.page = page /\ ep.packet.part = n
    BY <2>1 DEF Stored, Orders
  <2>3. ep' = [t EXCEPT !.reply = r, !.current = TRUE] /\ UNCHANGED <<store, job>>
    BY <1>11 DEF DataflashRead, Answer
  <2>4. t \in Endpoint /\ ~t.fresh
    BY <1>1, TakenFact DEF Endpoint
  <2>5. r.data # Junk /\ WriteGoing => job = Ready /\ r.data = store[page][n]
    BY <2>2 DEF Listening
  <2>. HIDE DEF r, t
  <2>6. ep'.reply = r /\ ~ep'.fresh
    BY <2>3, <2>4 DEF Endpoint, EndpointType
  <2>. QED BY <1>2, <2>2, <2>3, <2>5, <2>6
           DEF Stored, WriteGoing, Orders, Answered, Quiet, Written, Verifying, loaderVars
<1>12. CASE FlushEnds \/ ReplyTaken
  <2>1. SameTransfers(ep, Arm(ep))
    BY <1>1, ArmFact DEF Endpoint
  <2>. QED BY <1>2, <1>12, <2>1, KeptStored DEF FlushEnds, ReplyTaken, SameTransfers
<1>. QED BY <1>6, <1>7, <1>8, <1>9, <1>10, <1>11, <1>12 DEF BoardStep, Main, UsbHandler

LEMMA ChipStored ==
  ASSUME Exchange, Stored, Chip
  PROVE  Stored'
<1>. SUFFICES ASSUME WriteGoing'
              PROVE  Stored'
  BY DEF Stored
<1>1. WriteGoing /\ UNCHANGED <<loaderVars, ep>> /\ job # Ready /\ job' = Ready
  BY DEF WriteGoing, Chip, FlashDone, loaderVars
<1>2. Orders' /\ Quiet' /\ step' \in {"master", "fill", "flush", "read", "compare"}
  BY <1>1 DEF Stored, Orders, Quiet, loaderVars
<1>3. Answered'
  BY <1>1 DEF Stored, Answered, loaderVars
<1>4. Written'
  <2>1. page \in 0 .. Pages /\ store \in Image /\ n \in Nat
    BY BoardAssumption, LoaderAssumption
    DEF Exchange, TypeInv, SystemTypeOK, BoardTypeOK, LoaderTypeOK
  <2>2. CASE page > 1 \/ (Verifying /\ n > 1)
    <3>1. Verifying /\ n = 1 /\ job = page
      BY <1>1, <2>2 DEF Stored, Quiet
    <3>2. store' = [store EXCEPT ![page] = buffer]
      BY <2>1, <3>1, BoardAssumption DEF Chip, FlashDone, Erasing
    <3>3. \A p \in Page : p < page => store'[p] = store[p]
      BY <2>1, <3>2 DEF Image, Page
    <3>. QED BY <1>1, <2>1, <3>1, <3>3, BoardAssumption
             DEF Stored, Written, Page, Part, loaderVars
  <2>3. CASE ~(page > 1 \/ (Verifying /\ n > 1))
    <3>1. ~\E p \in Page : p < page
      BY <2>1, <2>3, BoardAssumption DEF Page
    <3>2. Verifying => ~\E s \in Part : s < n
      BY <2>1, <2>3, BoardAssumption DEF Part
    <3>. QED BY <1>1, <3>1, <3>2 DEF Written, Verifying, loaderVars
  <2>. QED BY <2>2, <2>3
<1>. QED BY <1>1, <1>2, <1>3, <1>4 DEF Stored

\* A packet of the operation is on its way to the board.
LEMMA SentFact ==
  ASSUME Exchange, NEW cmd, NEW pg, NEW part, NEW d, Writes(cmd, pg, part, d)
  PROVE  /\ ep'.reply = ep.reply /\ UNCHANGED failed
         /\ ep'.packet.cmd = cmd /\ ep'.packet.page = pg /\ ep'.packet.part = part
<1>. DEFINE p == [cmd |-> cmd, page |-> pg, part |-> part, data |-> d]
<1>1. ep \in EndpointType(Packet \cup {p}, Reply)
  BY EndpointFacts DEF Exchange, Endpoint, EndpointType
<1>2. ep' = Store(ep, p) /\ UNCHANGED failed
  BY DEF Writes
<1>3. p.cmd = cmd /\ p.page = pg /\ p.part = part
  OBVIOUS
<1>. HIDE DEF p
<1>. QED BY <1>1, <1>2, <1>3, StoreFact

\* The page that was programmed and compared is not the last, or it is.
LEMMA NextPageStored ==
  ASSUME TypeInv, NextPage, op = "write", page \in Page, ~ep'.fresh, ep'.reply = NoReply,
         UNCHANGED <<store, job>>, job = Ready,
         \A p \in Page : p <= page => \A s \in Part : store[p][s] = File[p][s]
  PROVE  Stored'
<1>1. CASE page < Pages
  <2>1. page' = page + 1 /\ step' = "fill"
    BY <1>1 DEF NextPage
  <2>2. \A p \in Page : p < page + 1 => p <= page
    BY DEF Page
  <2>3. Written'
    BY <2>1, <2>2 DEF Written, Verifying
  <2>. QED BY <2>1, <2>3 DEF Stored, Orders, Answered, Quiet
<1>2. CASE ~(page < Pages)
  BY <1>2 DEF NextPage, Ends, Stored, WriteGoing
<1>. QED BY <1>1, <1>2

\* What was compared is stored.
LEMMA ComparedFact ==
  ASSUME Exchange, Stored, WriteGoing, Reads, step = "compare",
         ep.reply.data = File[page][n]
  PROVE  /\ job = Ready
         /\ \A s \in Part : s < n + 1 => store[page][s] = File[page][s]
<1>1. page \in Page /\ n \in Part
  BY DEF Exchange, TypeInv, StepOK
<1>2. job = Ready /\ File[page][n] = store[page][n]
  BY <1>1, FileAssumption DEF Stored, Answered, Reads
<1>3. \A s \in Part : s < n + 1 => s < n \/ s = n
  BY <1>1 DEF Part
<1>. QED BY <1>2, <1>3 DEF Stored, Written, Verifying

LEMMA TransferStored ==
  ASSUME Exchange, Stored, LoaderStep
  PROVE  Stored'
<1>. SUFFICES ASSUME WriteGoing'
              PROVE  Stored'
  BY DEF Stored
<1>1. UNCHANGED <<store, job>>
  BY DEF LoaderStep, flashVars
<1>2. op = "write" /\ ~failed' /\ ~(WriteFails \/ ReadFails)
  BY DEF LoaderStep, Transfer, WriteGoing, WriteFails, ReadFails, Goes, Ends, NextPage,
         NextPart, SendReset, SendPoll, ReadPoll, SendChunk, SendFinal, ReadFinal,
         SetMaster, Fill, Flush, Read, Compare, ChipErase, EraseStatus, EraseDone, At
<1>3. CASE SetMaster
  <2>1. step = "master" /\ Writes("SET_SPI_MASTER", 0, 0, Blank) /\ Goes("fill", 1)
    BY <1>2, <1>3 DEF SetMaster, At
  <2>2. WriteGoing /\ ep'.reply = ep.reply /\ ep'.packet.cmd = "SET_SPI_MASTER"
    BY <1>2, <2>1, SentFact DEF WriteGoing
  <2>. QED BY <1>1, <2>1, <2>2
           DEF Goes, Stored, Orders, Answered, Quiet, Written, Verifying
<1>4. CASE Fill
  <2>1. /\ step = "fill" /\ Writes("DATAFLASH_FILL_BUFFER", page, n, File[page][n])
        /\ step' \in {"fill", "flush"} /\ UNCHANGED page
    BY <1>2, <1>4 DEF Fill, At, Goes
  <2>2. WriteGoing /\ ep'.reply = ep.reply /\ ep'.packet.cmd = "DATAFLASH_FILL_BUFFER"
    BY <1>2, <2>1, SentFact DEF WriteGoing
  <2>. QED BY <1>1, <2>1, <2>2
           DEF Stored, Orders, Answered, Quiet, Written, Verifying
<1>5. CASE Flush
  <2>1. /\ step = "flush" /\ Writes("DATAFLASH_FLUSH_BUFFER", page, 0, Blank)
        /\ step' = "read" /\ n' = 1 /\ UNCHANGED page
    BY <1>2, <1>5 DEF Flush, At, Goes
  <2>2. /\ WriteGoing /\ ep'.reply = ep.reply
        /\ ep'.packet.cmd = "DATAFLASH_FLUSH_BUFFER" /\ ep'.packet.page = page
    BY <1>2, <2>1, SentFact DEF WriteGoing
  <2>3. ~\E s \in Part : s < 1
    BY DEF Part
  <2>. QED BY <1>1, <2>1, <2>2, <2>3
           DEF Stored, Orders, Answered, Quiet, Written, Verifying
<1>6. CASE Read
  <2>1. /\ step = "read" /\ Writes("DATAFLASH_READ", page, n, Blank)
        /\ step' = "compare" /\ UNCHANGED <<n, page>>
    BY <1>2, <1>6 DEF Read, At, Goes
  <2>2. /\ WriteGoing /\ ep'.reply = ep.reply
        /\ ep'.packet.cmd = "DATAFLASH_READ" /\ ep'.packet.page = page
        /\ ep'.packet.part = n
    BY <1>2, <2>1, SentFact DEF WriteGoing
  <2>. QED BY <1>1, <2>1, <2>2
           DEF Stored, Orders, Answered, Quiet, Written, Verifying
<1>7. CASE Compare
  <2>1. step = "compare" /\ Reads
        /\ IF ep.reply.data # File[page][n] THEN Ends("verifyFailed") ELSE NextPart
    BY <1>2, <1>7 DEF Compare, At
  <2>2. page \in Page /\ n \in Part
    BY <2>1 DEF Exchange, TypeInv, StepOK
  <2>3. WriteGoing /\ ep.reply.data = File[page][n] /\ NextPart
    BY <1>2, <2>1 DEF Reads, WriteGoing, Ends
  <2>4. job = Ready /\ \A s \in Part : s < n + 1 => store[page][s] = File[page][s]
    BY <2>1, <2>3, ComparedFact
  <2>5. ~ep'.fresh /\ ep'.reply = NoReply
    <3>1. ~ep.fresh /\ ep' = [ep EXCEPT !.reply = NoReply]
      BY <2>1, <2>3 DEF Reads, Stored, Answered
    <3>. QED BY <3>1, EndpointFacts DEF Exchange, Endpoint, EndpointType
  <2>6. \A p \in Page : p < page => \A s \in Part : store[p][s] = File[p][s]
    BY <2>3 DEF Stored, Written
  <2>7. CASE n < Parts
    <3>1. step' = "read" /\ n' = n + 1 /\ UNCHANGED page
      BY <2>3, <2>7 DEF NextPart, Goes
    <3>. QED BY <1>1, <2>4, <2>5, <2>6, <3>1
             DEF Stored, Orders, Answered, Quiet, Written, Verifying
  <2>8. CASE ~(n < Parts)
    <3>1. \A s \in Part : s < n + 1
      BY <2>2, <2>8, BoardAssumption DEF Part
    <3>2. \A p \in Page : p <= page => \A s \in Part : store[p][s] = File[p][s]
      BY <2>2, <2>4, <2>6, <3>1 DEF Page
    <3>. QED BY <1>1, <1>2, <2>2, <2>3, <2>4, <2>5, <2>8, <3>2, NextPageStored
             DEF NextPart, Exchange
  <2>. QED BY <2>7, <2>8
<1>8. CASE SendReset \/ SendPoll \/ ReadPoll \/ SendChunk \/ SendFinal \/ ReadFinal
           \/ ChipErase \/ EraseStatus \/ EraseDone
  BY <1>2, <1>8 DEF SendReset, SendPoll, ReadPoll, SendChunk, SendFinal, ReadFinal,
                    ChipErase, EraseStatus, EraseDone, At
<1>. QED BY <1>3, <1>4, <1>5, <1>6, <1>7, <1>8 DEF LoaderStep, Transfer

LEMMA ButtonStored ==
  ASSUME Exchange, Button
  PROVE  Stored'
<1>1. CASE WriteDataflash
  <2>1. step' = "master" /\ page' = 1
    BY <1>1 DEF WriteDataflash, Opens
  <2>2. ~ep'.fresh /\ ep'.reply = NoReply
    BY <1>1, EndpointFacts, ConfigureFact
    DEF WriteDataflash, Opens, SetConfiguration, Exchange, Endpoint
  <2>3. ~\E p \in Page : p < 1
    BY DEF Page
  <2>. QED BY <2>1, <2>2, <2>3 DEF Stored, Orders, Answered, Quiet, Written, Verifying
<1>2. CASE ConfigureFPGA \/ EraseDataflash
  BY <1>2 DEF ConfigureFPGA, EraseDataflash, Opens, Stored, WriteGoing
<1>. QED BY <1>1, <1>2 DEF Button

LEMMA FaultStored ==
  ASSUME Exchange, Stored, PluggedIn \/ Fault
  PROVE  Stored'
<1>1. CASE PluggedIn
  <2>1. ~ep'.fresh /\ ep'.reply = NoReply
    BY <1>1, EndpointFacts, BusResetFact DEF PluggedIn, Plug, Exchange, Endpoint
  <2>. QED BY <1>1, <2>1, KeptStored DEF PluggedIn, Plug, flashVars
<1>2. CASE Fault /\ Killed
  BY <1>2 DEF Killed, Ends, Stored, WriteGoing
<1>3. CASE (Unplug \/ PowerButton) /\ Leaves
  <2>1. UNCHANGED <<store, job>>
    BY <1>3 DEF Unplug, PowerButton, flashVars
  <2>2. UNCHANGED ep \/ (~ep'.fresh /\ ep'.reply = NoReply)
    BY <1>3 DEF Unplug, PowerButton, EndpointInit, Cleared
  <2>3. UNCHANGED <<op, step, n, page, failed>>
    BY <1>3 DEF Leaves
  <2>. QED BY <2>1, <2>2, <2>3
           DEF Stored, WriteGoing, Orders, Answered, Quiet, Written, Verifying
<1>. QED BY <1>1, <1>2, <1>3 DEF Fault

LEMMA StoredInvariant == Spec => [](Exchange /\ Stored)
<1>1. Init => Stored
  BY DEF Init, LoaderInit, Stored, WriteGoing
<1>2. Exchange /\ Stored /\ [Next]_vars => Stored'
  <2>. SUFFICES ASSUME Exchange, Stored, [Next]_vars PROVE Stored'
    OBVIOUS
  <2>1. CASE UNCHANGED vars
    BY <2>1, KeptStored DEF vars, boardVars, flashVars
  <2>. QED BY <2>1, BoardStored, ChipStored, TransferStored, ButtonStored, FaultStored
           DEF Next
<1>. QED BY <1>1, <1>2, ExchangeInvariant, PTL DEF Spec

\* "DataFlash Programming is Done", said after every transfer succeeded, is
\* said of a DataFlash that holds the file: neither the user interface, nor
\* an erase that is still going on, nor a session that was abandoned can
\* make the comparison pass over a page that is not, or does not stay,
\* programmed (mainwindow.cpp:270-332, usb_handler.c:198-227).
THEOREM WritesAreStored == Spec => StoredUnlessFailed
<1>. DEFINE A == Says("programmed") /\ ~failed' => store = File
<1>1. Exchange /\ Stored /\ [Next]_vars => [A]_vars
  <2>. SUFFICES ASSUME Exchange, Stored, Next, Says("programmed"), ~failed'
                PROVE  store = File
    OBVIOUS
  <2>1. LoaderStep /\ ~(WriteFails \/ ReadFails)
    BY DEF Next, BoardStep, Chip, LoaderStep, Button, PluggedIn, Fault, Says, Leaves,
           loaderVars, ConfigureFPGA, WriteDataflash, EraseDataflash, Opens, Killed, Ends,
           WriteFails, ReadFails
  <2>2. Compare
    BY <2>1 DEF LoaderStep, Transfer, Says, Goes, Ends, SendReset, SendPoll, ReadPoll,
                SendChunk, SendFinal, ReadFinal, SetMaster, Fill, Flush, Read, ChipErase,
                EraseStatus, EraseDone
  <2>3. /\ op = "write" /\ step = "compare" /\ Reads /\ ep.reply.data = File[page][n]
        /\ ~(n < Parts) /\ ~(page < Pages)
    BY <2>1, <2>2 DEF Compare, At, Says, Ends, NextPart, NextPage, Goes
  <2>4. page \in Page /\ n \in Part
    BY <2>3 DEF Exchange, TypeInv, StepOK
  <2>5. WriteGoing
    BY <2>3 DEF WriteGoing, Reads
  <2>6. \A s \in Part : store[page][s] = File[page][s]
    <3>1. \A s \in Part : s < n + 1
      BY <2>3, <2>4, BoardAssumption DEF Part
    <3>. QED BY <2>3, <2>5, <3>1, ComparedFact
  <2>7. \A p \in Page, s \in Part : store[p][s] = File[p][s]
    <3>1. \A p \in Page : p < page \/ p = page
      BY <2>3, <2>4, BoardAssumption DEF Page
    <3>. QED BY <2>5, <2>6, <3>1 DEF Stored, Written
  <2>8. store \in Image /\ File \in Image
    BY BoardAssumption DEF Exchange, TypeInv, SystemTypeOK, BoardTypeOK
  <2>9. \A p \in Page : store[p] = File[p]
    BY <2>7, <2>8 DEF Image
  <2>. QED BY <2>8, <2>9 DEF Image
<1>. QED BY <1>1, StoredInvariant, PTL DEF Spec, StoredUnlessFailed

-----------------------------------------------------------------------------
(* The undisturbed bus: nothing is unplugged, no transfer times out.  Then *)
(* the two sides take turns: one descriptor is armed, or one packet is     *)
(* with the board, or one answer is on its way; and what that packet is    *)
(* follows from the step of the loader.                                    *)

Armed(e) ==
  /\ ~e.fresh /\ e.out \in Buffers /\ e.cpu = 1 - e.out /\ e.sie = e.out
  /\ e.owned[e.out] /\ ~e.owned[1 - e.out]

Filled(e) ==
  /\ e.out \in Buffers /\ e.cpu = 1 - e.out /\ e.sie = e.cpu
  /\ ~e.owned[0] /\ ~e.owned[1]

Looking == pc \in {"main", "ui"}

Awaiting == step \in {"polled", "finished", "compare", "wait"}

Connected ==
  /\ ~failed /\ handle = IF op = "none" THEN "closed" ELSE "open"
  /\ \/ op = "none" /\ step = "idle"
     \/ op = "configure" /\ step \in {"reset", "poll", "polled", "chunk", "final", "finished"}
     \/ op = "write" /\ step \in {"master", "fill", "flush", "read", "compare"}
     \/ op = "erase" /\ step \in {"erase", "status", "wait"}
  /\ bus # "configured" => op = "none" /\ Looking

Turns ==
  bus = "configured" =>
    IF Looking THEN Armed(ep) \/ (Filled(ep) /\ ep.fresh) ELSE Filled(ep) /\ ~ep.fresh

Fits(cmd) ==
  \/ step = "poll" /\ cmd = "FPGA_RESET"
  \/ step \in {"polled", "finished"} /\ cmd = "FPGA_GET_STATUS"
  \/ step \in {"chunk", "final"} /\ cmd = "FPGA_WRITE_BITSTREAM"
  \/ step = "fill" /\ cmd = "SET_SPI_MASTER"
  \/ step \in {"fill", "flush"} /\ cmd = "DATAFLASH_FILL_BUFFER"
  \/ step = "read" /\ cmd = "DATAFLASH_FLUSH_BUFFER"
  \/ step = "compare" /\ cmd = "DATAFLASH_READ"
  \/ step = "status" /\ cmd = "DATAFLASH_CHIP_ERASE"
  \/ step = "wait" /\ cmd = "DATAFLASH_GET_STATUS"

Alternation ==
  /\ ep.fresh => Fits(ep.packet.cmd)
  /\ ep.reply # NoReply => pc = "reply" /\ Awaiting
  /\ pc = "busy" => step = "read"

Undisturbed == Connected /\ Turns /\ Alternation

LEMMA ArmedFact ==
  ASSUME NEW P, NEW R, NEW e \in EndpointType(P, R), Filled(e), ~e.fresh
  PROVE  Armed(Arm(e))
<1>1. e.cpu \in {0, 1} /\ e.out = 1 - e.cpu /\ e.sie = e.cpu
  BY DEF Filled, Buffers
<1>2. Arm(e) = [e EXCEPT !.owned[e.cpu] = TRUE, !.out = e.cpu, !.cpu = 1 - e.cpu]
  BY <1>1 DEF Arm, NoBuffer
<1>3. /\ Arm(e).owned = [e.owned EXCEPT ![e.cpu] = TRUE] /\ Arm(e).out = e.cpu
      /\ Arm(e).cpu = 1 - e.cpu /\ Arm(e).sie = e.sie /\ Arm(e).fresh = e.fresh
  BY <1>2 DEF EndpointType
<1>. HIDE <1>2
<1>4. e.owned \in [Buffers -> BOOLEAN]
  BY DEF EndpointType
<1>5. /\ Arm(e).owned[e.cpu] /\ Arm(e).owned[1 - e.cpu] = e.owned[1 - e.cpu]
      /\ 1 - e.cpu \in {0, 1} /\ 1 - (1 - e.cpu) = e.cpu
  <2>1. e.cpu = 0 \/ e.cpu = 1
    BY <1>1
  <2>2. Arm(e).owned[e.cpu] /\ \A b \in {0, 1} : b # e.cpu => Arm(e).owned[b] = e.owned[b]
    BY <1>1, <1>3, <1>4 DEF Buffers
  <2>. QED BY <2>1, <2>2
<1>6. ~Arm(e).owned[1 - e.cpu]
  BY <1>5 DEF Filled
<1>. QED BY <1>1, <1>3, <1>5, <1>6 DEF Armed, Buffers

LEMMA FilledTaken ==
  ASSUME NEW P, NEW R, NEW e \in EndpointType(P, R), Filled(e)
  PROVE  Filled(Taken(e)) /\ Armed(Arm(Taken(e)))
<1>. DEFINE t == Taken(e)
<1>1. /\ t \in EndpointType(P, R) /\ t.cpu = e.cpu /\ t.out = e.out
      /\ t.sie = e.sie /\ t.owned = e.owned /\ ~t.fresh
  BY TakenFact DEF Taken, EndpointType
<1>. HIDE DEF t
<1>2. Filled(t)
  BY <1>1 DEF Filled
<1>3. Armed(Arm(t))
  BY <1>1, <1>2, ArmedFact
<1>. QED BY <1>2, <1>3 DEF t

LEMMA FilledStored ==
  ASSUME NEW P, NEW R, NEW e \in EndpointType(P, R), NEW p \in P, Armed(e)
  PROVE  Filled(Store(e, p))
<1>1. /\ Store(e, p).owned = [e.owned EXCEPT ![e.sie] = FALSE] /\ Store(e, p).sie = 1 - e.sie
      /\ Store(e, p).cpu = e.cpu /\ Store(e, p).out = e.out
  BY DEF Store, EndpointType
<1>2. e.owned \in [Buffers -> BOOLEAN]
  BY DEF EndpointType
<1>3. CASE e.out = 0
  BY <1>1, <1>2, <1>3 DEF Armed, Filled, Buffers
<1>4. CASE e.out = 1
  BY <1>1, <1>2, <1>4 DEF Armed, Filled, Buffers
<1>. QED BY <1>3, <1>4 DEF Armed, Buffers

LEMMA ArmedConfigured ==
  ASSUME NEW P, NEW R, NEW e \in EndpointType(P, R)
  PROVE  Armed(Configure(e))
<1>. DEFINE c == Cleared(e.packet, 0, NoBuffer)
<1>1. /\ c.owned = Released /\ c.cpu = 0 /\ c.sie = 0 /\ ~c.fresh
  BY DEF Cleared
<1>2. c \in EndpointType(P, R)
  <2>1. e.packet \in P
    BY DEF EndpointType
  <2>. QED BY <2>1, ClearedFact DEF Buffers, NoBuffer
<1>3. Configure(e) = Arm(c)
  BY DEF Configure
<1>. HIDE DEF c
<1>4. Arm(c) = [c EXCEPT !.owned[c.cpu] = TRUE, !.out = c.cpu, !.cpu = 1 - c.cpu]
  BY <1>1 DEF Arm, NoBuffer
<1>5. /\ Arm(c).owned = [Released EXCEPT ![0] = TRUE] /\ Arm(c).out = 0
      /\ Arm(c).cpu = 1 /\ Arm(c).sie = 0 /\ ~Arm(c).fresh
  BY <1>1, <1>2, <1>4 DEF EndpointType
<1>. QED BY <1>3, <1>5 DEF Armed, Released, Buffers

\* Nothing disturbs the bus.
LEMMA NoFailure ==
  ASSUME MaxFaults = 0, Slow = FALSE, TypeInv, Connected
  PROVE  ~WriteFails /\ ~ReadFails /\ ~Fault
<1>1. faults \in 0 .. 0
  BY DEF TypeInv, SystemTypeOK
<1>2. ~Fault
  BY <1>1 DEF Fault
<1>. QED BY <1>2 DEF WriteFails, ReadFails, Connected

\* A command is taken when the host has sent one.
LEMMA ReceivesFact ==
  ASSUME TypeInv, Turns, NEW cmd, Receives(cmd)
  PROVE  /\ Filled(ep) /\ ep.fresh /\ pc = "main" /\ bus = "configured"
         /\ ep.packet.cmd = cmd
BY DEF Receives, Received, Turns, Looking, Armed, Buffers, NoBuffer

LEMMA LoaderKept ==
  ASSUME Connected, UNCHANGED <<loaderVars, bus>>, bus = "configured" \/ Looking'
  PROVE  Connected'
BY DEF Connected, loaderVars

LEMMA AnswerTurns ==
  ASSUME TypeInv, Filled(ep), NEW b0, NEW b1, NEW d, Answer(b0, b1, d)
  PROVE  /\ Filled(ep') /\ ~ep'.fresh /\ pc' = "reply"
         /\ ep'.reply = [byte0 |-> b0, byte1 |-> b1, data |-> d]
<1>. DEFINE r == [byte0 |-> b0, byte1 |-> b1, data |-> d]
            t == Taken(ep)
<1>1. t \in Endpoint /\ ~t.fresh /\ Filled(t)
  BY EndpointFacts, TakenFact, FilledTaken DEF Endpoint
<1>2. ep' = [t EXCEPT !.reply = r, !.current = TRUE] /\ pc' = "reply"
  BY DEF Answer
<1>. HIDE DEF r, t
<1>3. /\ ep'.cpu = t.cpu /\ ep'.out = t.out /\ ep'.sie = t.sie /\ ep'.owned = t.owned
      /\ ep'.fresh = t.fresh /\ ep'.reply = r
  BY <1>1, <1>2 DEF Endpoint, EndpointType
<1>4. Filled(ep') /\ ~ep'.fresh
  BY <1>1, <1>3 DEF Filled
<1>. QED BY <1>2, <1>3, <1>4 DEF r

LEMMA BoardUndisturbed ==
  ASSUME TypeInv, Undisturbed, BoardStep
  PROVE  Undisturbed'
<1>. USE DEF Undisturbed
<1>1. UNCHANGED <<loaderVars, bus>>
  BY DEF BoardStep, Main, UsbHandler, UsbIdle, FpgaGetStatus, FpgaReset, FpgaWriteBitstream, SetSpiMaster,
         DataflashGetStatus, DataflashChipErase, DataflashFillBuffer, DataflashFlushBuffer,
         DataflashRead, FlushEnds, ReplyTaken, UiHandler, UiInit, UiAutoStart, UiMainLoop, UiConfig, UiLoop
<1>2. ep \in Endpoint
  BY EndpointFacts
<1>3. CASE UsbIdle \/ UiHandler
  <2>1. Looking /\ Looking' /\ UNCHANGED ep
    BY <1>3 DEF UsbIdle, UiHandler, UiInit, UiAutoStart, UiMainLoop, UiConfig, UiLoop, InUi, Looking
  <2>. QED BY <1>1, <2>1, LoaderKept DEF Turns, Alternation, Fits, Awaiting, Looking, loaderVars
<1>4. CASE FpgaReset \/ FpgaWriteBitstream \/ SetSpiMaster \/ DataflashChipErase \/ DataflashFillBuffer
  <2>1. Refresh /\ Filled(ep) /\ ep.fresh /\ pc = "main"
    BY <1>4, ReceivesFact
    DEF FpgaReset, FpgaWriteBitstream, SetSpiMaster, DataflashChipErase, DataflashFillBuffer
  <2>2. Armed(ep') /\ ep'.reply = ep.reply /\ ~ep'.fresh /\ pc' = "ui"
    BY <1>2, <2>1, FilledTaken, TakenArmFact DEF Refresh, Endpoint
  <2>. QED BY <1>1, <2>1, <2>2, LoaderKept DEF Turns, Alternation, Looking
<1>5. CASE FpgaGetStatus \/ DataflashGetStatus \/ DataflashRead
  <2>1. /\ Filled(ep) /\ ep.fresh /\ pc = "main" /\ bus = "configured"
        /\ ep.packet.cmd \in {"READ_STATUS", "FPGA_GET_STATUS", "DATAFLASH_GET_STATUS", "DATAFLASH_READ"}
    BY <1>5, ReceivesFact DEF FpgaGetStatus, DataflashGetStatus, DataflashRead
  <2>2. \E b0, b1, d : Answer(b0, b1, d)
    BY <1>5 DEF FpgaGetStatus, DataflashGetStatus, DataflashRead
  <2>3. Filled(ep') /\ ~ep'.fresh /\ pc' = "reply"
    BY <2>1, <2>2, AnswerTurns
  <2>4. Awaiting
    BY <2>1 DEF Alternation, Fits, Awaiting
  <2>. QED BY <1>1, <2>1, <2>3, <2>4, LoaderKept DEF Turns, Alternation, Awaiting, Looking, loaderVars
<1>6. CASE DataflashFlushBuffer
  <2>1. /\ Filled(ep) /\ ep.fresh /\ pc = "main" /\ bus = "configured"
        /\ ep.packet.cmd = "DATAFLASH_FLUSH_BUFFER"
    BY <1>6, ReceivesFact DEF DataflashFlushBuffer
  <2>2. Filled(ep') /\ ~ep'.fresh /\ ep'.reply = ep.reply /\ pc' = "busy"
    BY <1>2, <1>6, <2>1, FilledTaken, TakenFact DEF DataflashFlushBuffer, Endpoint
  <2>. QED BY <1>1, <2>1, <2>2, LoaderKept DEF Turns, Alternation, Fits, Looking, loaderVars
<1>7. CASE FlushEnds \/ ReplyTaken
  <2>1. /\ pc \in {"busy", "reply"} /\ pc' = "ui" /\ ep' = Arm(ep) /\ ep.reply = NoReply
    BY <1>7 DEF FlushEnds, ReplyTaken, Alternation
  <2>2. Filled(ep) /\ ~ep.fresh /\ bus = "configured"
    BY <2>1 DEF Turns, Looking, Connected
  <2>3. Armed(ep') /\ ~ep'.fresh /\ ep'.reply = NoReply
    BY <1>2, <2>1, <2>2, ArmedFact, ArmFact DEF Endpoint, SameTransfers
  <2>. QED BY <1>1, <2>1, <2>3, LoaderKept DEF Turns, Alternation, Looking
<1>. QED BY <1>3, <1>4, <1>5, <1>6, <1>7 DEF BoardStep, Main, UsbHandler

\* The loader writes when the board waits for a packet, and reads when it
\* waits for that.
LEMMA SentTurns ==
  ASSUME TypeInv, Undisturbed, op # "none", NEW cmd, NEW pg, NEW part, NEW d, Writes(cmd, pg, part, d)
  PROVE  /\ Looking /\ Armed(ep) /\ ep.reply = NoReply
         /\ Filled(ep') /\ ep'.fresh /\ ep'.packet.cmd = cmd /\ ep'.reply = NoReply
         /\ UNCHANGED failed
<1>. DEFINE p == [cmd |-> cmd, page |-> pg, part |-> part, data |-> d]
<1>1. ep \in EndpointType(Packet \cup {p}, Reply)
  BY EndpointFacts DEF Endpoint, EndpointType
<1>2. ep' = Store(ep, p) /\ UNCHANGED failed /\ ep.owned[ep.sie]
  BY DEF Writes, CanStore
<1>3. p.cmd = cmd
  OBVIOUS
<1>4. bus = "configured"
  BY DEF Undisturbed, Connected
<1>5. ~Filled(ep)
  BY <1>2 DEF Filled, Buffers
<1>6. Looking /\ Armed(ep)
  BY <1>4, <1>5 DEF Undisturbed, Turns
<1>7. ep.reply = NoReply
  BY <1>6 DEF Undisturbed, Alternation, Looking
<1>. HIDE DEF p
<1>. QED BY <1>1, <1>2, <1>3, <1>6, <1>7, StoreFact, FilledStored

LEMMA ReadTurns ==
  ASSUME TypeInv, Undisturbed, op # "none", Reads
  PROVE  /\ pc = "reply" /\ ~ep.fresh /\ bus = "configured"
         /\ Filled(ep') /\ ~ep'.fresh /\ ep'.reply = NoReply /\ UNCHANGED failed
<1>1. ep.reply # NoReply /\ ep' = [ep EXCEPT !.reply = NoReply] /\ UNCHANGED failed
  BY DEF Reads
<1>2. pc = "reply" /\ bus = "configured"
  BY <1>1 DEF Undisturbed, Alternation, Connected
<1>3. Filled(ep) /\ ~ep.fresh
  BY <1>2 DEF Undisturbed, Turns, Looking
<1>4. /\ ep'.cpu = ep.cpu /\ ep'.out = ep.out /\ ep'.sie = ep.sie /\ ep'.owned = ep.owned
      /\ ep'.fresh = ep.fresh /\ ep'.reply = NoReply
  BY <1>1, EndpointFacts DEF Endpoint, EndpointType
<1>. QED BY <1>1, <1>2, <1>3, <1>4 DEF Filled

\* What is said at the end of an operation, and with it the rest of its steps.
LEMMA TransferUndisturbed ==
  ASSUME MaxFaults = 0, Slow = FALSE, TypeInv, Undisturbed, LoaderStep
  PROVE  Undisturbed'
<1>1. ~WriteFails /\ ~ReadFails /\ UNCHANGED <<pc, bus>>
  BY NoFailure DEF Undisturbed, LoaderStep
<1>2. op # "none" /\ handle = "open" /\ bus = "configured" /\ ~failed
  BY DEF LoaderStep, Transfer, SendReset, SendPoll, ReadPoll, SendChunk, SendFinal, ReadFinal, SetMaster,
         Fill, Flush, Read, Compare, ChipErase, EraseStatus, EraseDone, At, Undisturbed, Connected
<1>3. ASSUME NEW cmd, NEW pg, NEW part, NEW d, Writes(cmd, pg, part, d), Fits(cmd)',
             NEW s, NEW k, Goes(s, k), Connected'
      PROVE  Undisturbed'
  <2>1. /\ Looking /\ Filled(ep') /\ ep'.fresh /\ ep'.packet.cmd = cmd /\ ep'.reply = NoReply
    BY <1>2, <1>3, SentTurns
  <2>. QED BY <1>1, <1>3, <2>1 DEF Undisturbed, Turns, Alternation, Looking
<1>4. ASSUME Reads, Connected' PROVE Undisturbed'
  <2>1. pc = "reply" /\ Filled(ep') /\ ~ep'.fresh /\ ep'.reply = NoReply
    BY <1>2, <1>4, ReadTurns
  <2>. QED BY <1>1, <1>4, <2>1 DEF Undisturbed, Turns, Alternation, Looking
<1>5. ASSUME NEW cmd, NEW pg, NEW part, NEW d, Writes(cmd, pg, part, d) PROVE ~failed'
  BY <1>2, <1>5 DEF Writes
<1>6. ASSUME Reads PROVE ~failed'
  BY <1>2, <1>6 DEF Reads
<1>7. ASSUME NEW a, Asks(a) PROVE Reads
  BY <1>1, <1>7 DEF Asks
<1>8. ASSUME NEW cmd, Sends(cmd) PROVE Writes(cmd, 0, 0, Blank)
  BY <1>1, <1>8 DEF Sends
<1>9. ASSUME NEW m, Ends(m), ~failed' PROVE Connected'
  BY <1>1, <1>2, <1>9 DEF Ends, Connected
<1>10. CASE SendReset \/ SendPoll \/ SendFinal \/ ChipErase \/ EraseStatus
  <2>1. PICK cmd, s, k :
          /\ Writes(cmd, 0, 0, Blank) /\ Goes(s, k) /\ Fits(cmd)'
          /\ \/ op = "configure" /\ s \in {"poll", "polled", "finished"}
             \/ op = "erase" /\ s \in {"status", "wait"}
    BY <1>8, <1>10 DEF SendReset, SendPoll, SendFinal, ChipErase, EraseStatus, At, Goes, Fits
  <2>2. Connected'
    BY <1>1, <1>2, <1>5, <2>1 DEF Goes, Connected
  <2>. QED BY <1>3, <2>1, <2>2
<1>11. CASE ReadPoll \/ ReadFinal \/ EraseDone
  <2>1. Reads
    BY <1>7, <1>11 DEF ReadPoll, ReadFinal, EraseDone
  <2>2. \/ \E m : Ends(m)
        \/ op = "configure" /\ \E s \in {"chunk", "poll"} : \E k : Goes(s, k)
        \/ op = "erase" /\ \E k : Goes("status", k)
    BY <1>11 DEF ReadPoll, ReadFinal, EraseDone, At
  <2>3. Connected'
    BY <1>1, <1>2, <1>6, <1>9, <2>1, <2>2 DEF Goes, Connected
  <2>. QED BY <1>4, <2>1, <2>3
<1>12. CASE SendChunk
  <2>1. CASE Writes("FPGA_WRITE_BITSTREAM", 0, n, Blank) /\ Goes("chunk", n + 1)
    <3>1. Connected' /\ Fits("FPGA_WRITE_BITSTREAM")'
      BY <1>1, <1>2, <1>5, <1>12, <2>1 DEF SendChunk, At, Goes, Connected, Fits
    <3>. QED BY <1>3, <2>1, <3>1
  <2>2. CASE n > Chunks /\ Goes("final", 0) /\ UNCHANGED <<ep, failed>>
    BY <1>1, <1>2, <1>12, <2>2
    DEF SendChunk, At, Goes, Undisturbed, Connected, Turns, Alternation, Fits, Awaiting, Looking
  <2>. QED BY <1>1, <1>12, <2>1, <2>2 DEF SendChunk
<1>13. CASE SetMaster \/ Fill \/ Flush \/ Read
  <2>1. \E cmd, pg, part, d, s, k : Writes(cmd, pg, part, d) /\ Goes(s, k) /\ op = "write" /\ Fits(cmd)'
               /\ s \in {"fill", "flush", "read", "compare"}
    BY <1>1, <1>13 DEF SetMaster, Fill, Flush, Read, At, Goes, Fits
  <2>2. PICK cmd, pg, part, d, s, k : Writes(cmd, pg, part, d) /\ Goes(s, k) /\ op = "write" /\ Fits(cmd)'
               /\ s \in {"fill", "flush", "read", "compare"}
    BY <2>1
  <2>3. Connected'
    BY <1>1, <1>2, <1>5, <2>2 DEF Goes, Connected
  <2>. QED BY <1>3, <2>2, <2>3
<1>14. CASE Compare
  <2>1. Reads /\ op = "write"
    BY <1>1, <1>14 DEF Compare, At
  <2>2. \/ \E m : Ends(m)
        \/ step' \in {"read", "fill"} /\ UNCHANGED <<op, handle>>
    BY <1>1, <1>14 DEF Compare, NextPart, NextPage, Goes
  <2>3. Connected'
    BY <1>1, <1>2, <1>6, <1>9, <2>1, <2>2 DEF Connected
  <2>. QED BY <1>4, <2>1, <2>3
<1>. QED BY <1>10, <1>11, <1>12, <1>13, <1>14 DEF LoaderStep, Transfer

LEMMA RestUndisturbed ==
  ASSUME TypeInv, Undisturbed, Chip \/ Button \/ PluggedIn \/ UNCHANGED vars
  PROVE  Undisturbed'
<1>. USE DEF Undisturbed
<1>1. CASE Chip
  BY <1>1 DEF Chip, FlashDone, loaderVars, Connected, Turns, Alternation, Fits, Awaiting, Looking
<1>2. CASE Button
  <2>1. /\ op = "none" /\ ep' = Configure(ep) /\ bus' = "configured" /\ UNCHANGED pc
        /\ handle' = "open" /\ ~failed'
        /\ \/ op' = "configure" /\ step' = "reset"
           \/ op' = "write" /\ step' = "master"
           \/ op' = "erase" /\ step' = "erase"
    BY <1>2 DEF Button, ConfigureFPGA, WriteDataflash, EraseDataflash, Opens, SetConfiguration
  <2>2. Armed(ep') /\ ~ep'.fresh /\ ep'.reply = NoReply
    BY <2>1, EndpointFacts, ArmedConfigured, ConfigureFact DEF Endpoint
  <2>3. Looking
    <3>1. pc # "busy" /\ (pc = "reply" => ep.reply = NoReply)
      BY <2>1 DEF Alternation, Connected, Awaiting
    <3>2. pc # "reply"
      BY <1>2, <3>1 DEF Button, ConfigureFPGA, WriteDataflash, EraseDataflash, Opens, SetConfiguration, Settled
    <3>. QED BY <3>1, <3>2 DEF TypeInv, SystemTypeOK, BoardTypeOK, Looking
  <2>4. Connected'
    BY <2>1 DEF Connected
  <2>. QED BY <2>1, <2>2, <2>3, <2>4 DEF Turns, Alternation, Looking
<1>3. CASE PluggedIn
  <2>1. bus = "gone" /\ bus' = "reset" /\ ep' = BusReset(ep) /\ UNCHANGED <<pc, loaderVars>>
    BY <1>3 DEF PluggedIn, Plug
  <2>2. ~ep'.fresh /\ ep'.reply = NoReply
    BY <2>1, EndpointFacts, BusResetFact DEF Endpoint
  <2>. QED BY <2>1, <2>2 DEF Connected, Turns, Alternation, Looking, loaderVars
<1>4. CASE UNCHANGED vars
  BY <1>4 DEF vars, boardVars, loaderVars, Connected, Turns, Alternation, Fits, Awaiting, Looking
<1>. QED BY <1>1, <1>2, <1>3, <1>4

LEMMA UndisturbedInit == Init => Undisturbed
<1>. SUFFICES ASSUME Init PROVE Undisturbed
  OBVIOUS
<1>1. ep = EndpointInit(NoPacket) /\ bus = "gone" /\ pc = "main"
  BY DEF Init, BoardInit, Booted
<1>2. ~ep.fresh /\ ep.reply = NoReply
  BY <1>1 DEF EndpointInit, Cleared
<1>. QED BY <1>1, <1>2 DEF Init, LoaderInit, Undisturbed, Connected, Turns, Alternation, Looking

LEMMA UndisturbedNext ==
  ASSUME MaxFaults = 0, Slow = FALSE, TypeInv, Undisturbed, [Next]_vars
  PROVE  Undisturbed'
BY NoFailure, BoardUndisturbed, TransferUndisturbed, RestUndisturbed DEF Next, Undisturbed

\* No packet of an undisturbed operation is stored over one the handler has
\* not seen (usb_handler.c:88-93,243).
THEOREM PacketsAreTaken ==
  ASSUME MaxFaults = 0, Slow = FALSE
  PROVE  Spec => NothingOverwritten
<1>. DEFINE A == LoaderStep /\ ep'.packet # ep.packet => ~ep.fresh
<1>1. TypeInv /\ Undisturbed /\ [Next]_vars => [A]_vars
  <2>. SUFFICES ASSUME TypeInv, Undisturbed, LoaderStep, ep.fresh
                PROVE  ep'.packet = ep.packet
    OBVIOUS
  <2>1. op # "none"
    BY DEF LoaderStep, Transfer, SendReset, SendPoll, ReadPoll, SendChunk, SendFinal, ReadFinal, SetMaster,
           Fill, Flush, Read, Compare, ChipErase, EraseStatus, EraseDone, At
  <2>2. ASSUME NEW cmd, NEW pg, NEW part, NEW d, Writes(cmd, pg, part, d) PROVE FALSE
    BY <2>1, <2>2, SentTurns DEF Armed
  <2>3. ep' = ep \/ ep' = [ep EXCEPT !.reply = NoReply]
    BY <2>2 DEF LoaderStep, Transfer, SendReset, SendPoll, ReadPoll, SendChunk, SendFinal, ReadFinal,
       SetMaster, Fill, Flush, Read, Compare, ChipErase, EraseStatus, EraseDone, Sends, Asks, WriteFails,
       ReadFails, Reads
  <2>. QED BY <2>3, EndpointFacts DEF Endpoint, EndpointType
<1>. QED BY <1>1, UndisturbedInit, UndisturbedNext, TypeInvariant, PTL DEF Spec, NothingOverwritten

-----------------------------------------------------------------------------
(* What the FPGA runs while the loader configures it.                      *)

Resetting == step = "reset" \/ (step = "poll" /\ ep.fresh)

Loads ==
  /\ op = "configure" /\ ~loaded /\ ~Resetting => fpga.core \in {"none", "file"}
  /\ step = "finished" /\ ep.reply # NoReply /\ ep.reply.byte1 => fpga.core # "none"

LEMMA FedCore ==
  ASSUME NEW f, NEW k, f.core \in {"none", "file"}
  PROVE  Feed(f, k).core \in {"none", "file"}
<1>1. Feed(f, k) \in {f, Running("file"), [core |-> "none", taken |-> k], [core |-> "none", taken |-> Broken]}
  BY DEF Feed
<1>2. Running("file").core = "file"
  BY DEF Running
<1>. QED BY <1>1, <1>2

\* A command without an answer is done.
LEMMA RefreshTurns ==
  ASSUME TypeInv, Undisturbed, NEW cmd, Receives(cmd), Refresh
  PROVE  Fits(cmd) /\ ~ep'.fresh /\ ep.reply = NoReply /\ ep'.reply = NoReply
<1>1. Filled(ep) /\ ep.fresh /\ pc = "main" /\ ep.packet.cmd = cmd
  BY ReceivesFact DEF Undisturbed
<1>2. Fits(cmd) /\ ep.reply = NoReply
  BY <1>1 DEF Undisturbed, Alternation
<1>3. ~ep'.fresh /\ ep'.reply = ep.reply
  BY <1>1, EndpointFacts, TakenArmFact DEF Refresh, Endpoint
<1>. QED BY <1>2, <1>3

LEMMA WaitOver ==
  ASSUME TypeInv, Undisturbed, FlushEnds \/ ReplyTaken
  PROVE  ~ep.fresh /\ ~ep'.fresh /\ ep.reply = NoReply /\ ep'.reply = NoReply
<1>1. pc \in {"busy", "reply"} /\ ep' = Arm(ep) /\ ep.reply = NoReply
  BY DEF FlushEnds, ReplyTaken, Undisturbed, Alternation
<1>2. ~ep.fresh
  BY <1>1 DEF Undisturbed, Turns, Connected, Looking
<1>. QED BY <1>1, <1>2, EndpointFacts, ArmFact DEF Endpoint, SameTransfers

LEMMA BoardLoads ==
  ASSUME TypeInv, Undisturbed, Loads, BoardStep
  PROVE  Loads'
<1>. USE DEF Loads, Resetting
<1>1. UNCHANGED loaderVars /\ (~loaded' => ~loaded /\ ~LoadsCore)
  BY DEF BoardStep
<1>2. CASE UsbIdle \/ UiHandler
  <2>1. UNCHANGED ep /\ pc \in {"main", "ui"} /\ (UNCHANGED fpga \/ loaded')
    BY <1>2 DEF BoardStep, UsbIdle, UiHandler, UiInit, UiAutoStart, UiMainLoop, UiConfig, UiLoop, InUi,
                LoadsCore
  <2>2. ep.reply = NoReply
    BY <2>1 DEF Undisturbed, Alternation
  <2>. QED BY <1>1, <2>1, <2>2 DEF loaderVars
<1>3. CASE FpgaReset
  <2>1. ep'.reply = NoReply /\ fpga'.core = "none"
    BY <1>3, RefreshTurns DEF FpgaReset, Unconfigured
  <2>. QED BY <2>1
<1>4. CASE FpgaWriteBitstream
  <2>1. step \in {"chunk", "final"} /\ ep'.reply = NoReply /\ fpga' = Feed(fpga, ep.packet.part)
    BY <1>4, RefreshTurns DEF FpgaWriteBitstream, Fits
  <2>. QED BY <1>1, <2>1, FedCore DEF loaderVars
<1>5. CASE SetSpiMaster \/ DataflashChipErase \/ DataflashFillBuffer
  <2>1. step # "poll" /\ ep'.reply = NoReply /\ UNCHANGED fpga
    BY <1>5, RefreshTurns DEF SetSpiMaster, DataflashChipErase, DataflashFillBuffer, Fits
  <2>. QED BY <1>1, <2>1 DEF loaderVars
<1>6. CASE FpgaGetStatus
  <2>. DEFINE c == fpga.core # "none"
  <2>1. PICK b : Answer(b, c, Junk) /\ UNCHANGED fpga
    BY <1>6 DEF FpgaGetStatus
  <2>2. PICK cmd \in {"READ_STATUS", "FPGA_GET_STATUS"} : Receives(cmd)
    BY <1>6 DEF FpgaGetStatus
  <2>3. Filled(ep) /\ ep.fresh /\ ep.packet.cmd = cmd
    BY <2>2, ReceivesFact DEF Undisturbed
  <2>4. step # "poll" /\ step # "reset"
    BY <2>3 DEF Undisturbed, Alternation, Fits
  <2>. HIDE DEF c
  <2>5. ep'.reply = [byte0 |-> b, byte1 |-> c, data |-> Junk]
    BY <2>1, <2>3, AnswerTurns
  <2>6. ep'.reply.byte1 = c
    BY <2>5
  <2>. QED BY <1>1, <2>1, <2>4, <2>6 DEF loaderVars, c
<1>7. CASE DataflashGetStatus \/ DataflashRead \/ DataflashFlushBuffer
  <2>1. PICK cmd \in {"DATAFLASH_GET_STATUS", "DATAFLASH_READ", "DATAFLASH_FLUSH_BUFFER"} : Receives(cmd)
    BY <1>7 DEF DataflashGetStatus, DataflashRead, DataflashFlushBuffer
  <2>2. ep.fresh /\ ep.packet.cmd = cmd
    BY <2>1, ReceivesFact DEF Undisturbed
  <2>3. step \in {"compare", "wait", "read"}
    BY <2>2 DEF Undisturbed, Alternation, Fits
  <2>4. UNCHANGED fpga
    BY <1>7 DEF DataflashGetStatus, DataflashRead, DataflashFlushBuffer
  <2>. QED BY <1>1, <2>3, <2>4 DEF loaderVars
<1>8. CASE FlushEnds \/ ReplyTaken
  <2>1. UNCHANGED fpga
    BY <1>8 DEF FlushEnds, ReplyTaken
  <2>. QED BY <1>1, <1>8, <2>1, WaitOver DEF loaderVars
<1>. QED BY <1>2, <1>3, <1>4, <1>5, <1>6, <1>7, <1>8 DEF BoardStep, Main, UsbHandler

LEMMA TransferLoads ==
  ASSUME MaxFaults = 0, Slow = FALSE, TypeInv, Undisturbed, Loads, LoaderStep
  PROVE  Loads'
<1>1. ~WriteFails /\ ~ReadFails /\ UNCHANGED <<fpga, loaded>>
  BY NoFailure DEF Undisturbed, LoaderStep
<1>2. op' = "configure" =>
        op = "configure" /\ (SendReset \/ SendPoll \/ ReadPoll \/ SendChunk \/ SendFinal)
  BY DEF LoaderStep, Transfer, SendReset, SendPoll, ReadPoll, SendChunk, SendFinal, ReadFinal, SetMaster,
         Fill, Flush, Read, Compare, ChipErase, EraseStatus, EraseDone, At, Goes, Ends, NextPart, NextPage
<1>3. ASSUME op' = "configure", ~Resetting' PROVE ~Resetting
  <2>1. CASE SendReset
    <3>1. Writes("FPGA_RESET", 0, 0, Blank) /\ step' = "poll"
      BY <1>1, <2>1 DEF SendReset, Sends, Goes
    <3>2. ep'.fresh
      BY <1>2, <1>3, <3>1, SentTurns
    <3>. QED BY <1>3, <3>1, <3>2 DEF Resetting
  <2>2. CASE SendPoll
    <3>1. Writes("FPGA_GET_STATUS", 0, 0, Blank) /\ step = "poll"
      BY <1>1, <2>2 DEF SendPoll, Sends, At
    <3>2. ~ep.fresh
      BY <1>2, <1>3, <3>1, SentTurns DEF Armed
    <3>. QED BY <3>1, <3>2 DEF Resetting
  <2>3. CASE ReadPoll \/ SendChunk \/ SendFinal
    BY <2>3 DEF ReadPoll, SendChunk, SendFinal, At, Resetting
  <2>. QED BY <1>2, <1>3, <2>1, <2>2, <2>3
<1>4. ASSUME step' = "finished" PROVE ep'.reply = NoReply
  <2>1. SendFinal
    BY <1>4 DEF LoaderStep, Transfer, SendReset, SendPoll, ReadPoll, SendChunk, SendFinal, ReadFinal,
       SetMaster, Fill, Flush, Read, Compare, ChipErase, EraseStatus, EraseDone, At, Goes, Ends, NextPart,
       NextPage
  <2>2. op # "none" /\ Writes("FPGA_GET_STATUS", 0, 0, Blank)
    BY <1>1, <2>1 DEF SendFinal, Sends, At
  <2>. QED BY <2>2, SentTurns
<1>. QED BY <1>1, <1>2, <1>3, <1>4 DEF Loads

LEMMA RestLoads ==
  ASSUME TypeInv, Undisturbed, Loads, Chip \/ Button \/ PluggedIn \/ UNCHANGED vars
  PROVE  Loads'
<1>. USE DEF Loads, Resetting
<1>1. CASE Chip \/ UNCHANGED vars
  BY <1>1 DEF Chip, FlashDone, vars, boardVars, loaderVars
<1>2. CASE Button
  BY <1>2 DEF Button, ConfigureFPGA, WriteDataflash, EraseDataflash, Opens
<1>3. CASE PluggedIn
  BY <1>3 DEF PluggedIn, Plug, Undisturbed, Connected, loaderVars
<1>. QED BY <1>1, <1>2, <1>3

LEMMA LoadsInvariant ==
  ASSUME MaxFaults = 0, Slow = FALSE
  PROVE  Spec => [](TypeInv /\ Undisturbed /\ Loads)
<1>1. Init => Loads
  BY DEF Init, LoaderInit, Loads
<1>2. TypeInv /\ Undisturbed /\ Loads /\ [Next]_vars => Loads'
  BY NoFailure, BoardLoads, TransferLoads, RestLoads DEF Next, Undisturbed
<1>. QED BY <1>1, <1>2, UndisturbedInit, UndisturbedNext, TypeInvariant, PTL DEF Spec

\* "FPGA Configuration Done", undisturbed, is said of an FPGA that runs the
\* file, unless the user interface loaded a core of its own: between its
\* reset and its answer the FPGA has no core or the file's
\* (mainwindow.cpp:151-200).
THEOREM DoneMeansConfigured ==
  ASSUME MaxFaults = 0, Slow = FALSE
  PROVE  Spec => ConfiguredWhenSaid
<1>. DEFINE A == Says("configured") /\ ~failed' /\ ~loaded => fpga.core = "file"
<1>1. TypeInv /\ Undisturbed /\ Loads /\ [Next]_vars => [A]_vars
  <2>. SUFFICES ASSUME TypeInv, Undisturbed, Loads, Next, Says("configured"), ~loaded
                PROVE  fpga.core = "file"
    OBVIOUS
  <2>1. LoaderStep /\ ~ReadFails
    <3>1. LoaderStep \/ Fault
      BY DEF Next, BoardStep, Chip, Button, PluggedIn, Says, loaderVars, ConfigureFPGA, WriteDataflash,
             EraseDataflash, Opens
    <3>. QED BY <3>1, NoFailure DEF Undisturbed
  <2>2. ReadFinal
    BY <2>1 DEF LoaderStep, Transfer, Says, Goes, Ends, SendReset, SendPoll, ReadPoll, SendChunk, SendFinal,
                SetMaster, Fill, Flush, Read, Compare, NextPart, NextPage, ChipErase, EraseStatus, EraseDone
  <2>3. PICK a \in Bytes : Asks(a) /\ Ends(IF a.byte1 THEN "configured" ELSE "configurationError")
    BY <2>2 DEF ReadFinal
  <2>4. a.byte1
    BY <2>3 DEF Ends, Says
  <2>5. ep.reply # NoReply /\ ep.reply.byte1
    BY <2>1, <2>3, <2>4 DEF Asks, Reads
  <2>. QED BY <2>2, <2>5 DEF ReadFinal, At, Loads, Resetting
<1>. QED BY <1>1, LoadsInvariant, PTL DEF Spec, ConfiguredWhenSaid

-----------------------------------------------------------------------------
(* What the DataFlash holds while the loader waits for its erase.          *)

Starting == step = "erase" \/ (step = "status" /\ ep.fresh)

AllBlank == \A p \in Page, s \in Part : store[p][s] = Blank

Erases ==
  /\ mux = "mcu"
  /\ job # Ready => pc = "busy" \/ (op = "erase" /\ ~Starting /\ job = Erasing)
  /\ op = "erase" /\ ~Starting /\ job = Ready => AllBlank
  /\ step = "wait" /\ ep.reply # NoReply /\ ep.reply.byte0 => job = Ready

\* Before its erase command is taken, the DataFlash is idle.
LEMMA StartsReady ==
  ASSUME Undisturbed, Erases, Starting
  PROVE  job = Ready
BY DEF Undisturbed, Alternation, Erases, Starting

LEMMA BoardErases ==
  ASSUME Masters = {"mcu"}, TypeInv, Undisturbed, Erases, BoardStep
  PROVE  Erases'
<1>. USE DEF Erases, Starting
<1>1. UNCHANGED loaderVars
  BY DEF BoardStep
<1>2. CASE UsbIdle \/ UiHandler
  <2>1. UNCHANGED <<ep, store, job>> /\ pc \in {"main", "ui"} /\ mux' = "mcu"
    BY <1>2 DEF UsbIdle, UiHandler, UiInit, UiAutoStart, UiMainLoop, UiConfig, UiLoop, InUi, flashVars
  <2>. QED BY <1>1, <2>1 DEF loaderVars, AllBlank
<1>3. CASE FpgaReset \/ FpgaWriteBitstream \/ SetSpiMaster \/ DataflashFillBuffer
  <2>1. UNCHANGED <<store, job>> /\ pc = "main" /\ mux' = "mcu"
    BY <1>3 DEF FpgaReset, FpgaWriteBitstream, SetSpiMaster, DataflashFillBuffer, flashVars, Receives
  <2>2. step # "status" /\ ep'.reply = NoReply
    BY <1>3, RefreshTurns
    DEF FpgaReset, FpgaWriteBitstream, SetSpiMaster, DataflashFillBuffer, Fits
  <2>. QED BY <1>1, <2>1, <2>2 DEF loaderVars, AllBlank
<1>4. CASE DataflashChipErase
  <2>1. step = "status" /\ ~ep'.fresh /\ ep'.reply = NoReply
    BY <1>4, RefreshTurns DEF DataflashChipErase, Fits
  <2>2. ep.fresh
    BY <1>4, ReceivesFact DEF DataflashChipErase, Undisturbed
  <2>3. job = Ready
    BY <2>1, <2>2, StartsReady
  <2>4. job' = Erasing /\ mux' = "mcu"
    BY <1>4, <2>3 DEF DataflashChipErase, Listening
  <2>5. Erasing # Ready
    BY BoardAssumption DEF Erasing, Ready
  <2>6. op = "erase"
    BY <2>1 DEF Undisturbed, Connected
  <2>. QED BY <1>1, <2>1, <2>4, <2>5, <2>6 DEF loaderVars
<1>5. CASE FpgaGetStatus \/ DataflashRead
  <2>1. PICK cmd \in {"READ_STATUS", "FPGA_GET_STATUS", "DATAFLASH_READ"} : Receives(cmd)
    BY <1>5 DEF FpgaGetStatus, DataflashRead
  <2>2. ep.fresh /\ ep.packet.cmd = cmd /\ pc = "main"
    BY <2>1, ReceivesFact DEF Undisturbed
  <2>3. step \in {"polled", "finished", "compare"}
    BY <2>2 DEF Undisturbed, Alternation, Fits
  <2>4. UNCHANGED <<store, job, mux>>
    BY <1>5 DEF FpgaGetStatus, DataflashRead, flashVars
  <2>. QED BY <1>1, <2>2, <2>3, <2>4 DEF loaderVars, AllBlank
<1>6. CASE DataflashGetStatus
  <2>. DEFINE b == job = Ready
  <2>1. Answer(b, FALSE, Junk) /\ UNCHANGED <<store, job, mux>>
    BY <1>6 DEF DataflashGetStatus, flashVars
  <2>2. ep.fresh /\ Filled(ep) /\ pc = "main" /\ ep.packet.cmd = "DATAFLASH_GET_STATUS"
    BY <1>6, ReceivesFact DEF DataflashGetStatus, Undisturbed
  <2>3. step = "wait"
    BY <2>2 DEF Undisturbed, Alternation, Fits
  <2>. HIDE DEF b
  <2>4. ep'.reply = [byte0 |-> b, byte1 |-> FALSE, data |-> Junk]
    BY <2>1, <2>2, AnswerTurns
  <2>5. ep'.reply.byte0 = b
    BY <2>4
  <2>. QED BY <1>1, <2>1, <2>2, <2>3, <2>5 DEF loaderVars, AllBlank, b
<1>7. CASE DataflashFlushBuffer
  <2>1. ep.fresh /\ pc = "main" /\ ep.packet.cmd = "DATAFLASH_FLUSH_BUFFER"
    BY <1>7, ReceivesFact DEF DataflashFlushBuffer, Undisturbed
  <2>2. step = "read" /\ op # "erase"
    BY <2>1 DEF Undisturbed, Alternation, Fits, Connected
  <2>3. pc' = "busy" /\ UNCHANGED mux
    BY <1>7 DEF DataflashFlushBuffer
  <2>. QED BY <1>1, <2>2, <2>3 DEF loaderVars
<1>8. CASE FlushEnds \/ ReplyTaken
  <2>1. UNCHANGED <<store, job, mux>> /\ (pc = "busy" => job = Ready)
    BY <1>8 DEF FlushEnds, ReplyTaken, flashVars
  <2>. QED BY <1>1, <1>8, <2>1, WaitOver DEF loaderVars, AllBlank
<1>. QED BY <1>2, <1>3, <1>4, <1>5, <1>6, <1>7, <1>8 DEF BoardStep, Main, UsbHandler

\* The chip finishes a page for a handler that waits, and an erase for the
\* loader that waits.
LEMMA ChipErases ==
  ASSUME TypeInv, Undisturbed, Erases, Chip
  PROVE  Erases'
<1>1. UNCHANGED <<loaderVars, ep, pc, mux>> /\ job # Ready /\ job' = Ready
  BY DEF Chip, FlashDone
<1>2. ASSUME op = "erase", ~Starting PROVE AllBlank'
  <2>1. job = Erasing
    BY <1>1, <1>2 DEF Erases, Undisturbed, Alternation, Connected
  <2>2. store' = [p \in Page |-> [s \in Part |-> Blank]]
    BY <2>1 DEF Chip, FlashDone
  <2>. QED BY <2>2 DEF AllBlank
<1>. QED BY <1>1, <1>2 DEF Erases, Starting, loaderVars

LEMMA TransferErases ==
  ASSUME MaxFaults = 0, Slow = FALSE, TypeInv, Undisturbed, Erases, LoaderStep
  PROVE  Erases'
<1>1. ~WriteFails /\ ~ReadFails /\ UNCHANGED <<pc, mux, store, job>>
  BY NoFailure DEF Undisturbed, LoaderStep, flashVars
<1>2. CASE ChipErase
  <2>1. Writes("DATAFLASH_CHIP_ERASE", 0, 0, Blank) /\ Goes("status", 0) /\ op # "none" /\ step = "erase"
    BY <1>1, <1>2 DEF ChipErase, Sends, At
  <2>2. ep'.fresh /\ step' = "status" /\ UNCHANGED op
    BY <2>1, SentTurns DEF Goes
  <2>3. job = Ready
    BY <2>1, StartsReady DEF Starting
  <2>. QED BY <1>1, <2>2, <2>3 DEF Erases, Starting
<1>3. CASE EraseStatus
  <2>1. Writes("DATAFLASH_GET_STATUS", 0, 0, Blank) /\ Goes("wait", 0) /\ op # "none" /\ step = "status"
    BY <1>1, <1>3 DEF EraseStatus, Sends, At
  <2>2. ~ep.fresh /\ step' = "wait" /\ UNCHANGED op /\ ep'.reply = NoReply
    BY <2>1, SentTurns DEF Goes, Armed
  <2>. QED BY <1>1, <2>1, <2>2 DEF Erases, Starting, AllBlank
<1>4. CASE EraseDone
  <2>1. PICK a \in Bytes : Asks(a) /\ IF a.byte0 THEN Ends("erased") ELSE Goes("status", 0)
    BY <1>4 DEF EraseDone
  <2>2. Reads /\ step = "wait" /\ op = "erase" /\ a.byte0 = ep.reply.byte0
    BY <1>1, <1>4, <2>1 DEF EraseDone, Asks, At
  <2>3. ep.reply # NoReply /\ ep'.reply = NoReply /\ ~ep'.fresh
    BY <2>2, ReadTurns DEF Reads
  <2>4. CASE a.byte0
    <3>1. job = Ready /\ op' = "none"
      BY <2>1, <2>2, <2>3, <2>4 DEF Erases, Ends
    <3>. QED BY <1>1, <2>3, <3>1 DEF Erases
  <2>5. CASE ~a.byte0
    BY <1>1, <2>1, <2>2, <2>3, <2>5 DEF Erases, Starting, AllBlank, Goes
  <2>. QED BY <2>4, <2>5
<1>5. CASE ~(ChipErase \/ EraseStatus \/ EraseDone)
  <2>1. op # "erase" /\ op' # "erase" /\ step' # "wait"
    BY <1>5 DEF LoaderStep, Transfer, SendReset, SendPoll, ReadPoll, SendChunk, SendFinal, ReadFinal,
       SetMaster, Fill, Flush, Read, Compare, At, Goes, Ends, NextPart, NextPage
  <2>. QED BY <1>1, <2>1 DEF Erases
<1>. QED BY <1>2, <1>3, <1>4, <1>5

LEMMA RestErases ==
  ASSUME TypeInv, Undisturbed, Erases, Button \/ PluggedIn \/ UNCHANGED vars
  PROVE  Erases'
<1>. USE DEF Erases, Starting
<1>1. CASE Button
  <2>1. /\ op = "none" /\ UNCHANGED <<mux, store, job>>
        /\ step' \in {"reset", "master", "erase"}
    BY <1>1 DEF Button, ConfigureFPGA, WriteDataflash, EraseDataflash, Opens, SetConfiguration, flashVars
  <2>2. op' = "erase" => step' = "erase"
    BY <1>1 DEF Button, ConfigureFPGA, WriteDataflash, EraseDataflash, Opens
  <2>3. job = Ready
    BY <2>1 DEF Undisturbed, Connected, Alternation
  <2>. QED BY <2>1, <2>2, <2>3
<1>2. CASE PluggedIn
  BY <1>2 DEF PluggedIn, Plug, Undisturbed, Connected, loaderVars, flashVars
<1>3. CASE UNCHANGED vars
  BY <1>3 DEF vars, boardVars, loaderVars, flashVars, AllBlank
<1>. QED BY <1>1, <1>2, <1>3

LEMMA ErasesInvariant ==
  ASSUME MaxFaults = 0, Slow = FALSE, Masters = {"mcu"}
  PROVE  Spec => [](TypeInv /\ Undisturbed /\ Erases)
<1>1. Init => Erases
  BY DEF Init, BoardInit, Booted, LoaderInit, Erases
<1>2. TypeInv /\ Undisturbed /\ Erases /\ [Next]_vars => Erases'
  BY NoFailure, BoardErases, ChipErases, TransferErases, RestErases DEF Next, Undisturbed
<1>. QED BY <1>1, <1>2, UndisturbedInit, UndisturbedNext, TypeInvariant, PTL DEF Spec

\* "DataFlash is erased now!", undisturbed and with no core that is the
\* chip's master, is said of an erased chip: the first status after the
\* command is of a chip that has begun (mainwindow.cpp:366-378).
THEOREM DoneMeansErased ==
  ASSUME MaxFaults = 0, Slow = FALSE, Masters = {"mcu"}
  PROVE  Spec => ErasedWhenSaid
<1>. DEFINE A == Says("erased") /\ ~failed' => \A p \in Page, s \in Part : store[p][s] = Blank
<1>1. TypeInv /\ Undisturbed /\ Erases /\ [Next]_vars => [A]_vars
  <2>. SUFFICES ASSUME TypeInv, Undisturbed, Erases, Next, Says("erased")
                PROVE  AllBlank
    BY DEF AllBlank
  <2>1. LoaderStep /\ ~ReadFails
    <3>1. LoaderStep \/ Fault
      BY DEF Next, BoardStep, Chip, Button, PluggedIn, Says, loaderVars, ConfigureFPGA, WriteDataflash,
             EraseDataflash, Opens
    <3>. QED BY <3>1, NoFailure DEF Undisturbed
  <2>2. EraseDone
    BY <2>1 DEF LoaderStep, Transfer, Says, Goes, Ends, SendReset, SendPoll, ReadPoll, SendChunk, SendFinal,
                ReadFinal, SetMaster, Fill, Flush, Read, Compare, NextPart, NextPage, ChipErase, EraseStatus
  <2>3. PICK a \in Bytes : Asks(a) /\ (a.byte0 \/ Goes("status", 0))
    BY <2>2 DEF EraseDone
  <2>4. ep.reply # NoReply /\ ep.reply.byte0
    BY <2>1, <2>3 DEF Asks, Reads, Goes, Says
  <2>. QED BY <2>2, <2>4 DEF EraseDone, At, Erases, Starting
<1>. QED BY <1>1, ErasesInvariant, PTL DEF Spec, ErasedWhenSaid
=============================================================================
