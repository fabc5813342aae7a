----------------------------- MODULE AeonLoader -----------------------------
(***************************************************************************)
(* The PC application that configures the board's FPGA and programs and    *)
(* erases its DataFlash (tools/aeon loader/mainwindow.cpp).  Each button   *)
(* runs to its end in the window's thread; a step is one bulk transfer.    *)
(* A transfer fails when the device has left the bus, or after 5 seconds.  *)
(***************************************************************************)
EXTENDS Board

CONSTANTS
  Polls,   \* how often an operation asks whether the FPGA is ready (15)
  Slow     \* whether the board may keep a transfer waiting for 5 seconds

ASSUME LoaderAssumption == Polls \in Nat \ {0} /\ Slow \in BOOLEAN

VARIABLES
  op,       \* the button being served
  step,     \* its next transfer
  n, page,  \* a, or buff_pos; page
  input,    \* InputPacket: the two bytes that are looked at without a check
  handle,   \* dev: "closed", "open", or "stale" once the device has left
  said,     \* the last message
  failed    \* history: a transfer of the operation has failed

loaderVars == <<op, step, n, page, input, handle, said, failed>>

LoaderTypeOK ==
  /\ op \in {"none", "configure", "write", "erase"}
  /\ step \in {"reset", "poll", "polled", "chunk", "final", "finished", "master",
               "fill", "flush", "read", "compare", "erase", "status", "wait", "idle"}
  /\ n \in 0 .. Polls + Chunks + Parts /\ page \in 0 .. Pages
  /\ input \in [byte0: BOOLEAN, byte1: BOOLEAN]
  /\ handle \in {"closed", "open", "stale"}
  /\ said \in {"nothing", "resetError", "configured", "configurationError",
               "transmitError", "verifyFailed", "programmed", "erased"}
  /\ failed \in BOOLEAN

NoInput == [byte0 |-> FALSE, byte1 |-> FALSE]

LoaderInit ==
  /\ op = "none" /\ step = "idle" /\ n = 0 /\ page = 0
  /\ input = NoInput
  /\ handle = "closed" /\ said = "nothing" /\ failed = FALSE

-----------------------------------------------------------------------------
(* Transfers.                                                              *)

At(o, s) == op = o /\ step = s

\* The board is loading from the card, or waits for the chip or for the host.
Loading     == pc = "ui" /\ ui = "config"
EraseWait   == pc = "busy" /\ job = Erasing
AwaitsRead  == pc = "reply" /\ ep.reply # NoReply
NothingDue  == pc \in {"main", "ui"} /\ ~Received(ep)

\* usb_bulk_write of one packet.
Writes(cmd, pg, part, d) ==
  /\ handle = "open" /\ CanStore(ep)
  /\ ep' = Store(ep, [cmd |-> cmd, page |-> pg, part |-> part, data |-> d])
  /\ UNCHANGED failed

WriteFails ==
  /\ \/ handle = "stale"
     \/ Slow /\ handle = "open" /\ ~CanStore(ep) /\ (Loading \/ EraseWait \/ AwaitsRead)
  /\ failed' = TRUE /\ UNCHANGED ep

\* usb_bulk_read.
Reads ==
  /\ handle = "open" /\ ep.reply # NoReply
  /\ ep' = [ep EXCEPT !.reply = NoReply]
  /\ UNCHANGED failed

ReadFails ==
  /\ \/ handle = "stale"
     \/ Slow /\ handle = "open" /\ ep.reply = NoReply /\ (Loading \/ EraseWait \/ NothingDue)
  /\ failed' = TRUE /\ UNCHANGED ep

\* Transfers whose result is ignored.  InputPacket keeps what it held when a
\* read fails.
Sends(cmd) == Writes(cmd, 0, 0, Blank) \/ WriteFails

Asks(a) == \/ Reads /\ a = [byte0 |-> ep.reply.byte0, byte1 |-> ep.reply.byte1]
           \/ ReadFails /\ a = input

Bytes == [byte0: BOOLEAN, byte1: BOOLEAN]

Goes(s, k) == step' = s /\ n' = k /\ UNCHANGED <<op, page, said, handle>>

\* The message stays, the device is closed, and InputPacket is gone.
Ends(m) ==
  /\ op' = "none" /\ step' = "idle" /\ n' = 0 /\ page' = 0
  /\ said' = m /\ handle' = "closed" /\ input' = NoInput

-----------------------------------------------------------------------------
(* The buttons: open_dev, usb_set_configuration, usb_claim_interface.      *)

Opens(o, first, Garbage) ==
  /\ op = "none" /\ SetConfiguration
  /\ op' = o /\ step' = first /\ n' = 1 /\ page' = 1
  /\ handle' = "open" /\ said' = "nothing" /\ failed' = FALSE
  /\ input' \in Garbage   \* InputPacket is not initialised

ConfigureFPGA  == Opens("configure", "reset", Bytes)
WriteDataflash == Opens("write", "master", {NoInput})
EraseDataflash == Opens("erase", "erase", Bytes)

-----------------------------------------------------------------------------
(* on_pushButtonConfigureFPGA_clicked.                                     *)

SendReset ==
  At("configure", "reset") /\ Sends("FPGA_RESET") /\ Goes("poll", 1) /\ UNCHANGED input

SendPoll ==
  At("configure", "poll") /\ Sends("FPGA_GET_STATUS") /\ Goes("polled", n) /\ UNCHANGED input

\* Mutant: the polls are not counted.
ReadPoll_Uncounted ==
  /\ At("configure", "polled")
  /\ \E a \in Bytes : Asks(a) /\ Goes(IF a.byte0 THEN "chunk" ELSE "poll", 1) /\ input' = a

ReadPoll ==
  /\ At("configure", "polled")
  /\ \E a \in Bytes :
       /\ Asks(a)
       /\ \/ a.byte0 /\ Goes("chunk", 1) /\ input' = a
          \/ ~a.byte0 /\ n < Polls /\ Goes("poll", n + 1) /\ input' = a
          \/ ~a.byte0 /\ n = Polls /\ Ends("resetError")

SendChunk ==
  /\ At("configure", "chunk")
  /\ \/ n <= Chunks /\ Writes("FPGA_WRITE_BITSTREAM", 0, n, Blank) /\ Goes("chunk", n + 1)
     \/ n <= Chunks /\ WriteFails /\ Goes("final", 0)
     \/ n > Chunks /\ Goes("final", 0) /\ UNCHANGED <<ep, failed>>
  /\ UNCHANGED input

SendFinal ==
  At("configure", "final") /\ Sends("FPGA_GET_STATUS") /\ Goes("finished", 0) /\ UNCHANGED input

ReadFinal ==
  /\ At("configure", "finished")
  /\ \E a \in Bytes :
       Asks(a) /\ Ends(IF a.byte1 THEN "configured" ELSE "configurationError")

-----------------------------------------------------------------------------
(* on_pushButtonWriteDataflash_clicked.                                    *)

SetMaster ==
  /\ At("write", "master")
  /\ \/ Writes("SET_SPI_MASTER", 0, 0, Blank) /\ Goes("fill", 1) /\ UNCHANGED input
     \/ WriteFails /\ Ends("transmitError")

\* A "break" here leaves the loop over the parts only.
Fill ==
  /\ At("write", "fill") /\ UNCHANGED input
  /\ \/ /\ Writes("DATAFLASH_FILL_BUFFER", page, n, File[page][n])
        /\ IF n < Parts THEN Goes("fill", n + 1) ELSE Goes("flush", 0)
     \/ WriteFails /\ Goes("flush", 0)

\* A "break" here leaves the loop over the pages.
Flush ==
  /\ At("write", "flush")
  /\ \/ Writes("DATAFLASH_FLUSH_BUFFER", page, 0, Blank) /\ Goes("read", 1) /\ UNCHANGED input
     \/ WriteFails /\ Ends("programmed")

\* Mutant: one page too many.
NextPage_Beyond ==
  IF page <= Pages
    THEN page' = page + 1 /\ step' = "fill" /\ n' = 1 /\ UNCHANGED <<op, said, handle, input>>
    ELSE Ends("programmed")

NextPage ==
  IF page < Pages
    THEN page' = page + 1 /\ step' = "fill" /\ n' = 1 /\ UNCHANGED <<op, said, handle, input>>
    ELSE Ends("programmed")

NextPart == IF n < Parts THEN Goes("read", n + 1) /\ UNCHANGED input ELSE NextPage

Read ==
  /\ At("write", "read")
  /\ \/ Writes("DATAFLASH_READ", page, n, Blank) /\ Goes("compare", n) /\ UNCHANGED input
     \/ WriteFails /\ NextPage

\* Mutant: what was read is not compared.
Compare_Skipped ==
  /\ At("write", "compare")
  /\ \/ Reads /\ NextPart
     \/ ReadFails /\ NextPage

Compare ==
  /\ At("write", "compare")
  /\ \/ /\ Reads
        /\ IF ep.reply.data # File[page][n] THEN Ends("verifyFailed") ELSE NextPart
     \/ ReadFails /\ NextPage

-----------------------------------------------------------------------------
(* on_pushButtonEraseDataflash_clicked.                                    *)

ChipErase ==
  At("erase", "erase") /\ Sends("DATAFLASH_CHIP_ERASE") /\ Goes("status", 0) /\ UNCHANGED input

EraseStatus ==
  At("erase", "status") /\ Sends("DATAFLASH_GET_STATUS") /\ Goes("wait", 0) /\ UNCHANGED input

\* Mutant: one look at the status is enough.
EraseDone_Once ==
  At("erase", "wait") /\ \E a \in Bytes : Asks(a) /\ Ends("erased")

EraseDone ==
  /\ At("erase", "wait")
  /\ \E a \in Bytes :
       /\ Asks(a)
       /\ IF a.byte0 THEN Ends("erased") ELSE Goes("status", 0) /\ input' = a

Transfer ==
  \/ SendReset \/ SendPoll \/ ReadPoll \/ SendChunk \/ SendFinal \/ ReadFinal
  \/ SetMaster \/ Fill \/ Flush \/ Read \/ Compare
  \/ ChipErase \/ EraseStatus \/ EraseDone

\* The application is closed in the middle of an operation.
Killed == op # "none" /\ Ends("nothing") /\ UNCHANGED failed
=============================================================================
