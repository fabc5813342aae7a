------------------------------- MODULE Board -------------------------------
(***************************************************************************)
(* Firmware v2 of the Aeon Lite board: the main loop (main.c) that calls   *)
(* the USB command interpreter (usb_handler.c) and the user interface      *)
(* (ui.c) in turn, both of which configure the FPGA, and the chips they    *)
(* drive: the FPGA and the DataFlash.                                      *)
(*                                                                         *)
(* Handlers that only wait for milliseconds are one step.  The steps in    *)
(* which the firmware waits for the host or for the DataFlash are states:  *)
(* the USB interrupt, and the host's timeouts, can come there.             *)
(***************************************************************************)
EXTENDS UsbEndpoint

CONSTANTS
  Chunks,         \* packets in a bitstream
  Pages, Parts,   \* pages of the DataFlash, packets in a page
  Data,           \* what a part of a page can hold
  Blank, Junk,    \* erased; what is read from a chip that does not answer
  Service,        \* the service core: its image in the DataFlash
  File,           \* the image of the host's file
  Autostart,      \* whether a section of the card may have an "autostart" key
  Keys,           \* whether Enter is ever pressed
  Masters         \* the SPI masters the card's sections ask for

Page == 1 .. Pages
Part == 1 .. Parts
Image == [Page -> [Part -> Data]]

ASSUME BoardAssumption ==
  /\ Chunks \in Nat \ {0} /\ Pages \in Nat \ {0} /\ Parts \in Nat \ {0}
  /\ {Blank, Junk} \subseteq Data
  /\ Service \in Image /\ File \in Image
  /\ Autostart \in BOOLEAN /\ Keys \in BOOLEAN
  /\ Masters \subseteq {"mcu", "fpga"} /\ Masters # {}

\* A part of the file that looked like what is read from nobody would always
\* pass the loader's comparison.
ASSUME FileAssumption == \A p \in Page, s \in Part : File[p][s] # Junk

VARIABLES
  pc,      \* where main() is: in usbHandler, waiting in it, or in uiHandler
  ui,      \* state of the user interface
  fpga,    \* the core it runs, and the bitstream packets it has taken
  mux,     \* pinSpiMux: who drives the DataFlash and the card
  store,   \* pages of the DataFlash
  buffer,  \* its SRAM buffer
  job,     \* what it is busy with: Ready, Erasing, or the page it programs
  ep,      \* the USB endpoint
  bus      \* "gone", "reset" or "configured"

flashVars == <<store, buffer, job>>
boardVars == <<pc, ui, fpga, mux, flashVars, ep, bus>>

Ready   == 0
Erasing == Pages + 1
Broken  == Chunks   \* taken: the bitstream has a gap

Packet ==
  [cmd: {"READ_STATUS", "FPGA_GET_STATUS", "FPGA_RESET", "FPGA_WRITE_BITSTREAM",
         "SET_SPI_MASTER", "DATAFLASH_GET_STATUS", "DATAFLASH_CHIP_ERASE",
         "DATAFLASH_FILL_BUFFER", "DATAFLASH_FLUSH_BUFFER", "DATAFLASH_READ"},
   page: 0 .. Pages, part: 0 .. Chunks + Parts, data: Data]

\* The packet memory before the first packet: zeros.
NoPacket == [cmd |-> "READ_STATUS", page |-> 0, part |-> 0, data |-> Blank]

Reply == [byte0: BOOLEAN, byte1: BOOLEAN, data: Data]

BoardTypeOK ==
  /\ pc \in {"main", "reply", "busy", "ui"}
  /\ ui \in {"init", "autostart", "menu", "config", "loop"}
  /\ fpga \in [core: {"none", "service", "card", "file"}, taken: 0 .. Chunks]
  /\ mux \in {"mcu", "fpga"}
  /\ store \in Image /\ buffer \in [Part -> Data] /\ job \in 0 .. Pages + 1
  /\ ep \in EndpointType(Packet, Reply)
  /\ bus \in {"gone", "reset", "configured"}

Booted ==
  /\ pc = "main" /\ ui = "init" /\ mux = "mcu"
  /\ ep = EndpointInit(NoPacket) /\ bus = "gone"

BoardInit ==
  /\ Booted
  /\ fpga = [core |-> "none", taken |-> 0]
  /\ store = Service /\ buffer = [s \in Part |-> Blank] /\ job = Ready

-----------------------------------------------------------------------------
(* The chips.                                                              *)

Unconfigured == [core |-> "none", taken |-> 0]
Running(core) == [core |-> core, taken |-> 0]

\* Packet k of the file reaches the FPGA: ignored by a running core and
\* before the sync word, and a gap in a bitstream is never made good.
Feed(f, k) ==
  IF f.core # "none" THEN f
  ELSE IF k = f.taken + 1
         THEN IF k = Chunks THEN Running("file") ELSE [core |-> "none", taken |-> k]
         ELSE IF f.taken = 0 THEN f ELSE [core |-> "none", taken |-> Broken]

\* Other bytes on the same SPI: they spoil a bitstream that has begun.
Disturb(f) == IF f.core = "none" /\ f.taken > 0 THEN [f EXCEPT !.taken = Broken] ELSE f

\* pinInitB: low after an error in the bitstream, a pin of the core later.
InitB(f) == IF f.core # "none" THEN BOOLEAN ELSE {f.taken < Broken}

\* The firmware reaches the DataFlash only while it is the master.
Listening == mux = "mcu" /\ job = Ready

FlashDone ==
  /\ job # Ready /\ job' = Ready
  /\ store' = IF job = Erasing THEN [p \in Page |-> [s \in Part |-> Blank]]
              ELSE [store EXCEPT ![job] = buffer]
  /\ UNCHANGED <<pc, ui, fpga, mux, buffer, ep, bus>>

-----------------------------------------------------------------------------
(* usbHandler.                                                             *)

Receives(cmd) ==
  pc = "main" /\ bus = "configured" /\ Received(ep) /\ ep.packet.cmd = cmd

Taken(e) == [e EXCEPT !.fresh = FALSE]

\* Mutants: the descriptor is not armed again after a command; both are.
Refresh_Forgotten == ep' = Taken(ep) /\ pc' = "ui"
Refresh_Both      == ep' = Arm(Arm(Taken(ep))) /\ pc' = "ui"

\* The end of usbGenericHandler: "Refresh USB", and main() goes on.
Refresh == ep' = Arm(Taken(ep)) /\ pc' = "ui"

\* usbGenericFlush up to its wait.
Answer(b0, b1, d) ==
  /\ ep' = [Taken(ep) EXCEPT !.reply = [byte0 |-> b0, byte1 |-> b1, data |-> d],
                             !.current = TRUE]
  /\ pc' = "reply"

UsbIdle ==
  /\ pc = "main" /\ ~(bus = "configured" /\ Received(ep))
  /\ pc' = "ui"
  /\ UNCHANGED <<ui, fpga, mux, flashVars, ep, bus>>

\* CMD_READ_STATUS answers with more bytes, but the same first two.
FpgaGetStatus ==
  /\ \E cmd \in {"READ_STATUS", "FPGA_GET_STATUS"} : Receives(cmd)
  /\ \E b \in InitB(fpga) : Answer(b, fpga.core # "none", Junk)
  /\ UNCHANGED <<ui, fpga, mux, flashVars, bus>>

\* Mutant: PROG_B is not pulled low.
FpgaReset_Skipped ==
  Receives("FPGA_RESET") /\ Refresh /\ UNCHANGED <<ui, fpga, mux, flashVars, bus>>

FpgaReset ==
  /\ Receives("FPGA_RESET") /\ Refresh
  /\ fpga' = Unconfigured
  /\ UNCHANGED <<ui, mux, flashVars, bus>>

FpgaWriteBitstream ==
  /\ Receives("FPGA_WRITE_BITSTREAM") /\ Refresh
  /\ fpga' = Feed(fpga, ep.packet.part)
  /\ UNCHANGED <<ui, mux, flashVars, bus>>

\* The host only ever asks for SPIMASTER_PIC24.
SetSpiMaster ==
  /\ Receives("SET_SPI_MASTER") /\ Refresh
  /\ mux' = "mcu"
  /\ UNCHANGED <<ui, fpga, flashVars, bus>>

\* Bit 7: "ready".  Anything is read when the FPGA is the master.
DataflashGetStatus ==
  /\ Receives("DATAFLASH_GET_STATUS")
  /\ \E b \in IF mux = "mcu" THEN {job = Ready} ELSE BOOLEAN : Answer(b, FALSE, Junk)
  /\ UNCHANGED <<ui, fpga, mux, flashVars, bus>>

DataflashChipErase ==
  /\ Receives("DATAFLASH_CHIP_ERASE") /\ Refresh
  /\ job' = IF Listening THEN Erasing ELSE job
  /\ UNCHANGED <<ui, fpga, mux, store, buffer, bus>>

\* The buffer can be filled while the chip erases.
DataflashFillBuffer ==
  /\ Receives("DATAFLASH_FILL_BUFFER") /\ Refresh
  /\ buffer' = IF mux = "mcu" THEN [buffer EXCEPT ![ep.packet.part] = ep.packet.data]
               ELSE buffer
  /\ UNCHANGED <<ui, fpga, mux, store, job, bus>>

\* dataflashFlushBuffer waits until the chip is ready again.
DataflashFlushBuffer ==
  /\ Receives("DATAFLASH_FLUSH_BUFFER")
  /\ job' = IF Listening THEN ep.packet.page ELSE job
  /\ ep' = Taken(ep) /\ pc' = "busy"
  /\ UNCHANGED <<ui, fpga, mux, store, buffer, bus>>

DataflashRead ==
  /\ Receives("DATAFLASH_READ")
  /\ Answer(FALSE, FALSE, IF Listening THEN store[ep.packet.page][ep.packet.part] ELSE Junk)
  /\ UNCHANGED <<ui, fpga, mux, flashVars, bus>>

\* The waits of dataflashFlushBuffer and of usbGenericFlush end.
FlushEnds ==
  /\ pc = "busy" /\ (job = Ready \/ mux = "fpga")
  /\ ep' = Arm(ep) /\ pc' = "ui"
  /\ UNCHANGED <<ui, fpga, mux, flashVars, bus>>

ReplyTaken ==
  /\ pc = "reply" /\ ep.reply = NoReply
  /\ ep' = Arm(ep) /\ pc' = "ui"
  /\ UNCHANGED <<ui, fpga, mux, flashVars, bus>>

UsbHandler ==
  \/ UsbIdle
  \/ FpgaGetStatus \/ FpgaReset \/ FpgaWriteBitstream
  \/ SetSpiMaster
  \/ DataflashGetStatus \/ DataflashChipErase
  \/ DataflashFillBuffer \/ DataflashFlushBuffer \/ DataflashRead
  \/ FlushEnds \/ ReplyTaken

-----------------------------------------------------------------------------
(* uiHandler: called after every usbHandler, because lock stays 0.         *)

InUi(state) == pc = "ui" /\ ui = state

\* The DataFlash configures the FPGA if it holds a bitstream; only the
\* service core is certain to answer with the right ID.
UiInit ==
  /\ InUi("init") /\ pc' = "main"
  /\ mux' = "mcu"
  /\ fpga' = IF job # Ready THEN Unconfigured
             ELSE IF store = Service THEN Running("service")
             ELSE IF store = File THEN Running("file") ELSE Unconfigured
  /\ \/ fpga'.core # "none" /\ ui' = "autostart"
     \/ fpga'.core # "service" /\ ui' = "loop"
  /\ UNCHANGED <<flashVars, ep, bus>>

UiAutoStart ==
  /\ InUi("autostart") /\ pc' = "main"
  /\ \/ Autostart /\ ui' = "config"
     \/ ui' = "menu"
  /\ UNCHANGED <<fpga, mux, flashVars, ep, bus>>

\* uiMainLoop: without a running core there is no keyboard to read.
UiMainLoop ==
  /\ InUi("menu") /\ pc' = "main"
  /\ \/ UNCHANGED ui
     \/ Keys /\ fpga.core # "none" /\ ui' = "config"
  /\ UNCHANGED <<fpga, mux, flashVars, ep, bus>>

\* The results of the loaders are ignored; without a section nothing is
\* configured, but the window is written to.
UiConfig ==
  /\ InUi("config") /\ pc' = "main" /\ ui' = "loop"
  /\ \/ fpga' \in {Running("card"), Unconfigured} /\ mux' \in Masters
     \/ fpga' = Disturb(fpga) /\ UNCHANGED mux
  /\ UNCHANGED <<flashVars, ep, bus>>

UiLoop ==
  /\ InUi("loop") /\ pc' = "main"
  /\ UNCHANGED <<ui, fpga, mux, flashVars, ep, bus>>

UiHandler == UiInit \/ UiAutoStart \/ UiMainLoop \/ UiConfig \/ UiLoop

Main == UsbHandler \/ UiHandler

-----------------------------------------------------------------------------
(* The bus and the power button.                                           *)

\* Enumeration takes longer than the first pass through usbHandler.
Plug ==
  /\ bus = "gone" /\ bus' = "reset"
  /\ ~(pc = "main" /\ ui = "init")
  /\ ep' = BusReset(ep)
  /\ UNCHANGED <<pc, ui, fpga, mux, flashVars>>

Unplug ==
  /\ bus # "gone" /\ bus' = "gone"
  /\ UNCHANGED <<pc, ui, fpga, mux, flashVars, ep>>

\* The timer interrupt resets the microcontroller; the chips keep their state.
PowerButton ==
  /\ pc' = "main" /\ ui' = "init" /\ mux' = "mcu"
  /\ ep' = EndpointInit(NoPacket) /\ bus' = "gone"
  /\ UNCHANGED <<fpga, flashVars>>

\* EVENT_CONFIGURED, in the USB interrupt.  A new session of the host comes
\* long after the last one: not in the moments between the end of a wait and
\* the Refresh that follows it.
Settled == ~(pc = "reply" /\ ep.reply = NoReply) /\ ~(pc = "busy" /\ job # Erasing)

SetConfiguration ==
  /\ bus # "gone" /\ Settled
  /\ bus' = "configured"
  /\ ep' = Configure(ep)
  /\ UNCHANGED <<pc, ui, fpga, mux, flashVars>>
=============================================================================
