------------------------------ MODULE UsbStack ------------------------------
(***************************************************************************)
(* Microchip's USB device stack as the bootloader builds it                *)
(* (bootloader/usb/usb_device.c, full ping-pong, USB_INTERRUPT), with the  *)
(* serial interface engine (SIE) under it and the callbacks of main.c and  *)
(* usb_device_hid.c above it.                                              *)
(*                                                                         *)
(* A device is one record; every function of the stack is an operator from *)
(* devices to devices, so that a handler is the composition of the calls   *)
(* it makes.  A pipe is an endpoint with a direction and has two buffer    *)
(* descriptors, 0 (even) and 1 (odd), that the SIE uses in turn.           *)
(*                                                                         *)
(* state, address, config   USBDeviceState, U1ADDR, USBActiveConfiguration *)
(* bd, sie, ustat           BDT, the SIE's next descriptors, U1STAT's FIFO *)
(* pktDis, stallIF          USBPacketDisable, USBStallIF                   *)
(* setup                    SetupPkt                                       *)
(* cur, next, pin           pBDTEntryEP0OutCurrent, ..Next, pBDTEntryIn[0] *)
(* transfer, short          controlTransferState, shortPacketStatus        *)
(* flag1, flag2, both       USBStatusStageEnabledFlag1, ..2,               *)
(*                          BothEP0OutUOWNsSet                             *)
(* timer                    USBStatusStageTimeoutCounter                   *)
(* inBusy, source, pos, count    inPipes[0]: busy, pSrc, wCount            *)
(* outBusy, outCount             outPipes[0]: busy, wCount                 *)
(* staged                   what CtrlTrfData was last filled from          *)
(* enabled, cpu             U1EP1, pBDTEntryIn[1] and pBDTEntryOut[1]      *)
(* pp, terminated           ep_data_in[1] and ep_data_out[1]               *)
(* rx, tx                   the application's PacketFromPCBuffer, PacketToPC *)
(* outHandle, inHandle, boot     USBOutHandle, USBInHandle, BootState      *)
(*                                                                         *)
(* Histories: fresh, rx holds a packet the application has not taken;      *)
(* events, the pipes for which EVENT_TRANSFER_TERMINATED has been raised   *)
(* since EVENT_CONFIGURED.                                                 *)
(***************************************************************************)
EXTENDS Integers, Sequences

CONSTANTS
  Ep0Size,              \* USB_EP0_BUFF_SIZE
  SizeOf,               \* the size of what each control read returns
  StatusStageTimeout,   \* USB_STATUS_STAGE_TIMEOUT
  ReportHandler         \* the build defines USER_SET_REPORT_HANDLER

ASSUME StackAssumption ==
  /\ Ep0Size \in Nat \ {0}
  /\ StatusStageTimeout \in Nat \ {0}
  /\ ReportHandler \in BOOLEAN
  /\ DOMAIN SizeOf = {"device", "configuration", "report", "hid",
                      "getStatus", "getConfiguration", "getIdle"}
  /\ \A k \in DOMAIN SizeOf : SizeOf[k] \in Nat

Reads  == DOMAIN SizeOf
Writes == {"setAddress", "setConfiguration", "setHalt", "clearHalt", "setIdle", "setReport"}

\* arg is the low byte of wValue, or the pipe of an endpoint request.
Pipes1 == {"out1", "in1"}
Pipes  == Pipes1 \cup {"out0", "in0"}
Request == [kind : Reads \cup Writes \cup {"other"}, arg : 0 .. 2, pipe : Pipes1, len : Nat]

NoRequest == [kind |-> "other", arg |-> 0, pipe |-> "in1", len |-> 0]

ToHost(req) == req.kind \in Reads

Null == 2     \* a null pointer to a buffer descriptor

NoBd == [own |-> FALSE, stall |-> FALSE, dts |-> 0, check |-> FALSE,
         setup |-> FALSE, cnt |-> 0]

Lesser(a, b) == IF a < b THEN a ELSE b

\* A descriptor handed to the SIE: BSTALL, DTS and DTSEN, and UOWN.
Given(b, stall, dts, check) ==
  [b EXCEPT !.own = TRUE, !.stall = stall, !.dts = dts, !.check = check]

\* A descriptor the firmware has again: DTS is all that is read before the
\* rest is written.
Back(b) == [NoBd EXCEPT !.dts = b.dts]

\* Ready for a SETUP and nothing else.
ForSetup(b) == Given(b, TRUE, 0, TRUE)

-----------------------------------------------------------------------------
(* The device.                                                             *)

FifoSize == 4    \* of U1STAT

-----------------------------------------------------------------------------
(* Control transfers on endpoint 0.                                        *)

\* USBCtrlTrfTxService: the next packet of a control read.
TxService(d) ==
  LET n == Lesser(d.count, Ep0Size)
  IN  [d EXCEPT
         !.short = IF d.count >= Ep0Size THEN @
                   ELSE IF @ = "notUsed" THEN "pending" ELSE "sent",
         !.count = @ - n,
         !.staged = [source |-> d.source, pos |-> d.pos],
         !.pos = @ + n,
         !.bd["in0"][d.pin].cnt = n]

\* Mutant: wLength is not looked at.
AllowDataStage_Whole(d) ==
  IF d.transfer = "RX"
    THEN [d EXCEPT !.bd["out0"][d.next] = Given(@, FALSE, 1, TRUE)]
    ELSE LET t == TxService(d)
         IN  [t EXCEPT !.bd["in0"][t.pin] = Given(@, FALSE, 1, TRUE)]

AllowDataStage(d) ==
  IF d.transfer = "RX"
    THEN [d EXCEPT !.bd["out0"][d.next] = Given(@, FALSE, 1, TRUE)]
    ELSE LET t == TxService([d EXCEPT !.count = Lesser(@, d.setup.len)])
         IN  [t EXCEPT !.bd["in0"][t.pin] = Given(@, FALSE, 1, TRUE)]

AllowStatusStage(d) ==
  IF d.flag1 THEN d
  ELSE LET e == [d EXCEPT !.flag1 = TRUE, !.flag2 = TRUE]
       IN  CASE d.flag2 -> e
             [] ~d.flag2 /\ d.transfer = "RX" ->
                  [e EXCEPT !.bd["in0"][d.pin] = [Given(@, FALSE, 1, TRUE) EXCEPT !.cnt = 0]]
             [] ~d.flag2 /\ d.transfer = "TX" ->
                  [e EXCEPT !.both = TRUE,
                            !.bd["out0"][d.cur]  = Given(@, TRUE, 0, FALSE),
                            !.bd["out0"][d.next] = Given(@, FALSE, 0, FALSE)]
             [] OTHER -> e

\* The request is refused, and the next SETUP awaited.
Refuse(d) ==
  [d EXCEPT !.bd["out0"][d.next] = ForSetup(@),
            !.bd["in0"][d.pin] = Given(@, TRUE, 0, FALSE)]

\* Mutant: packets stay disabled after a SETUP.
PacketsOn_Not(d) == d

PacketsOn(d) == [d EXCEPT !.pktDis = FALSE]

ServiceComplete(c) ==
  LET d == PacketsOn(c)
      Open(e) == [e EXCEPT !.flag1 = FALSE, !.flag2 = FALSE]
  IN  CASE ~d.inBusy /\ d.outBusy -> Open(AllowDataStage([d EXCEPT !.transfer = "RX"]))
        [] ~d.inBusy /\ ~d.outBusy -> Refuse(d)
        [] d.inBusy /\ ToHost(d.setup) ->
             AllowStatusStage(Open(AllowDataStage([d EXCEPT !.transfer = "TX"])))
        [] d.inBusy /\ ~ToHost(d.setup) ->
             AllowStatusStage(Open([d EXCEPT
               !.transfer = "RX",
               !.bd["out0"][d.next] = Given(@, TRUE, 0, FALSE)]))

Send(d, source) ==
  [d EXCEPT !.inBusy = TRUE, !.source = source, !.pos = 0, !.count = SizeOf[source]]

Acknowledge(d) == [d EXCEPT !.inBusy = TRUE]

-----------------------------------------------------------------------------
(* Endpoint 1.                                                             *)

Advance(b) == 1 - b

\* USBTransferOnePacket, also USBTxOnePacket and USBRxOnePacket; the result
\* is the pointer the caller keeps as its handle.
TransferOnePacket(d, pipe) ==
  LET b == d.cpu[pipe]
  IN  IF b = Null THEN d
      ELSE [d EXCEPT !.bd[pipe][b] = Given(@, FALSE, d.bd[pipe][b].dts, TRUE),
                     !.cpu[pipe] = Advance(b)]

\* USBHandleBusy
Busy(d, pipe, handle) == handle # Null /\ d.bd[pipe][handle].own

ConfigureEndpoint(d, pipe) ==
  [d EXCEPT !.bd[pipe][0].own = FALSE, !.bd[pipe][0].dts = 0,
            !.bd[pipe][1].dts = 1, !.cpu[pipe] = 0]

EnableEndpoint(d) ==
  [ConfigureEndpoint(ConfigureEndpoint(d, "out1"), "in1") EXCEPT !.enabled = TRUE]

\* Mutant: both descriptors are armed, for one buffer.
AppInitialize_Twice(d) ==
  LET e == EnableEndpoint([d EXCEPT !.inHandle = Null, !.boot = "idle",
                                    !.fresh = FALSE, !.events = {}])
      f == [TransferOnePacket(e, "out1") EXCEPT !.outHandle = e.cpu["out1"]]
  IN  TransferOnePacket(f, "out1")

\* EVENT_CONFIGURED: APP_HIDBootLoaderInitialize.
AppInitialize(d) ==
  LET e == EnableEndpoint([d EXCEPT !.inHandle = Null, !.boot = "idle",
                                    !.fresh = FALSE, !.events = {}])
  IN  [TransferOnePacket(e, "out1") EXCEPT !.outHandle = e.cpu["out1"]]

NoEpData(d) ==
  [d EXCEPT !.pp = [p \in Pipes1 |-> 0], !.terminated = [p \in Pipes1 |-> FALSE]]

\* Mutant: the SIE's turns are not reset.
PingPongReset_Not(d) == d

\* USBPingPongBufferReset
PingPongReset(d) == [d EXCEPT !.sie = [p \in Pipes |-> 0]]

ClearBdt(d) == [d EXCEPT !.bd = [p \in Pipes |-> [b \in 0 .. 1 |-> NoBd]]]

SetConfiguration(d) ==
  LET e == [PingPongReset(NoEpData(ClearBdt(d))) EXCEPT
              !.inBusy = TRUE, !.enabled = FALSE,
              !.pin = 0, !.cur = 0, !.next = 0, !.config = d.setup.arg]
  IN  IF e.config = 0
        THEN [e EXCEPT !.state = "ADDRESS"]
        ELSE [AppInitialize(e) EXCEPT !.state = "CONFIGURED"]

SetHalt(d, pipe) ==
  LET b == d.pp[pipe]
  IN  [d EXCEPT !.cpu[pipe] = b,
                !.terminated[pipe] = @ \/ d.bd[pipe][b].own,
                !.bd[pipe][b] = Given(@, TRUE, d.bd[pipe][b].dts, d.bd[pipe][b].check)]

\* Mutant: the data toggle of the next packet is not reset.
ClearHalt_KeepsToggle(d, pipe) ==
  LET b == d.pp[pipe]
      o == Advance(b)
  IN  [d EXCEPT !.cpu[pipe] = b,
                !.terminated[pipe] = FALSE,
                !.events = IF \/ d.terminated[pipe]
                              \/ \E x \in 0 .. 1 : d.bd[pipe][x].own
                             THEN @ \cup {pipe} ELSE @,
                !.bd[pipe][o].own = FALSE,
                !.bd[pipe][b] = [@ EXCEPT !.own = FALSE, !.stall = FALSE]]

ClearHalt(d, pipe) ==
  LET b == d.pp[pipe]
      o == Advance(b)
  IN  [d EXCEPT !.cpu[pipe] = b,
                !.terminated[pipe] = FALSE,
                !.events = IF \/ d.terminated[pipe]
                              \/ \E x \in 0 .. 1 : d.bd[pipe][x].own
                             THEN @ \cup {pipe} ELSE @,
                !.bd[pipe][o] = [@ EXCEPT !.own = FALSE, !.dts = 1],
                !.bd[pipe][b] = [@ EXCEPT !.own = FALSE, !.dts = 0, !.stall = FALSE]]

\* USBStdFeatureReqHandler for USB_FEATURE_ENDPOINT_HALT.
FeatureRequest(d) ==
  IF d.state # "CONFIGURED" THEN d
  ELSE Acknowledge(IF d.setup.kind = "setHalt" THEN SetHalt(d, d.setup.pipe)
                                               ELSE ClearHalt(d, d.setup.pipe))

-----------------------------------------------------------------------------
(* Requests.                                                               *)

\* USBCheckStdRequest
CheckStdRequest(d) ==
  CASE d.setup.kind \in {"device", "configuration", "getConfiguration", "getStatus"} ->
         Send(d, d.setup.kind)
    [] d.setup.kind = "setAddress" -> [Acknowledge(d) EXCEPT !.state = "ADR_PENDING"]
    [] d.setup.kind = "setConfiguration" -> SetConfiguration(d)
    [] d.setup.kind \in {"setHalt", "clearHalt"} -> FeatureRequest(d)
    [] OTHER -> d

\* USBCheckHIDRequest, called for EVENT_EP0_REQUEST.  A handler of SET_REPORT
\* asks for the report with USBEP0Receive.
CheckHIDRequest(d) ==
  CASE d.setup.kind \in {"report", "getIdle"} -> Send(d, d.setup.kind)
    [] d.setup.kind = "hid" /\ d.config = 1 -> Send(d, "hid")
    [] d.setup.kind = "setIdle" -> Acknowledge(d)
    [] d.setup.kind = "setReport" /\ ReportHandler ->
         [d EXCEPT !.outBusy = TRUE, !.outCount = d.setup.len]
    [] OTHER -> d

\* What an earlier transfer has left to the SIE is taken back.
Cancelled(d) ==
  [d EXCEPT !.bd["in0"] = [b \in 0 .. 1 |-> Back(@[b])],
            !.bd["out0"][d.next] = Back(@)]

SetupHandler(d) ==
  ServiceComplete(CheckHIDRequest(CheckStdRequest(
    [Cancelled(d) EXCEPT
       !.short = "notUsed", !.both = FALSE, !.transfer = "WAIT_SETUP",
       !.inBusy = FALSE, !.count = 0, !.outBusy = FALSE, !.outCount = 0])))

-----------------------------------------------------------------------------
(* The other two transactions of endpoint 0.                               *)

RxService(d) ==
  LET n == Lesser(d.bd["out0"][d.cur].cnt, d.outCount)
      e == [d EXCEPT !.outCount = @ - n]
  IN  IF e.outCount > 0
        THEN [e EXCEPT !.bd["out0"][d.next] =
                Given(@, FALSE, 1 - d.bd["out0"][d.cur].dts, TRUE)]
        ELSE AllowStatusStage([e EXCEPT !.outBusy = FALSE,
               !.bd["out0"][d.next] = Given(@, TRUE, 0, FALSE)])

OutHandler(d) ==
  IF d.transfer = "RX" THEN RxService(d)
  ELSE [d EXCEPT !.transfer = "WAIT_SETUP", !.both = FALSE,
                 !.bd["out0"][d.next] = IF d.both THEN @ ELSE ForSetup(@)]

AddressTaken(d) ==
  IF d.state # "ADR_PENDING" THEN d
  ELSE [d EXCEPT !.address = d.setup.arg,
                 !.state = IF d.setup.arg = 0 THEN "DEFAULT" ELSE "ADDRESS"]

InHandler(d) ==
  LET last == d.bd["in0"][d.pin].dts
      e == AddressTaken([d EXCEPT !.pin = Advance(@)])
      t == TxService(e)
  IN  IF e.transfer = "TX"
        THEN [t EXCEPT !.bd["in0"][t.pin] =
                IF t.short = "sent" THEN Given(@, TRUE, 0, FALSE)
                                    ELSE Given(@, FALSE, 1 - last, TRUE)]
        ELSE [e EXCEPT !.outBusy = FALSE, !.transfer = "WAIT_SETUP"]

CtrlEPService(c, pipe, b) ==
  LET d == [c EXCEPT !.timer = StatusStageTimeout]
      e == [d EXCEPT !.cur = b, !.next = Advance(b)]
  IN  CASE pipe = "in0" -> InHandler(d)
        [] pipe = "out0" /\ d.bd["out0"][b].setup -> SetupHandler(e)
        [] pipe = "out0" /\ ~d.bd["out0"][b].setup -> OutHandler(e)

-----------------------------------------------------------------------------
(* USBDeviceTasks, the interrupt handler.                                  *)

\* Only a transaction still in the FIFO makes it clear the pipes.
Flushed(d) ==
  IF d.ustat = <<>> THEN d
  ELSE [d EXCEPT !.ustat = <<>>, !.inBusy = FALSE, !.outBusy = FALSE, !.outCount = 0]

DeviceInit(d) ==
  [PingPongReset(NoEpData(ClearBdt(Flushed(d)))) EXCEPT
     !.bd["out0"][0] = Given(@, TRUE, 0, FALSE),
     !.address = 0, !.config = 0, !.enabled = FALSE,
     !.cpu = [p \in Pipes1 |-> Null], !.pin = 0,
     !.flag1 = TRUE, !.flag2 = TRUE, !.pktDis = FALSE, !.stallIF = FALSE]

\* Task B: a bus reset.
ServiceReset(d) == [DeviceInit(d) EXCEPT !.state = "DEFAULT", !.fresh = FALSE]

\* Task C: the millisecond of a start of frame.
ServiceSof(d) ==
  LET e == [d EXCEPT !.timer = IF @ = 0 THEN 0 ELSE @ - 1]
  IN  IF e.timer = 0 THEN AllowStatusStage(e) ELSE e

ServiceStall(d) ==
  LET mixed == /\ d.bd["out0"][d.cur] = Given(d.bd["out0"][d.cur], FALSE, 0, FALSE)
               /\ d.bd["in0"][d.pin] = Given(d.bd["in0"][d.pin], TRUE, 0, FALSE)
  IN  [d EXCEPT !.stallIF = FALSE,
                !.bd["out0"][d.cur] = IF mixed THEN ForSetup(@) ELSE @]

\* Task D: the oldest entry of the U1STAT FIFO.
ServiceTransaction(c) ==
  LET t == Head(c.ustat)
      d == [c EXCEPT !.ustat = Tail(@)]
  IN  IF t.pipe \in Pipes1
        THEN [d EXCEPT !.pp[t.pipe] = Advance(@)]
        ELSE CtrlEPService(d, t.pipe, t.b)

\* Power is applied: main() calls USBDeviceInit and USBDeviceAttach.
Powered(r) ==
  DeviceInit(
    [state |-> "ATTACHED", address |-> 0, config |-> 0,
     bd |-> [p \in Pipes |-> [b \in 0 .. 1 |-> NoBd]], sie |-> [p \in Pipes |-> 0],
     ustat |-> <<>>, pktDis |-> FALSE, stallIF |-> FALSE, setup |-> NoRequest,
     cur |-> 0, next |-> 0, pin |-> 0, transfer |-> "WAIT_SETUP", short |-> "notUsed",
     flag1 |-> TRUE, flag2 |-> TRUE, both |-> FALSE, timer |-> 0,
     inBusy |-> FALSE, source |-> "device", pos |-> 0, count |-> 0,
     outBusy |-> FALSE, outCount |-> 0, staged |-> [source |-> "device", pos |-> 0],
     enabled |-> FALSE, cpu |-> [p \in Pipes1 |-> Null],
     pp |-> [p \in Pipes1 |-> 0], terminated |-> [p \in Pipes1 |-> FALSE],
     rx |-> r, tx |-> r, outHandle |-> Null, inHandle |-> Null, boot |-> "idle",
     fresh |-> FALSE, events |-> {}])

-----------------------------------------------------------------------------
(* The serial interface engine: one transaction the host starts.           *)

Listens(d, addr) ==
  /\ d.state \notin {"ATTACHED", "POWERED"}
  /\ d.address = addr /\ ~d.pktDis /\ Len(d.ustat) < FifoSize

Turn(d, pipe) == d.bd[pipe][d.sie[pipe]]

Completed(d, pipe) ==
  [d EXCEPT !.bd[pipe][d.sie[pipe]] = Back(@),
            !.sie[pipe] = Advance(@),
            !.ustat = Append(@, [pipe |-> pipe, b |-> d.sie[pipe]])]

\* A SETUP is taken by any descriptor the SIE owns; packets stop until
\* the firmware has seen it.
TakesSetup(d, addr) == Listens(d, addr) /\ Turn(d, "out0").own

TakeSetup(d, req) ==
  [Completed(d, "out0") EXCEPT !.bd["out0"][d.sie["out0"]].setup = TRUE,
                               !.setup = req, !.pktDis = TRUE]

Stalls(d, addr, pipe) == Listens(d, addr) /\ Turn(d, pipe).own /\ Turn(d, pipe).stall

Stall(d, pipe) == IF pipe \in Pipes1 THEN d ELSE [d EXCEPT !.stallIF = TRUE]

Moves(d, addr, pipe) == Listens(d, addr) /\ Turn(d, pipe).own /\ ~Turn(d, pipe).stall

\* An OUT packet with the wrong toggle is acknowledged and dropped.
Repeated(d, pipe, toggle) == Turn(d, pipe).check /\ Turn(d, pipe).dts # toggle

=============================================================================
