------------------------------ MODULE UsbLink ------------------------------
(***************************************************************************)
(* The USB cable between the PC application's HIDAPI and the bootloader:   *)
(* the device stack under the bootloader's main loop, the host's control   *)
(* and interrupt transfers, and the library, with transfers given up, the  *)
(* bus reset and the plug pulled at any moment.                            *)
(***************************************************************************)
EXTENDS UsbStack, HidApi

CONSTANTS
  Requests,      \* the control requests the host makes
  Answered,      \* the commands the firmware answers with a report
  MaxFaults      \* bound: transfers given up, bus resets and unpluggings

ASSUME LinkAssumption ==
  /\ Requests \subseteq Request
  /\ Answered \subseteq Report
  /\ MaxFaults \in Nat

\* Requests without data have none, and no device is given address 0.
ASSUME RequestAssumption ==
  \A req \in Requests :
    /\ req.kind \in {"setAddress", "setConfiguration", "setHalt", "clearHalt"} => req.len = 0
    /\ req.kind = "setAddress" => req.arg # 0

VARIABLES
  dev,        \* the device, see UsbStack
  main,       \* main() of the bootloader: "main", or "tasks" past its checks
  command,    \* PacketFromPC, Nothing once it is carried out
  hc,         \* the host's control transfer
  host,       \* what the host believes: address, config, toggle, halted
  faults

busVars == <<hc, host, faults>>
vars == <<dev, main, command, busVars, hidVars>>

NoTransfer == [phase |-> "idle", req |-> NoRequest, toggle |-> 0, got |-> <<>>]

Unaddressed(retry) ==
  [address |-> 0, config |-> 0, retry |-> retry,
   toggle |-> [p \in Pipes1 |-> 0], halted |-> [p \in Pipes1 |-> FALSE]]

AnyReport == CHOOSE r \in Report : TRUE

Init ==
  /\ dev = Powered(AnyReport) /\ main = "main"
  /\ command = Nothing
  /\ hc = NoTransfer /\ host = Unaddressed(FALSE) /\ faults = 0
  /\ HidInit

-----------------------------------------------------------------------------
(* The bootloader's main loop.                                             *)

Device == UNCHANGED <<busVars, hidVars>>

\* The interrupt handler comes first.
Quiet == dev.ustat = <<>> /\ ~dev.stallIF

\* main(): the tasks only run in a configured device.
MainChecks ==
  /\ main = "main" /\ dev.state = "CONFIGURED" /\ Quiet
  /\ main' = "tasks"
  /\ UNCHANGED <<dev, command>> /\ Device

\* Mutant: it is not looked whether a packet has come.
MayTake_Anytime == ~Busy(dev, "in1", dev.inHandle)

MayTake == ~Busy(dev, "in1", dev.inHandle) /\ ~Busy(dev, "out1", dev.outHandle)

\* BOOTLOADER_IDLE
TakeCommand ==
  /\ main = "tasks" /\ Quiet /\ dev.boot = "idle"
  /\ main' = "main"
  /\ IF MayTake
       THEN /\ command' = dev.rx
            /\ dev' = [TransferOnePacket(dev, "out1") EXCEPT
                         !.outHandle = dev.cpu["out1"], !.boot = "busy", !.fresh = FALSE]
       ELSE UNCHANGED <<dev, command>>
  /\ Device

\* The command is carried out and, if it is one of those, answered.
AnswerCommand ==
  /\ main = "tasks" /\ Quiet /\ dev.boot = "busy"
  /\ main' = "main"
  /\ IF command \in Answered /\ Busy(dev, "in1", dev.inHandle)
       THEN UNCHANGED <<dev, command>>
       ELSE /\ command' = Nothing
            /\ dev' = IF command \notin Answered THEN [dev EXCEPT !.boot = "idle"]
                      ELSE [TransferOnePacket(dev, "in1") EXCEPT
                              !.tx = command, !.inHandle = dev.cpu["in1"], !.boot = "idle"]
  /\ Device

\* The interrupt handler, one pending condition at a time.
Interrupt ==
  /\ \/ dev.state = "ATTACHED" /\ dev' = [dev EXCEPT !.state = "POWERED"]
     \/ dev.stallIF /\ dev' = ServiceStall(dev)
     \/ dev.ustat # <<>> /\ dev' = ServiceTransaction(dev)
  /\ command' = IF dev'.boot = "busy" THEN command ELSE Nothing
  /\ UNCHANGED main /\ Device

StartOfFrame ==
  /\ dev.timer > 0
  /\ dev' = ServiceSof(dev)
  /\ UNCHANGED <<main, command>> /\ Device

-----------------------------------------------------------------------------
(* Control transfers, one bus transaction per action.                      *)

Firmware == UNCHANGED <<main, command>>

\* What the kernel and its drivers ask for in each state of the device.
\* Bound: what does not concern endpoint 1 is asked before it is configured,
\* and nothing while a handle is open.
Legal(req) ==
  /\ user = "closed"
  /\ IF host.retry THEN req.kind = "setAddress"
     ELSE IF host.address = 0 THEN req.kind \in {"setAddress", "device"}
     ELSE \/ req.kind = "setConfiguration"
          \/ req.kind = "report" /\ host.config = 1
          \/ /\ host.config = 0
             /\ req.kind \notin {"setAddress", "setConfiguration", "report", "setHalt", "clearHalt"}

\* Bound: a halt counts as a fault; its end does not, and comes after it.
Halting(req) ==
  /\ user = "closed" /\ host.config = 1
  /\ \/ req.kind = "clearHalt" /\ host.halted[req.pipe] /\ UNCHANGED faults
     \/ /\ req.kind = "setHalt" /\ ~host.halted[req.pipe]
        /\ faults < MaxFaults /\ faults' = faults + 1

FirstPhase(req) ==
  CASE req.len = 0 -> "statusIn"
    [] req.len > 0 /\ ToHost(req) -> "in"
    [] OTHER -> "out"

Setup(req) ==
  /\ hc.phase = "idle"
  /\ \/ Legal(req) /\ UNCHANGED faults
     \/ Halting(req)
  /\ TakesSetup(dev, host.address)
  /\ dev' = TakeSetup(dev, req)
  /\ hc' = [NoTransfer EXCEPT !.phase = FirstPhase(req), !.req = req, !.toggle = 1]
  /\ host' = IF req.kind \in {"setHalt", "clearHalt"}
               THEN [host EXCEPT !.halted[req.pipe] = TRUE] ELSE host
  /\ Firmware /\ UNCHANGED hidVars

\* The device refuses: the transfer is over.
Refused ==
  /\ \/ hc.phase \in {"in", "statusIn"} /\ Stalls(dev, host.address, "in0")
     \/ hc.phase \in {"out", "statusOut"} /\ Stalls(dev, host.address, "out0")
  /\ dev' = Stall(dev, "in0")
  /\ hc' = NoTransfer
  /\ UNCHANGED <<host, faults, hidVars>> /\ Firmware

Bytes(staged, n) == [i \in 1 .. n |-> <<staged.source, staged.pos + i>>]

DataIn ==
  /\ hc.phase = "in" /\ Moves(dev, host.address, "in0")
  /\ dev' = Completed(dev, "in0")
  /\ LET bd == Turn(dev, "in0")
         got == hc.got \o Bytes(dev.staged, bd.cnt)
     IN  hc' = IF bd.dts # hc.toggle THEN hc
               ELSE [hc EXCEPT !.toggle = 1 - @, !.got = got,
                       !.phase = IF bd.cnt < Ep0Size \/ Len(got) >= hc.req.len
                                   THEN "statusOut" ELSE "in"]
  /\ UNCHANGED <<host, faults, hidVars>> /\ Firmware

StatusOut ==
  /\ hc.phase = "statusOut" /\ Moves(dev, host.address, "out0")
  /\ dev' = IF Repeated(dev, "out0", 1) THEN dev ELSE Completed(dev, "out0")
  /\ hc' = NoTransfer
  /\ UNCHANGED <<host, faults, hidVars>> /\ Firmware

\* got counts what has been sent.
DataOut ==
  /\ hc.phase = "out" /\ Moves(dev, host.address, "out0")
  /\ LET n == Lesser(Ep0Size, hc.req.len - Len(hc.got))
     IN  /\ dev' = IF Repeated(dev, "out0", hc.toggle) THEN dev
                   ELSE [Completed(dev, "out0") EXCEPT !.bd["out0"][dev.sie["out0"]].cnt = n]
         /\ hc' = [hc EXCEPT !.toggle = 1 - @,
                     !.got = @ \o [i \in 1 .. n |-> <<"device", 0>>],
                     !.phase = IF Len(hc.got) + n = hc.req.len THEN "statusIn" ELSE "out"]
  /\ UNCHANGED <<host, faults, hidVars>> /\ Firmware

\* What the host concludes from a request that has succeeded.
Concluded(req) ==
  CASE req.kind = "setAddress" -> [host EXCEPT !.address = req.arg, !.retry = FALSE]
    [] req.kind = "setConfiguration" ->
         [Unaddressed(FALSE) EXCEPT !.address = host.address, !.config = req.arg]
    [] req.kind = "clearHalt" ->
         [host EXCEPT !.toggle[req.pipe] = 0, !.halted[req.pipe] = FALSE]
    [] OTHER -> host

StatusIn ==
  /\ hc.phase = "statusIn" /\ Moves(dev, host.address, "in0")
  /\ Turn(dev, "in0").dts = 1 /\ Turn(dev, "in0").cnt = 0
  /\ dev' = Completed(dev, "in0")
  /\ hc' = NoTransfer
  /\ host' = Concluded(hc.req)
  /\ UNCHANGED <<faults, hidVars>> /\ Firmware

\* The host gives a transfer up; an address it is not sure of it assigns
\* again, and a configuration it does not use.  Bound: not the report
\* descriptor, which comes before an open.
GivesUp ==
  /\ hc.phase # "idle" /\ hc.req.kind # "report" /\ faults < MaxFaults
  /\ faults' = faults + 1
  /\ hc' = NoTransfer
  /\ host' = CASE hc.req.kind = "setAddress" -> [host EXCEPT !.retry = TRUE]
               [] hc.req.kind = "setConfiguration" -> [host EXCEPT !.config = 0]
               [] OTHER -> host
  /\ UNCHANGED <<dev, hidVars>> /\ Firmware

-----------------------------------------------------------------------------
(* Interrupt transfers of HIDAPI.                                          *)

\* Whoever has asked for a halt does not use the endpoint until it is ended.
Usable(pipe) == attached /\ host.config = 1 /\ ~host.halted[pipe] /\ dev.enabled

ReportOut ==
  /\ user = "writing" /\ Usable("out1") /\ Moves(dev, host.address, "out1")
  /\ dev' = IF Repeated(dev, "out1", host.toggle["out1"]) THEN dev
            ELSE [Completed(dev, "out1") EXCEPT !.rx = writing, !.fresh = TRUE]
  /\ host' = [host EXCEPT !.toggle["out1"] = 1 - @]
  /\ WriteReturns
  /\ UNCHANGED <<hc, faults>> /\ Firmware

ReportIn ==
  /\ Usable("in1") /\ Moves(dev, host.address, "in1")
  /\ dev' = [Completed(dev, "in1") EXCEPT !.tx = AnyReport]
  /\ IF Turn(dev, "in1").dts = host.toggle["in1"]
       THEN /\ Arrives(dev.tx)
            /\ host' = [host EXCEPT !.toggle["in1"] = 1 - @]
       ELSE urb = "flying" /\ UNCHANGED <<hidVars, host>>
  /\ UNCHANGED <<hc, faults>> /\ Firmware

\* The timeout of hid_write, or a device that has gone.
WriteFails ==
  /\ WriteReturns
  /\ UNCHANGED <<dev, hc, host, faults>> /\ Firmware

Library ==
  /\ \/ HidSteps \/ HidCalls \/ TimesOut
     \/ \E r \in Report : Write(r)
  /\ UNCHANGED <<dev, busVars>> /\ Firmware

\* The open follows an enumeration.  Bound: the device has dealt with its
\* last request.
Opens ==
  /\ OpenPath
  /\ host.config = 1 /\ hc.phase = "idle"
  /\ dev.setup.kind = "report" /\ Quiet /\ dev.timer = 0
  /\ UNCHANGED <<dev, busVars>> /\ Firmware

-----------------------------------------------------------------------------
(* Faults.                                                                 *)

\* The first reset after the device has appeared is none.
BusReset ==
  /\ IF dev.state \in {"ATTACHED", "POWERED"} THEN UNCHANGED faults
     ELSE faults < MaxFaults /\ faults' = faults + 1
  /\ dev' = ServiceReset(dev)
  /\ hc' = NoTransfer /\ host' = Unaddressed(FALSE)
  /\ Detached
  /\ Firmware

\* The plug is pulled and put back; the board loses its power.
Replugged ==
  /\ faults < MaxFaults /\ faults' = faults + 1
  /\ dev' = Powered(AnyReport) /\ main' = "main"
  /\ command' = Nothing
  /\ hc' = NoTransfer /\ host' = Unaddressed(FALSE)
  /\ Detached

Control == Refused \/ DataIn \/ StatusOut \/ DataOut \/ StatusIn

Next ==
  \/ MainChecks \/ TakeCommand \/ AnswerCommand \/ Interrupt \/ StartOfFrame
  \/ \E req \in Requests : Setup(req)
  \/ Control \/ GivesUp
  \/ ReportOut \/ ReportIn \/ WriteFails
  \/ Library \/ Opens
  \/ BusReset \/ Replugged

Spec == Init /\ [][Next]_vars

-----------------------------------------------------------------------------
(* Properties.                                                             *)

\* Whatever has been given up, refused or interrupted before, a device with
\* no interrupt left to serve can take the next SETUP: the SIE owns the
\* descriptor it will use for it, and the firmware and the SIE agree which
\* IN descriptor is next.
SetupReady ==
  dev.state \notin {"ATTACHED", "POWERED"} /\ Quiet =>
    Turn(dev, "out0").own /\ dev.pin = dev.sie["in0"]

\* A control read that ends well has brought the host what it asked for: as
\* much as there is and was wanted, in order, nothing of another request.
ControlData ==
  [][StatusOut =>
       hc.got = [i \in 1 .. Lesser(hc.req.len, SizeOf[hc.req.kind]) |-> <<hc.req.kind, i>>]]_vars

\* Between requests the two sides agree: the device has the address and the
\* configuration the host believes it has, and a packet of endpoint 1 that is
\* ready to go has the toggle the host expects, or it would be dropped as a
\* repetition (USBCheckStdRequest, USBConfigureEndpoint, USBStdFeatureReqHandler).
Agreed ==
  hc.phase = "idle" /\ Quiet =>
    /\ ~host.retry /\ dev.state \notin {"ATTACHED", "POWERED"} =>
         /\ dev.address = host.address
         /\ host.config = 1 => dev.config = 1 /\ dev.state = "CONFIGURED" /\ dev.enabled
    /\ host.config = 1 =>
         \A p \in Pipes1 :
           ~host.halted[p] /\ Turn(dev, p).own => Turn(dev, p).dts = host.toggle[p]

\* The bootloader takes a packet once, but for two holes of its own.  It does
\* not look at EVENT_TRANSFER_TERMINATED, and takes what is in its buffer
\* again when the host has ended a halt; and a bus reset or SET_CONFIGURATION
\* between main()'s check of the state and the tasks frees the descriptor its
\* handle names.
Unheeded == dev.state # "CONFIGURED" \/ "out1" \in dev.events

CommandsFresh ==
  [][command = Nothing /\ command' # Nothing => dev.fresh \/ Unheeded]_vars

\* Once the read thread has ended nothing can arrive in the buffer hid_close
\* frees, also when the callback has submitted the transfer again after
\* hid_close found nothing to cancel; and a handle that nobody closes has no
\* callback left to make (read_thread, hid-libusb.c:521-526).
NothingArrives ==
  thread = "ended" =>
    /\ urb # "flying"
    /\ user \notin {"closing", "joining"} => urb = "idle"

\* The comment at the end of read_thread (hid-libusb.c:528-534): after the
\* pthread_join of hid_close the transfer and its buffer can be cleaned up,
\* because no callback is to come any more.  The code does not keep to it.
SafelyCleanedUp == user = "joining" /\ thread = "ended" => urb = "idle"

\* A reader that waits without having been signalled has nothing to read.
NoLostWakeup == user = "waiting" /\ ~signalled => reports = <<>>

\* A control transfer never hangs between the two sides: the next packet can
\* move or is refused, or an interrupt or the status stage's timer is due.
\* An address the host is not sure of may be the wrong one.
ControlNeverStuck ==
  hc.phase # "idle" /\ ~host.retry /\ Quiet /\ dev.timer = 0 =>
    LET pipe == IF hc.phase \in {"in", "statusIn"} THEN "in0" ELSE "out0"
    IN  \/ Stalls(dev, host.address, pipe)
        \/ Moves(dev, host.address, pipe)

\* Nor does hid_close: the thread it joins has ended, will see that it has
\* to, or waits for a result that is on its way.
CloseNeverStuck ==
  user = "joining" =>
    \/ thread = "ended"
    \/ thread = "loop" /\ shutdown
    \/ thread = "cancelled" /\ urb \in Results

-----------------------------------------------------------------------------
(* The cable implements a pipe of reports.                                 *)

Pending ==
  IF dev.enabled /\ Turn(dev, "in1").own /\ ~Turn(dev, "in1").stall THEN <<dev.tx>> ELSE <<>>

Reading == user \in {"barrier", "open", "writing", "waiting"}

Connected == Reading /\ attached

Reaped == IF urb = "COMPLETED" THEN <<arrived>> ELSE <<>>

Down == IF dev.fresh THEN dev.rx ELSE Nothing
Up   == (IF Reading THEN reports \o Reaped ELSE <<>>) \o Pending

Pipe == INSTANCE ReportPipe WITH
  Capacity <- MaxQueued + 2, connected <- Connected, down <- Down, up <- Up

\* Every step of the link is one of the pipe's: a report reaches the other
\* end once, in order and as it was sent, or is lost with the connection or
\* in a queue nobody reads.
PipeSpec == Pipe!Spec

\* While the application has the device, a report the host controller has
\* had acknowledged is there for the firmware, and one on its way up only
\* disappears when hid_read returns it or the queue is full.
NothingLost ==
  [][Connected /\ Connected' =>
       /\ ReportOut => ~dev.fresh /\ dev'.fresh
       /\ Len(Up') < Len(Up) => \/ UNCHANGED <<urb, dev>> /\ reports' = Tail(reports)
                               \/ Len(reports) > MaxQueued + 1]_vars
=============================================================================
