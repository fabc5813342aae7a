----------------------------- MODULE LinkProofs -----------------------------
(***************************************************************************)
(* The theorems about the link.  The library's two threads are safe        *)
(* whatever the device, the bus and the application do: every step of the  *)
(* link leaves HIDAPI alone or is one of its actions, and those preserve   *)
(* LibraryInv.  Likewise every step leaves the device alone or runs one    *)
(* function of its stack, and those preserve DevInv, as UsbStackProofs     *)
(* shows; from it follow that a SETUP can be taken and that commands are   *)
(* fresh.  An invariant of both ends of the cable (Sides) then gives that  *)
(* they agree and never wait for each other, that the cable implements     *)
(* ReportPipe, and that a control read brings what was asked for.          *)
(***************************************************************************)
EXTENDS UsbLink, UsbStackProofs

\* The actions of HIDAPI the steps of the link are made of.
LibraryNext ==
  \/ OpenPath \/ ThreadStarts \/ SetNonblocking \/ Reap \/ LoopEnds
  \/ (\E r \in Report : Write(r)) \/ WriteReturns
  \/ Read \/ ReadWaits \/ ReadWakes
  \/ Close \/ CloseCancels \/ CloseJoins
  \/ (\E r : Arrives(r)) \/ TimesOut \/ Detached

Running == {"loop", "cancelled", "ended"}

\* Where the two threads can be together.
Together ==
  \/ user = "closed" /\ thread = "none" /\ urb = "none"
  \/ user = "barrier" /\ thread = "starting" /\ urb = "idle" /\ ~shutdown
  \/ user \in {"open", "writing", "waiting"} /\ thread \in {"loop", "ended"}
  \/ user \in {"closing", "joining"} /\ thread \in Running /\ shutdown

\* A handle nobody closes only shuts down when its device has gone, and
\* then the transfer is not submitted again.
ShutDownIdle == user \in {"open", "writing", "waiting"} /\ shutdown => urb = "idle"

\* What the read thread still waits for is on its way.  When it has ended
\* the kernel has nothing of it; only hid_close can have left a result that
\* no callback was told of.
ThreadInv ==
  /\ urb \in {"none", "idle", "flying"} \cup Results
  /\ thread # "none" => urb # "none"
  /\ thread = "cancelled" => urb = "CANCELLED"
  /\ thread = "ended" =>
       /\ shutdown /\ urb # "flying"
       /\ user \notin {"closing", "joining"} => urb = "idle"

LibraryInv == Together /\ ShutDownIdle /\ ThreadInv /\ NoLostWakeup

-----------------------------------------------------------------------------

\* Every step of the link is one of HIDAPI's or leaves its variables alone.
LEMMA LinkStep == [Next]_vars => [LibraryNext]_hidVars
<1> SUFFICES ASSUME [Next]_vars PROVE [LibraryNext]_hidVars
  OBVIOUS
<1>1. CASE UNCHANGED vars
  BY <1>1 DEF vars, hidVars
<1>2. CASE MainChecks \/ TakeCommand \/ AnswerCommand \/ Interrupt \/ StartOfFrame
  BY <1>2 DEF MainChecks, TakeCommand, AnswerCommand, Interrupt, StartOfFrame, Device
<1>3. CASE \E req \in Requests : Setup(req)
  BY <1>3 DEF Setup
<1>4. CASE Control \/ GivesUp
  BY <1>4 DEF Control, Refused, DataIn, StatusOut, DataOut, StatusIn, GivesUp
<1>5. CASE ReportOut \/ WriteFails
  BY <1>5 DEF ReportOut, WriteFails, LibraryNext
<1>6. CASE ReportIn
  BY <1>6 DEF ReportIn, LibraryNext
<1>7. CASE Library
  BY <1>7 DEF Library, HidSteps, HidCalls, LibraryNext
<1>8. CASE Opens
  BY <1>8 DEF Opens, LibraryNext
<1>9. CASE BusReset \/ Replugged
  BY <1>9 DEF BusReset, Replugged, LibraryNext
<1> QED
  BY <1>1, <1>2, <1>3, <1>4, <1>5, <1>6, <1>7, <1>8, <1>9 DEF Next

\* Opening, the calls on an open handle, and what the kernel does.
LEMMA CallsPreserve ==
  ASSUME LibraryInv,
         \/ OpenPath \/ ThreadStarts \/ SetNonblocking
         \/ (\E r \in Report : Write(r)) \/ WriteReturns
         \/ Read \/ ReadWaits \/ ReadWakes
         \/ (\E r : Arrives(r)) \/ TimesOut \/ Detached
  PROVE  LibraryInv'
<1> USE DEF LibraryInv, Together, ShutDownIdle, ThreadInv, NoLostWakeup, Running, Results
<1>1. CASE OpenPath
  BY <1>1 DEF OpenPath
<1>2. CASE ThreadStarts
  BY <1>2 DEF ThreadStarts, Submitted
<1>3. CASE SetNonblocking
  BY <1>3 DEF SetNonblocking
<1>4. CASE (\E r \in Report : Write(r)) \/ WriteReturns
  BY <1>4 DEF Write, WriteReturns
<1>5. CASE Read \/ ReadWaits \/ ReadWakes
  BY <1>5 DEF Read, ReadWaits, ReadWakes, ReturnData
<1>6. CASE (\E r : Arrives(r)) \/ TimesOut \/ Detached
  BY <1>6 DEF Arrives, TimesOut, Detached
<1> QED
  BY <1>1, <1>2, <1>3, <1>4, <1>5, <1>6

\* Somebody handles an event of the transfer.
LEMMA ReapPreserves ==
  ASSUME LibraryInv, Reap
  PROVE  LibraryInv'
<1> USE DEF LibraryInv, Together, ShutDownIdle, ThreadInv, NoLostWakeup, Running, Results, Reap
<1>1. CASE urb = "COMPLETED"
  <2>1. thread # "cancelled" /\ thread' = thread /\ user' = user /\ shutdown' = shutdown
    BY <1>1 DEF Callback
  <2>2. urb' \in {"flying", "idle"} /\ (urb' = "flying" => ~(thread = "ended"))
    BY <1>1 DEF Callback, Submitted
  <2>3. NoLostWakeup'
    BY <1>1, <2>1 DEF Callback, Signals
  <2>4. Together' /\ ThreadInv'
    BY <1>1, <2>1, <2>2
  <2>5. ShutDownIdle'
    BY <1>1, <2>1
  <2> QED
    BY <2>3, <2>4, <2>5
<1>2. CASE urb = "TIMED_OUT"
  BY <1>2 DEF Callback, Submitted
<1>3. CASE urb \in {"NO_DEVICE", "CANCELLED"}
  BY <1>3 DEF Callback
<1> QED
  BY <1>1, <1>2, <1>3 DEF Callback

\* The read thread sees the flag, and hid_close.
LEMMA ClosePreserves ==
  ASSUME LibraryInv, LoopEnds \/ Close \/ CloseCancels \/ CloseJoins
  PROVE  LibraryInv'
<1> USE DEF LibraryInv, Together, ShutDownIdle, ThreadInv, NoLostWakeup, Running, Results
<1>1. CASE LoopEnds
  BY <1>1 DEF LoopEnds, AfterCancel, Cancellable, CancelTransfer
<1>2. CASE Close
  BY <1>2 DEF Close
<1>3. CASE CloseCancels
  BY <1>3 DEF CloseCancels, Cancellable, CancelTransfer
<1>4. CASE CloseJoins
  BY <1>4 DEF CloseJoins
<1> QED
  BY <1>1, <1>2, <1>3, <1>4

\* LibraryInv holds in every state of the link.
THEOREM LibraryInvariant == Spec => []LibraryInv
<1>1. Init => LibraryInv
  BY DEF Init, HidInit, LibraryInv, Together, ShutDownIdle, ThreadInv, NoLostWakeup
<1>2. LibraryInv /\ UNCHANGED hidVars => LibraryInv'
  BY DEF hidVars, LibraryInv, Together, ShutDownIdle, ThreadInv, NoLostWakeup
<1>3. LibraryInv /\ [Next]_vars => LibraryInv'
  BY <1>2, LinkStep, CallsPreserve, ReapPreserves, ClosePreserves DEF LibraryNext
<1> QED
  BY <1>1, <1>3, PTL DEF Spec

\* hid-libusb.c:478-526: the read thread never ends with a transfer the
\* kernel could still write into, and leaves a result behind only for a
\* handle that is being closed.
THEOREM NoReportArrives == Spec => []NothingArrives
<1>1. LibraryInv => NothingArrives
  BY DEF LibraryInv, ThreadInv, NothingArrives
<1> QED
  BY <1>1, LibraryInvariant, PTL

\* hid-libusb.c:416-475, 728-772: no wakeup of a waiting reader is lost.
THEOREM WakeupsKept == Spec => []NoLostWakeup
<1>1. LibraryInv => NoLostWakeup
  BY DEF LibraryInv
<1> QED
  BY <1>1, LibraryInvariant, PTL

\* hid-libusb.c:853-886: hid_close is never stuck in its join.
THEOREM CloseFree == Spec => []CloseNeverStuck
<1>1. LibraryInv => CloseNeverStuck
  BY DEF LibraryInv, Together, ThreadInv, CloseNeverStuck, Running
<1> QED
  BY <1>1, LibraryInvariant, PTL

-----------------------------------------------------------------------------
(* The device: UsbStackProofs' invariant, through the steps of the link.   *)

\* A board with its power just applied.
LEMMA DevInit == Init => DevInv(dev)
<1>. SUFFICES ASSUME Init PROVE DevInv(dev)
  OBVIOUS
<1>1. dev = Powered(AnyReport)
  BY DEF Init
<1>. HIDE DEF Init
<1>. QED BY <1>1, PoweredEffect, FreshDevice

\* The firmware's steps keep the device's invariant.
LEMMA DevFirmware ==
  ASSUME DevInv(dev), MainChecks \/ TakeCommand \/ AnswerCommand \/ Interrupt \/ StartOfFrame
  PROVE  DevInv(dev')
<1>1. CASE MainChecks
  BY <1>1 DEF MainChecks
<1>2. CASE TakeCommand
  <2>1. CASE MayTake
    <3>1. dev' = [TransferOnePacket(dev, "out1") EXCEPT
                    !.outHandle = dev.cpu["out1"], !.boot = "busy", !.fresh = FALSE]
      BY <1>2, <2>1 DEF TakeCommand
    <3>. QED BY <3>1, TakePreserves
  <2>2. CASE ~MayTake
    BY <1>2, <2>2 DEF TakeCommand
  <2>. QED BY <2>1, <2>2
<1>3. CASE AnswerCommand
  <2>1. CASE dev' = dev
    BY <2>1
  <2>2. CASE dev' = [dev EXCEPT !.boot = "idle"]
    <3>1. IsDev(dev') /\ Kept(dev, dev', {"state", "stallIF", "tx", "boot"}) /\ dev'.state = dev.state
      <4>1. DOMAIN dev = Fields
        BY DEF DevInv, Ep0Inv, Sane, IsDev
      <4>. QED BY <2>2, <4>1 DEF IsDev, Kept, Fields
    <3>. QED BY <3>1, UntypedPreserves
  <2>3. CASE dev' = [TransferOnePacket(dev, "in1") EXCEPT
                       !.tx = command, !.inHandle = dev.cpu["in1"], !.boot = "idle"]
    BY <2>3, AnswerPreserves
  <2>. QED BY <1>3, <2>1, <2>2, <2>3 DEF AnswerCommand
<1>4. CASE Interrupt
  <2>1. CASE dev.state = "ATTACHED" /\ dev' = [dev EXCEPT !.state = "POWERED"]
    <3>1. IsDev(dev') /\ Kept(dev, dev', {"state", "stallIF", "tx", "boot"}) /\ dev'.state # "CONFIGURED"
      <4>1. DOMAIN dev = Fields
        BY DEF DevInv, Ep0Inv, Sane, IsDev
      <4>. QED BY <2>1, <4>1 DEF IsDev, Kept, Fields
    <3>. QED BY <3>1, UntypedPreserves
  <2>2. CASE dev.stallIF /\ dev' = ServiceStall(dev)
    <3>1. Ep0Inv(dev')
      BY <2>2, StallPreserves DEF DevInv
    <3>2. Ep1Still(dev, dev')
      <4>1. /\ Kept(dev, dev', {"stallIF", "bd"})
            /\ \A q \in Pipes \ {"out0"} : dev'.bd[q] = dev.bd[q]
        BY <2>2, StallEffect DEF DevInv, Ep0Inv
      <4>. QED BY <4>1, Ep1Pipes, Ep0Pipes DEF Kept, Fields, Ep1Still
    <3>. QED BY <3>1, <3>2, Ep1StillPreserves DEF DevInv
  <2>3. CASE dev.ustat # <<>> /\ dev' = ServiceTransaction(dev)
    BY <2>3, ServicePreserves
  <2>. QED BY <1>4, <2>1, <2>2, <2>3 DEF Interrupt
<1>5. CASE StartOfFrame
  <2>1. dev.timer > 0 /\ dev' = ServiceSof(dev)
    BY <1>5 DEF StartOfFrame
  <2>2. Ep0Inv(dev')
    BY <2>1, SofPreserves DEF DevInv
  <2>3. Ep1Still(dev, dev')
    <3>1. Sane(dev) /\ Stage0(dev)
      BY DEF DevInv, Ep0Inv, Stage
    <3>2. Kept(dev, dev', SofFields) /\ \A q \in Pipes \ {"in0"} : dev'.bd[q] = dev.bd[q]
      BY <2>1, <3>1, SofEffect
    <3>. QED BY <3>2, Ep1Pipes, Ep0Pipes DEF Kept, Fields, SofFields, Ep1Still
  <2>. QED BY <2>2, <2>3, Ep1StillPreserves DEF DevInv
<1>. QED BY <1>1, <1>2, <1>3, <1>4, <1>5

\* The host's control transfers do.
LEMMA DevControl ==
  ASSUME DevInv(dev), (\E req \in Requests : Setup(req)) \/ Control \/ GivesUp
  PROVE  DevInv(dev')
<1>1. ASSUME NEW req \in Requests, Setup(req) PROVE DevInv(dev')
  <2>1. ~dev.pktDis /\ dev.bd["out0"][dev.sie["out0"]].own /\ dev' = TakeSetup(dev, req)
    BY <1>1 DEF Setup, TakesSetup, Listens, Turn
  <2>2. req \in Request
    BY <1>1, LinkAssumption
  <2>3. Ep0Inv(dev')
    BY <2>1, <2>2, TakeSetupPreserves DEF DevInv
  <2>4. Ep1Still(dev, dev')
    <3>1. /\ Kept(dev, dev', {"bd", "sie", "ustat", "setup", "pktDis"})
          /\ CompletedDone(dev, dev', "out0")
      BY <2>1, <2>2, TakeSetupEffect DEF DevInv, Ep0Inv
    <3>. QED BY <3>1, Ep1Pipes, Ep0Pipes DEF Kept, Fields, CompletedDone, Ep1Still
  <2>. QED BY <2>3, <2>4, Ep1StillPreserves DEF DevInv
<1>2. CASE Refused
  <2>1. dev' = [dev EXCEPT !.stallIF = TRUE]
    BY <1>2, Ep1Pipes DEF Refused, Stall
  <2>2. IsDev(dev') /\ Kept(dev, dev', {"state", "stallIF", "tx", "boot"}) /\ dev'.state = dev.state
    <3>1. DOMAIN dev = Fields
      BY DEF DevInv, Ep0Inv, Sane, IsDev
    <3>. QED BY <2>1, <3>1 DEF IsDev, Kept, Fields
  <2>. QED BY <2>2, UntypedPreserves
<1>3. CASE DataIn \/ StatusIn
  <2>1. Free(dev, "in0") /\ dev' = Completed(dev, "in0")
    BY <1>3 DEF DataIn, StatusIn, Moves, Listens, Turn, Free
  <2>. QED BY <2>1, CompletedPreserves, Ep0Pipes
<1>4. CASE StatusOut
  <2>1. Free(dev, "out0") /\ dev' \in {dev, Completed(dev, "out0")}
    BY <1>4 DEF StatusOut, Moves, Listens, Turn, Free
  <2>. QED BY <2>1, CompletedPreserves, Ep0Pipes
<1>5. CASE DataOut
  <2>. DEFINE n == Lesser(Ep0Size, hc.req.len - Len(hc.got))
  <2>1. Free(dev, "out0")
    BY <1>5 DEF DataOut, Moves, Listens, Turn, Free
  <2>2. dev' = dev \/ dev' = [Completed(dev, "out0") EXCEPT !.bd["out0"][dev.sie["out0"]].cnt = n]
    BY <1>5 DEF DataOut
  <2>. HIDE DEF n
  <2>. QED BY <2>1, <2>2, DataOutPreserves
<1>6. CASE GivesUp
  BY <1>6 DEF GivesUp
<1>. QED BY <1>1, <1>2, <1>3, <1>4, <1>5, <1>6 DEF Control

\* Reports, the library and the faults do.
LEMMA DevReports ==
  ASSUME DevInv(dev),
         ReportOut \/ ReportIn \/ WriteFails \/ Library \/ Opens \/ BusReset \/ Replugged \/ UNCHANGED vars
  PROVE  DevInv(dev')
<1>1. CASE ReportOut
  <2>1. Free(dev, "out1")
    BY <1>1 DEF ReportOut, Moves, Listens, Turn, Free
  <2>2. dev' = dev \/ dev' = [Completed(dev, "out1") EXCEPT !.rx = writing, !.fresh = TRUE]
    BY <1>1 DEF ReportOut
  <2>3. DevInv([Completed(dev, "out1") EXCEPT !.rx = writing, !.fresh = TRUE])
    BY <2>1, ReportOutPreserves
  <2>. QED BY <2>2, <2>3
<1>2. CASE ReportIn
  <2>1. Free(dev, "in1") /\ dev' = [Completed(dev, "in1") EXCEPT !.tx = AnyReport]
    BY <1>2 DEF ReportIn, Moves, Listens, Turn, Free
  <2>. QED BY <2>1, ReportInPreserves
<1>3. CASE WriteFails \/ Library \/ Opens \/ UNCHANGED vars
  BY <1>3 DEF WriteFails, Library, Opens, vars
<1>4. CASE BusReset
  <2>1. dev' = ServiceReset(dev)
    BY <1>4 DEF BusReset
  <2>2. /\ Sane(dev') /\ Kept(dev, dev', ResetFields \cup {"state", "fresh"})
        /\ ResetDone(dev') /\ dev'.state = "DEFAULT"
    BY <2>1, ResetEffect DEF DevInv, Ep0Inv
  <2>3. dev'.both <=> dev'.transfer = "TX"
    BY <2>2 DEF Kept, Fields, ResetFields, DevInv, Ep0Inv, Stage, Stage0
  <2>. QED BY <2>2, <2>3, FreshDevice
<1>5. CASE Replugged
  <2>1. dev' = Powered(AnyReport)
    BY <1>5 DEF Replugged
  <2>. QED BY <2>1, PoweredEffect, FreshDevice
<1>. QED BY <1>1, <1>2, <1>3, <1>4, <1>5

\* The device's part of the inductive invariant.
DeviceInv == DevInv(dev)

\* So does every step of the link.
LEMMA DevStep == DevInv(dev) /\ [Next]_vars => DevInv(dev')
BY DevFirmware, DevControl, DevReports DEF Next

\* The invariant of the device stack, for every host, every bound and every set
\* of requests: the interrupt handler (USBDeviceTasks), the callbacks of main.c
\* and the bus never leave it.
THEOREM DeviceInvariant == Spec => []DeviceInv
<1>1. Init => DeviceInv
  BY DevInit DEF DeviceInv
<1>2. DeviceInv /\ [Next]_vars => DeviceInv'
  BY DevStep DEF DeviceInv
<1>. QED BY <1>1, <1>2, PTL DEF Spec

\* With no interrupt to serve, nothing waits.
LEMMA InvReady == DevInv(dev) => SetupReady
<1>. SUFFICES ASSUME DevInv(dev), Quiet PROVE Turn(dev, "out0").own /\ dev.pin = dev.sie["in0"]
  BY DEF SetupReady
<1>1. ~Waits(dev, "out0") /\ ~Waits(dev, "in0")
  <2>1. Len(dev.ustat) = 0
    BY DEF Quiet
  <2>. QED BY <2>1 DEF Waits
<1>. QED BY <1>1 DEF DevInv, Ep0Inv, InTurn, OutReady, Turn

\* SetupReady: the descriptors USBCtrlTrfSetupHandler and its like leave behind
\* are those the SIE goes on to, whatever has been given up, refused or
\* interrupted before.
THEOREM SetupIsReady == Spec => []SetupReady
<1>1. DeviceInv => SetupReady
  BY InvReady DEF DeviceInv
<1>. QED BY <1>1, DeviceInvariant, PTL

\* A command is only taken where the application finds a packet.
LEMMA FreshStep ==
  DevInv(dev) /\ [Next]_vars =>
    (command = Nothing /\ command' # Nothing => dev.fresh \/ Unheeded)
<1>. SUFFICES ASSUME DevInv(dev), [Next]_vars, command = Nothing, command' # Nothing, ~Unheeded
     PROVE  dev.fresh
  OBVIOUS
<1>1. TakeCommand /\ MayTake
  BY DEF Next, MainChecks, TakeCommand, AnswerCommand, Interrupt, StartOfFrame, Setup, Control,
         Refused, DataIn, StatusOut, DataOut, StatusIn, GivesUp, ReportOut, ReportIn, WriteFails,
         Library, Opens, BusReset, Replugged, Firmware, vars
<1>2. ~(dev.outHandle # Null /\ dev.bd["out1"][dev.outHandle].own)
  BY <1>1 DEF MayTake, Busy
<1>3. dev.state = "CONFIGURED" /\ "out1" \notin dev.events
  BY DEF Unheeded
<1>. QED BY <1>2, <1>3 DEF DevInv, Ep1Inv, Null, Bit

\* CommandsFresh: BOOTLOADER_IDLE takes a packet once, but for the two holes
\* Unheeded names (the events it does not look at, the state main() has checked
\* before).
THEOREM CommandsAreFresh == Spec => CommandsFresh
<1>1. DeviceInv /\ [Next]_vars =>
        [command = Nothing /\ command' # Nothing => dev.fresh \/ Unheeded]_vars
  BY FreshStep DEF DeviceInv
<1>. QED BY <1>1, DeviceInvariant, PTL DEF Spec, CommandsFresh
-----------------------------------------------------------------------------
(* Endpoint 1's turns, through the steps of the link.                      *)

\* Nothing waits in an empty FIFO.
LEMMA NothingWaits == dev.ustat = <<>> => \A p \in Pipes : ~Waits(dev, p)
<1>. SUFFICES ASSUME dev.ustat = <<>> PROVE \A p \in Pipes : ~Waits(dev, p)
  OBVIOUS
<1>1. Len(dev.ustat) = 0
  OBVIOUS
<1>. QED BY <1>1 DEF Waits

\* A device without its endpoint 1 has no turns to keep.
LEMMA TurnsDown ==
  ASSUME NEW e, ~e.enabled, e.ustat = <<>>
  PROVE  Turns(e)
<1>1. Len(e.ustat) = 0
  OBVIOUS
<1>. QED BY <1>1 DEF Turns, Waits

\* A flag of the device is set.
LEMMA FlagEffect ==
  ASSUME NEW d, Sane(d), NEW e, NEW v,
         \/ e = [d EXCEPT !.stallIF = v] \/ e = [d EXCEPT !.boot = v] \/ e = [d EXCEPT !.state = v]
  PROVE  /\ Kept(d, e, {"stallIF", "boot", "state"})
         /\ e = [d EXCEPT !.stallIF = v] => e.stallIF = v /\ e.boot = d.boot /\ e.state = d.state
         /\ e = [d EXCEPT !.boot = v] => e.stallIF = d.stallIF /\ e.boot = v /\ e.state = d.state
         /\ e = [d EXCEPT !.state = v] => e.stallIF = d.stallIF /\ e.boot = d.boot /\ e.state = v
<1>1. DOMAIN d = Fields /\ {"stallIF", "boot", "state"} \subseteq DOMAIN d
  BY DEF Sane, IsDev, Fields
<1>2. CASE e = [d EXCEPT !.stallIF = v]
  BY <1>1, <1>2 DEF Kept
<1>3. CASE e = [d EXCEPT !.boot = v]
  BY <1>1, <1>3 DEF Kept
<1>4. CASE e = [d EXCEPT !.state = v]
  BY <1>1, <1>4 DEF Kept
<1>. QED BY <1>2, <1>3, <1>4

\* Nothing of endpoint 1 is touched.
LEMMA TurnsKept ==
  ASSUME NEW d, Turns(d), NEW e,
         Kept(d, e, Fields \ {"ustat", "sie", "pp", "cpu", "outHandle", "inHandle", "enabled", "fresh"}),
         \A p \in Pipes1 : e.bd[p] = d.bd[p]
  PROVE  Turns(e)
<1>1. /\ e.ustat = d.ustat /\ e.sie = d.sie /\ e.pp = d.pp /\ e.cpu = d.cpu
      /\ e.outHandle = d.outHandle /\ e.inHandle = d.inHandle
      /\ e.enabled = d.enabled /\ e.fresh = d.fresh
  BY DEF Kept, Fields
<1>. QED BY <1>1, Same1Still, TurnsStill

\* The firmware keeps them.
LEMMA TurnsFirmware ==
  ASSUME DevInv(dev), Turns(dev), MainChecks \/ TakeCommand \/ AnswerCommand \/ Interrupt \/ StartOfFrame
  PROVE  Turns(dev')
<1>. DEFINE Others == Fields \ {"ustat", "sie", "pp", "cpu", "outHandle", "inHandle", "enabled", "fresh"}
<1>1. Sane(dev) /\ Stage0(dev) /\ Pipes1 \subseteq Pipes
  BY Ep1Pipes DEF DevInv, Ep0Inv, Stage
<1>2. CASE MainChecks
  BY <1>2 DEF MainChecks
<1>3. CASE TakeCommand
  <2>1. Quiet /\ \A p \in Pipes1 : ~Waits(dev, p)
    BY <1>1, <1>3, NothingWaits DEF TakeCommand, Quiet
  <2>2. CASE MayTake
    <3>1. dev' = [TransferOnePacket(dev, "out1") EXCEPT
                    !.outHandle = dev.cpu["out1"], !.boot = "busy", !.fresh = FALSE]
      BY <1>3, <2>2 DEF TakeCommand
    <3>2. ~Busy(dev, "out1", dev.outHandle)
      BY <2>2 DEF MayTake
    <3>. QED BY <1>1, <2>1, <3>1, <3>2, TakeTurns
  <2>3. CASE ~MayTake
    BY <1>3, <2>3 DEF TakeCommand
  <2>. QED BY <2>2, <2>3
<1>4. CASE AnswerCommand
  <2>1. Quiet /\ \A p \in Pipes1 : ~Waits(dev, p)
    BY <1>1, <1>4, NothingWaits DEF AnswerCommand, Quiet
  <2>2. CASE dev' = dev
    BY <2>2
  <2>3. CASE dev' = [dev EXCEPT !.boot = "idle"]
    <3>1. Kept(dev, dev', {"stallIF", "boot", "state"})
      BY <1>1, <2>3, FlagEffect
    <3>2. Kept(dev, dev', Others) /\ \A p \in Pipes1 : dev'.bd[p] = dev.bd[p]
      BY <3>1 DEF Kept, Fields
    <3>. QED BY <3>2, TurnsKept
  <2>4. CASE /\ ~Busy(dev, "in1", dev.inHandle)
             /\ dev' = [TransferOnePacket(dev, "in1") EXCEPT
                          !.tx = command, !.inHandle = dev.cpu["in1"], !.boot = "idle"]
    BY <1>1, <2>1, <2>4, AnswerTurns
  <2>. QED BY <1>4, <2>2, <2>3, <2>4 DEF AnswerCommand
<1>5. CASE Interrupt
  <2>1. CASE dev' = [dev EXCEPT !.state = "POWERED"]
    <3>1. Kept(dev, dev', {"stallIF", "boot", "state"})
      BY <1>1, <2>1, FlagEffect
    <3>2. Kept(dev, dev', Others) /\ \A p \in Pipes1 : dev'.bd[p] = dev.bd[p]
      BY <3>1 DEF Kept, Fields
    <3>. QED BY <3>2, TurnsKept
  <2>2. CASE dev' = ServiceStall(dev)
    <3>1. /\ Kept(dev, dev', {"stallIF", "bd"})
          /\ \A q \in Pipes \ {"out0"} : dev'.bd[q] = dev.bd[q]
      BY <1>1, <2>2, StallEffect
    <3>2. Kept(dev, dev', Others) /\ \A p \in Pipes1 : dev'.bd[p] = dev.bd[p]
      BY <3>1, Ep1Pipes DEF Kept, Fields
    <3>. QED BY <3>2, TurnsKept
  <2>3. CASE dev.ustat # <<>> /\ dev' = ServiceTransaction(dev)
    BY <2>3, ServiceTurns
  <2>. QED BY <1>5, <2>1, <2>2, <2>3 DEF Interrupt
<1>6. CASE StartOfFrame
  <2>1. dev.timer > 0 /\ dev' = ServiceSof(dev)
    BY <1>6 DEF StartOfFrame
  <2>2. Kept(dev, dev', SofFields) /\ \A q \in Pipes \ {"in0"} : dev'.bd[q] = dev.bd[q]
    BY <1>1, <2>1, SofEffect
  <2>3. Kept(dev, dev', Others) /\ \A p \in Pipes1 : dev'.bd[p] = dev.bd[p]
    BY <2>2, Ep1Pipes DEF Kept, Fields, SofFields
  <2>. QED BY <2>3, TurnsKept
<1>. QED BY <1>2, <1>3, <1>4, <1>5, <1>6

\* What a transaction of the host does to the device.
LEMMA ControlEffect ==
  ASSUME DevInv(dev)
  PROVE  /\ \A req \in Requests : Setup(req) =>
              /\ Kept(dev, dev', {"bd", "sie", "ustat", "setup", "pktDis"})
              /\ CompletedDone(dev, dev', "out0") /\ dev'.pktDis /\ dev'.setup = req
              /\ ~dev.pktDis
         /\ Refused => Kept(dev, dev', {"stallIF"}) /\ ~dev.pktDis
         /\ DataIn \/ StatusIn =>
              /\ Free(dev, "in0") /\ Kept(dev, dev', {"bd", "sie", "ustat"})
              /\ CompletedDone(dev, dev', "in0")
         /\ StatusOut \/ DataOut =>
              /\ Free(dev, "out0")
              /\ \/ dev' = dev
                 \/ Kept(dev, dev', {"bd", "sie", "ustat"}) /\ CompletedDone(dev, dev', "out0")
<1>1. Sane(dev) /\ {"in0", "out0"} \subseteq Pipes
  BY Ep0Pipes DEF DevInv, Ep0Inv
<1>2. ASSUME NEW req \in Requests, Setup(req)
      PROVE  /\ Kept(dev, dev', {"bd", "sie", "ustat", "setup", "pktDis"})
             /\ CompletedDone(dev, dev', "out0") /\ dev'.pktDis /\ dev'.setup = req
             /\ ~dev.pktDis
  <2>1. req \in Request /\ dev' = TakeSetup(dev, req) /\ ~dev.pktDis
    BY <1>2, LinkAssumption DEF Setup, TakesSetup, Listens
  <2>. QED BY <1>1, <2>1, TakeSetupEffect
<1>3. ASSUME Refused
      PROVE  Kept(dev, dev', {"stallIF"}) /\ ~dev.pktDis
  <2>1. dev' = [dev EXCEPT !.stallIF = TRUE] /\ ~dev.pktDis
    BY <1>3, Ep1Pipes DEF Refused, Stall, Stalls, Listens
  <2>2. /\ Kept(dev, dev', {"stallIF", "boot", "state"})
        /\ dev'.boot = dev.boot /\ dev'.state = dev.state
    BY <1>1, <2>1, FlagEffect
  <2>3. ASSUME NEW f \in Fields \ {"stallIF"} PROVE dev'[f] = dev[f]
    BY <2>2, <2>3 DEF Kept
  <2>. QED BY <2>1, <2>3 DEF Kept
<1>4. ASSUME DataIn \/ StatusIn
      PROVE  /\ Free(dev, "in0") /\ Kept(dev, dev', {"bd", "sie", "ustat"})
             /\ CompletedDone(dev, dev', "in0")
  <2>1. Free(dev, "in0") /\ dev' = Completed(dev, "in0")
    BY <1>4 DEF DataIn, StatusIn, Moves, Listens, Turn, Free
  <2>. QED BY <1>1, <2>1, CompletedEffect
<1>5. ASSUME StatusOut
      PROVE  /\ Free(dev, "out0")
             /\ \/ dev' = dev
                \/ Kept(dev, dev', {"bd", "sie", "ustat"}) /\ CompletedDone(dev, dev', "out0")
  <2>1. Free(dev, "out0") /\ dev' \in {dev, Completed(dev, "out0")}
    BY <1>5 DEF StatusOut, Moves, Listens, Turn, Free
  <2>. QED BY <1>1, <2>1, CompletedEffect
<1>6. ASSUME DataOut
      PROVE  /\ Free(dev, "out0")
             /\ \/ dev' = dev
                \/ Kept(dev, dev', {"bd", "sie", "ustat"}) /\ CompletedDone(dev, dev', "out0")
  <2>. DEFINE n == Lesser(Ep0Size, hc.req.len - Len(hc.got))
  <2>1. Free(dev, "out0")
    BY <1>6 DEF DataOut, Moves, Listens, Turn, Free
  <2>2. dev' = dev \/ dev' = [Completed(dev, "out0") EXCEPT !.bd["out0"][dev.sie["out0"]].cnt = n]
    BY <1>6 DEF DataOut
  <2>. HIDE DEF n
  <2>. QED BY <2>1, <2>2, DataOutPreserves
<1>. QED BY <1>2, <1>3, <1>4, <1>5, <1>6

\* So do the host's control transfers.
LEMMA TurnsControl ==
  ASSUME DevInv(dev), Turns(dev), (\E req \in Requests : Setup(req)) \/ Control \/ GivesUp
  PROVE  Turns(dev')
<1>1. Sane(dev)
  BY DEF DevInv, Ep0Inv
<1>2. ASSUME NEW req \in Requests, Setup(req) PROVE Turns(dev')
  BY <1>1, <1>2, ControlEffect, CompletedTurns0
<1>3. CASE Refused
  <2>1. /\ Kept(dev, dev', Fields \ {"ustat", "sie", "pp", "cpu", "outHandle", "inHandle",
                                     "enabled", "fresh"})
        /\ \A p \in Pipes1 : dev'.bd[p] = dev.bd[p]
    BY <1>3, ControlEffect DEF Kept, Fields
  <2>. QED BY <2>1, TurnsKept
<1>4. CASE DataIn \/ StatusIn
  <2>1. Kept(dev, dev', {"bd", "sie", "ustat"}) /\ CompletedDone(dev, dev', "in0")
    BY <1>4, ControlEffect
  <2>2. Kept(dev, dev', {"bd", "sie", "ustat", "setup", "pktDis"})
    BY <2>1 DEF Kept
  <2>. QED BY <1>1, <2>1, <2>2, CompletedTurns0
<1>5. CASE StatusOut \/ DataOut
  <2>1. \/ dev' = dev
        \/ Kept(dev, dev', {"bd", "sie", "ustat"}) /\ CompletedDone(dev, dev', "out0")
    BY <1>5, ControlEffect
  <2>2. CASE Kept(dev, dev', {"bd", "sie", "ustat"}) /\ CompletedDone(dev, dev', "out0")
    <3>1. Kept(dev, dev', {"bd", "sie", "ustat", "setup", "pktDis"})
      BY <2>2 DEF Kept
    <3>. QED BY <1>1, <2>2, <3>1, CompletedTurns0
  <2>. QED BY <2>1, <2>2
<1>6. CASE GivesUp
  BY <1>6 DEF GivesUp
<1>. QED BY <1>2, <1>3, <1>4, <1>5, <1>6 DEF Control

\* What a packet of endpoint 1 does.
LEMMA ReportOutEffect ==
  ASSUME DevInv(dev), ReportOut
  PROVE  /\ dev.enabled /\ Free(dev, "out1")
         /\ IF Repeated(dev, "out1", host.toggle["out1"]) THEN dev' = dev
            ELSE /\ Sane(dev') /\ Kept(dev, dev', {"bd", "sie", "ustat", "rx", "fresh"})
                 /\ CompletedDone(dev, dev', "out1") /\ dev'.rx = writing /\ dev'.fresh = TRUE
<1>1. Sane(dev) /\ dev.enabled /\ Free(dev, "out1")
  BY DEF DevInv, Ep0Inv, ReportOut, Usable, Moves, Listens, Turn, Free
<1>2. CASE Repeated(dev, "out1", host.toggle["out1"])
  BY <1>1, <1>2 DEF ReportOut
<1>3. CASE ~Repeated(dev, "out1", host.toggle["out1"])
  <2>. DEFINE c == Completed(dev, "out1")
  <2>1. dev' = [c EXCEPT !.rx = writing, !.fresh = TRUE]
    BY <1>3 DEF ReportOut
  <2>2. Sane(c) /\ Kept(dev, c, {"bd", "sie", "ustat"}) /\ CompletedDone(dev, c, "out1")
    BY <1>1, CompletedEffect, Ep1Pipes
  <2>. HIDE DEF c
  <2>3. DOMAIN c = Fields /\ {"rx", "fresh"} \subseteq DOMAIN c
    BY <2>2 DEF Sane, IsDev, Fields
  <2>4. dev'.rx = writing /\ dev'.fresh = TRUE
    BY <2>1, <2>3
  <2>5. Kept(c, dev', {"rx", "fresh"}) /\ IsDev(dev')
    <3>1. IsDev(dev')
      BY <2>1, <2>3 DEF IsDev
    <3>2. Kept(c, dev', {"rx", "fresh"})
      BY <2>1, <2>3 DEF Kept
    <3>. QED BY <3>1, <3>2
  <2>6. Sane(dev') /\ dev'.bd = c.bd
    <3>1. Kept(c, dev', Untyped)
      BY <2>5 DEF Kept, Untyped
    <3>. QED BY <2>2, <2>5, <3>1, SaneStill
  <2>7. dev'.sie = c.sie /\ dev'.ustat = c.ustat
    BY <2>5 DEF Kept, Fields
  <2>8. CompletedDone(dev, dev', "out1")
    BY <2>2, <2>6, <2>7 DEF CompletedDone
  <2>9. Kept(dev, dev', {"bd", "sie", "ustat", "rx", "fresh"})
    BY <2>2, <2>5 DEF Kept
  <2>. QED BY <1>1, <1>3, <2>4, <2>6, <2>8, <2>9
<1>. QED BY <1>2, <1>3

\* The other way.
LEMMA ReportInEffect ==
  ASSUME DevInv(dev), ReportIn
  PROVE  /\ dev.enabled /\ Free(dev, "in1")
         /\ Sane(dev') /\ Kept(dev, dev', {"bd", "sie", "ustat", "tx"})
         /\ CompletedDone(dev, dev', "in1")
<1>1. Sane(dev) /\ dev.enabled /\ Free(dev, "in1")
  BY DEF DevInv, Ep0Inv, ReportIn, Usable, Moves, Listens, Turn, Free
<1>. DEFINE c == Completed(dev, "in1")
<1>2. dev' = [c EXCEPT !.tx = AnyReport]
  BY DEF ReportIn
<1>3. Sane(c) /\ Kept(dev, c, {"bd", "sie", "ustat"}) /\ CompletedDone(dev, c, "in1")
  BY <1>1, CompletedEffect, Ep1Pipes
<1>. HIDE DEF c
<1>4. DOMAIN c = Fields
  BY <1>3 DEF Sane, IsDev
<1>5. IsDev(dev')
  BY <1>2, <1>4 DEF IsDev
<1>6. Kept(c, dev', {"tx"})
  BY <1>2, <1>4 DEF Kept
<1>7. Sane(dev') /\ dev'.bd = c.bd
  <2>1. Kept(c, dev', Untyped)
    BY <1>6 DEF Kept, Untyped
  <2>. QED BY <1>3, <1>5, <2>1, SaneStill
<1>8. dev'.sie = c.sie /\ dev'.ustat = c.ustat
  BY <1>6 DEF Kept, Fields
<1>9. CompletedDone(dev, dev', "in1")
  BY <1>3, <1>7, <1>8 DEF CompletedDone
<1>10. Kept(dev, dev', {"bd", "sie", "ustat", "tx"})
  BY <1>3, <1>6 DEF Kept
<1>. QED BY <1>1, <1>7, <1>9, <1>10

\* Reports, the library and the faults keep them.
LEMMA TurnsReports ==
  ASSUME DevInv(dev), Turns(dev),
         ReportOut \/ ReportIn \/ WriteFails \/ Library \/ Opens \/ BusReset \/ Replugged \/ UNCHANGED vars
  PROVE  Turns(dev')
<1>1. Sane(dev) /\ Pipes1 = {"in1", "out1"}
  BY Ep1Pipes DEF DevInv, Ep0Inv
<1>2. CASE ReportOut
  <2>1. CASE dev' = dev
    BY <2>1
  <2>2. CASE dev' # dev
    <3>1. /\ dev.enabled /\ Armed(dev, "out1", dev.sie["out1"]) /\ Sane(dev')
          /\ Kept(dev, dev', {"bd", "sie", "ustat", "rx", "fresh"})
          /\ CompletedDone(dev, dev', "out1")
      BY <1>2, <2>2, ReportOutEffect DEF Free, Armed
    <3>2. Kept(dev, dev', {"bd", "sie", "ustat", "rx", "tx", "fresh"})
      BY <3>1 DEF Kept
    <3>. QED BY <1>1, <3>1, <3>2, CompletedTurns1
  <2>. QED BY <2>1, <2>2
<1>3. CASE ReportIn
  <2>1. /\ dev.enabled /\ Armed(dev, "in1", dev.sie["in1"]) /\ Sane(dev')
        /\ Kept(dev, dev', {"bd", "sie", "ustat", "tx"}) /\ CompletedDone(dev, dev', "in1")
    BY <1>3, ReportInEffect DEF Free, Armed
  <2>2. Kept(dev, dev', {"bd", "sie", "ustat", "rx", "tx", "fresh"}) /\ dev'.fresh = dev.fresh
    BY <2>1 DEF Kept, Fields
  <2>. QED BY <1>1, <2>1, <2>2, CompletedTurns1
<1>4. CASE WriteFails \/ Library \/ Opens \/ UNCHANGED vars
  BY <1>4 DEF WriteFails, Library, Opens, vars
<1>5. CASE BusReset
  <2>1. dev' = ServiceReset(dev)
    BY <1>5 DEF BusReset
  <2>2. ResetDone(dev')
    BY <1>1, <2>1, ResetEffect
  <2>. QED BY <2>2, TurnsDown DEF ResetDone
<1>6. CASE Replugged
  <2>1. dev' = Powered(AnyReport)
    BY <1>6 DEF Replugged
  <2>2. ResetDone(dev')
    BY <2>1, PoweredEffect
  <2>. QED BY <2>2, TurnsDown DEF ResetDone
<1>. QED BY <1>2, <1>3, <1>4, <1>5, <1>6
-----------------------------------------------------------------------------
(* The two sides of the cable: what the host believes, and what the device *)
(* is.                                                                     *)

Doing(k) == hc.phase # "idle" /\ hc.req.kind = k

Awake(d) == d.state \notin {"ATTACHED", "POWERED"}

\* While the application has the device, no control transfer is under way, and
\* endpoint 0 has none to finish.
AttachedInv ==
  attached =>
    /\ user # "closed" /\ hc.phase = "idle" /\ host.config = 1 /\ ~host.retry
    /\ ~dev.pktDis /\ ~dev.stallIF /\ ~Waits(dev, "out0") /\ ~Waits(dev, "in0")

\* The request of a control transfer is the one the device has.
TransferInv ==
  hc.phase # "idle" =>
    /\ user = "closed" /\ Awake(dev) /\ hc.req \in Requests /\ dev.setup = hc.req
    /\ hc.phase \in {"in", "out", "statusIn", "statusOut"}
    /\ hc.phase \in {"in", "statusOut"} => ToHost(hc.req)
    /\ hc.phase = "out" => ~ToHost(hc.req)
    /\ hc.req.kind \in {"setAddress", "setConfiguration"} => hc.phase = "statusIn"

\* The device has the address the host uses, but between the end of SET_ADDRESS
\* on the bus and the interrupt that makes it so.
AddressInv ==
  /\ dev.address = host.address \/ (dev.state = "ADR_PENDING" /\ Waits(dev, "in0"))
  /\ dev.state = "ADR_PENDING" =>
       /\ dev.setup.kind = "setAddress" /\ dev.setup.arg # 0 /\ dev.address = 0
       /\ IF Waits(dev, "in0")
            THEN host.address = dev.setup.arg /\ ~dev.pktDis /\ ~host.retry /\ hc.phase = "idle"
            ELSE host.address = 0 /\ (host.retry \/ hc.phase = "statusIn")
  /\ host.retry \/ Doing("setAddress") => host.address = 0
  /\ dev.pktDis /\ dev.setup.kind = "setAddress" =>
       host.address = 0 /\ (host.retry \/ hc.phase = "statusIn") /\ dev.setup.arg # 0

\* So with the configuration.
ConfigInv ==
  /\ host.address = 0 => host.config = 0
  /\ Doing("setConfiguration") => host.address # 0
  /\ host.config = 1 /\ ~Doing("setConfiguration") => dev.config = 1 /\ dev.state = "CONFIGURED"
  /\ Doing("setConfiguration") /\ ~dev.pktDis /\ dev.setup.arg = 1 =>
       /\ dev.config = 1 /\ dev.state = "CONFIGURED"
       /\ \A p \in Pipes1 : Turn(dev, p).dts = 0
  /\ dev.pktDis /\ hc.phase = "idle" /\ dev.setup.kind = "setConfiguration" => host.config = 0

\* The next packet of a pipe has the toggle the host expects, unless the host
\* has asked for a halt it has not ended yet.
ToggleInv ==
  /\ host.config = 1 /\ ~Doing("setConfiguration") =>
       \A p \in Pipes1 : ~host.halted[p] => Turn(dev, p).dts = host.toggle[p]
  /\ Doing("clearHalt") =>
       /\ host.config = 1 /\ host.halted[hc.req.pipe]
       /\ ~dev.pktDis => Turn(dev, hc.req.pipe).dts = 0
  /\ dev.pktDis /\ dev.setup.kind = "clearHalt" => host.halted[dev.setup.pipe]

\* Once the firmware has seen the request, what the host waits for is with the
\* SIE, or will be.
StageInv ==
  hc.phase \in {"in", "out", "statusIn"} /\ ~dev.pktDis =>
    /\ ~Waits(dev, "in0") => StatusDue(dev)
    /\ hc.phase \in {"out", "statusIn"} => ~Waits(dev, "in0")
    /\ hc.phase = "in" =>
         /\ ~Waits(dev, "out0")
         /\ Waits(dev, "in0") => dev.both
         /\ ~dev.both => /\ dev.transfer = "WAIT_SETUP"
                         /\ dev.bd["in0"][dev.pin].own /\ dev.bd["in0"][dev.pin].stall
    /\ hc.req.kind \in {"setAddress", "setConfiguration"} =>
         dev.bd["in0"][dev.pin].own /\ ~dev.bd["in0"][dev.pin].stall
    /\ hc.req.kind = "setAddress" => dev.state = "ADR_PENDING"

\* What the host believes, and its request.
HostInv ==
  /\ DOMAIN host = {"address", "config", "retry", "toggle", "halted"}
  /\ host.toggle \in [Pipes1 -> Bit] /\ host.halted \in [Pipes1 -> BOOLEAN] /\ host.retry \in BOOLEAN
  /\ DOMAIN hc = {"phase", "req", "toggle", "got"}

Sides == AttachedInv /\ TransferInv /\ AddressInv /\ ConfigInv /\ ToggleInv /\ StageInv /\ HostInv

\* What Sides says of the device, unchanged; a refusal may be forgotten.
View(d, e) ==
  /\ e.state = d.state /\ e.address = d.address /\ e.config = d.config /\ e.setup = d.setup
  /\ e.pktDis = d.pktDis /\ e.pin = d.pin /\ e.flag1 = d.flag1
  /\ e.transfer = d.transfer /\ e.both = d.both /\ e.bd["in0"] = d.bd["in0"]
  /\ Waits(e, "in0") <=> Waits(d, "in0")
  /\ Waits(e, "out0") <=> Waits(d, "out0")
  /\ \A p \in Pipes1 : Turn(e, p).dts = Turn(d, p).dts
  /\ e.stallIF => d.stallIF

\* Nothing of it changes, and the host's part does not either.
LEMMA ViewStill ==
  ASSUME Sides, View(dev, dev'), hc' = hc, host' = host,
         attached' => attached /\ user' # "closed", user = "closed" => user' = "closed"
  PROVE  Sides'
<1>1. AttachedInv'
  BY DEF Sides, AttachedInv, View
<1>2. TransferInv'
  BY DEF Sides, TransferInv, View, Awake
<1>3. AddressInv'
  BY DEF Sides, AddressInv, View, Doing
<1>4. ConfigInv'
  BY DEF Sides, ConfigInv, View, Doing
<1>5. ToggleInv'
  <2>1. /\ host.config = 1 /\ ~Doing("setConfiguration")' =>
             \A p \in Pipes1 : ~host.halted[p] => Turn(dev', p).dts = host.toggle[p]
        /\ dev'.pktDis /\ dev'.setup.kind = "clearHalt" => host.halted[dev'.setup.pipe]
    BY DEF Sides, ToggleInv, View, Doing
  <2>2. ASSUME Doing("clearHalt")
        PROVE  /\ host.config = 1 /\ host.halted[hc.req.pipe]
               /\ ~dev'.pktDis => Turn(dev', hc.req.pipe).dts = 0
    <3>1. hc.req.pipe \in Pipes1
      BY <2>2, LinkAssumption DEF Sides, TransferInv, Doing, Request
    <3>. QED BY <2>2, <3>1 DEF Sides, ToggleInv, View
  <2>. QED BY <2>1, <2>2 DEF ToggleInv, Doing
<1>6. StageInv'
  BY DEF Sides, StageInv, View, StatusDue
<1>7. HostInv'
  BY DEF Sides, HostInv
<1>. QED BY <1>1, <1>2, <1>3, <1>4, <1>5, <1>6, <1>7 DEF Sides

\* The application's steps touch the pipes of endpoint 1, and no toggle.
LEMMA Ep1View ==
  ASSUME NEW d, Sane(d), NEW e,
         Kept(d, e, {"bd", "cpu", "outHandle", "inHandle", "boot", "tx", "fresh"}),
         e.bd["in0"] = d.bd["in0"], Dts1(d, e)
  PROVE  View(d, e)
<1>1. /\ e.state = d.state /\ e.address = d.address /\ e.config = d.config /\ e.setup = d.setup
      /\ e.pktDis = d.pktDis /\ e.pin = d.pin /\ e.flag1 = d.flag1
      /\ e.transfer = d.transfer /\ e.both = d.both /\ e.stallIF = d.stallIF
      /\ e.ustat = d.ustat /\ e.sie = d.sie
  BY DEF Kept, Fields
<1>2. ASSUME NEW p \in Pipes1 PROVE Turn(e, p).dts = Turn(d, p).dts
  <2>1. d.sie[p] \in Bit
    BY Ep1Pipes DEF Sane
  <2>. QED BY <1>1, <2>1 DEF Dts1, Turn
<1>. QED BY <1>1, <1>2 DEF View, Waits

\* The application takes a command or answers one.
LEMMA SidesApplication ==
  ASSUME DevInv(dev), Turns(dev), Sides, MainChecks \/ TakeCommand \/ AnswerCommand
  PROVE  Sides'
<1>1. Sane(dev)
  BY DEF DevInv, Ep0Inv
<1>2. /\ hc' = hc /\ host' = host /\ attached' = attached /\ user' = user
      /\ attached => user # "closed"
  BY DEF MainChecks, TakeCommand, AnswerCommand, Device, busVars, hidVars, Sides, AttachedInv
<1>3. CASE dev' = dev
  <2>1. View(dev, dev')
    BY <1>3 DEF View
  <2>. QED BY <1>2, <2>1, ViewStill
<1>4. CASE TakeCommand /\ MayTake
  <2>1. Quiet /\ \A p \in Pipes1 : ~Waits(dev, p)
    BY <1>4, NothingWaits, Ep1Pipes DEF TakeCommand, Quiet
  <2>2. dev' = [TransferOnePacket(dev, "out1") EXCEPT
                  !.outHandle = dev.cpu["out1"], !.boot = "busy", !.fresh = FALSE]
    BY <1>4 DEF TakeCommand
  <2>3. ~Busy(dev, "out1", dev.outHandle)
    BY <1>4 DEF MayTake
  <2>4. /\ Kept(dev, dev', {"bd", "cpu", "outHandle", "boot", "fresh"})
        /\ OnlyPipe(dev, dev', "out1") /\ Dts1(dev, dev')
    BY <1>1, <2>1, <2>2, <2>3, TakeTurns
  <2>5. /\ Kept(dev, dev', {"bd", "cpu", "outHandle", "inHandle", "boot", "tx", "fresh"})
        /\ dev'.bd["in0"] = dev.bd["in0"]
    BY <2>4, Ep1Pipes, Ep0Pipes DEF Kept, OnlyPipe
  <2>6. View(dev, dev')
    BY <1>1, <2>4, <2>5, Ep1View
  <2>. QED BY <1>2, <2>6, ViewStill
<1>5. CASE AnswerCommand /\ dev' # dev
  <2>1. CASE dev' = [dev EXCEPT !.boot = "idle"]
    <3>1. /\ Kept(dev, dev', {"stallIF", "boot", "state"})
          /\ dev'.stallIF = dev.stallIF /\ dev'.state = dev.state
      BY <1>1, <2>1, FlagEffect
    <3>2. View(dev, dev')
      BY <3>1 DEF Kept, Fields, View, Waits, Turn
    <3>. QED BY <1>2, <3>2, ViewStill
  <2>2. CASE dev' # [dev EXCEPT !.boot = "idle"]
    <3>1. Quiet /\ \A p \in Pipes1 : ~Waits(dev, p)
      BY <1>5, NothingWaits, Ep1Pipes DEF AnswerCommand, Quiet
    <3>2. /\ ~Busy(dev, "in1", dev.inHandle)
          /\ dev' = [TransferOnePacket(dev, "in1") EXCEPT
                       !.tx = command, !.inHandle = dev.cpu["in1"], !.boot = "idle"]
      BY <1>5, <2>2 DEF AnswerCommand
    <3>3. /\ Kept(dev, dev', {"bd", "cpu", "inHandle", "boot", "tx"})
          /\ OnlyPipe(dev, dev', "in1") /\ Dts1(dev, dev')
      BY <1>1, <3>1, <3>2, AnswerTurns
    <3>4. /\ Kept(dev, dev', {"bd", "cpu", "outHandle", "inHandle", "boot", "tx", "fresh"})
          /\ dev'.bd["in0"] = dev.bd["in0"]
      BY <3>3, Ep1Pipes, Ep0Pipes DEF Kept, OnlyPipe
    <3>5. View(dev, dev')
      BY <1>1, <3>3, <3>4, Ep1View
    <3>. QED BY <1>2, <3>5, ViewStill
  <2>. QED BY <2>1, <2>2
<1>. QED BY <1>3, <1>4, <1>5 DEF MainChecks, TakeCommand

\* The interrupts that change nothing of it, and the first of all, after which
\* the host resets the device.
LEMMA SidesInterrupt ==
  ASSUME DevInv(dev), Turns(dev), Sides, hc' = hc, host' = host, attached' = attached, user' = user,
         \/ dev.state = "ATTACHED" /\ dev' = [dev EXCEPT !.state = "POWERED"]
         \/ dev.stallIF /\ dev' = ServiceStall(dev)
         \/ dev.ustat # <<>> /\ dev.ustat[1].pipe \in Pipes1 /\ dev' = ServiceTransaction(dev)
  PROVE  Sides'
<1>1. Sane(dev) /\ Ep0Inv(dev) /\ (attached => user # "closed")
  BY DEF DevInv, Ep0Inv, Sides, AttachedInv
<1>2. CASE dev.state = "ATTACHED" /\ dev' = [dev EXCEPT !.state = "POWERED"]
  <2>1. /\ Kept(dev, dev', {"stallIF", "boot", "state"})
        /\ dev'.stallIF = dev.stallIF /\ dev'.state = "POWERED"
    BY <1>1, <1>2, FlagEffect
  <2>2. /\ dev'.address = dev.address /\ dev'.config = dev.config /\ dev'.setup = dev.setup
        /\ dev'.pktDis = dev.pktDis /\ dev'.ustat = dev.ustat /\ dev'.sie = dev.sie
        /\ dev'.bd = dev.bd
    BY <2>1 DEF Kept, Fields
  <2>3. hc.phase = "idle"
    BY <1>2 DEF Sides, TransferInv, Awake
  <2>4. host.config # 1
    BY <1>2, <2>3 DEF Sides, ConfigInv, Doing
  <2>5. AttachedInv'
    BY <2>1, <2>2 DEF Sides, AttachedInv, Waits
  <2>6. TransferInv' /\ StageInv' /\ HostInv'
    BY <2>3 DEF Sides, TransferInv, StageInv, HostInv
  <2>7. AddressInv'
    BY <1>2, <2>1, <2>2, <2>3 DEF Sides, AddressInv, Doing
  <2>8. ConfigInv'
    BY <2>2, <2>3, <2>4 DEF Sides, ConfigInv, Doing
  <2>9. ToggleInv'
    BY <2>2, <2>3, <2>4 DEF Sides, ToggleInv, Doing
  <2>. QED BY <2>5, <2>6, <2>7, <2>8, <2>9 DEF Sides
<1>3. CASE dev.stallIF /\ dev' = ServiceStall(dev)
  <2>1. /\ Kept(dev, dev', {"stallIF", "bd"})
        /\ \A q \in Pipes \ {"out0"} : dev'.bd[q] = dev.bd[q]
    BY <1>1, <1>3, StallEffect
  <2>2. View(dev, dev')
    BY <1>3, <2>1, Ep1Pipes, Ep0Pipes DEF Kept, Fields, View, Waits, Turn
  <2>. QED BY <1>1, <2>2, ViewStill
<1>4. CASE dev.ustat # <<>> /\ dev.ustat[1].pipe \in Pipes1 /\ dev' = ServiceTransaction(dev)
  <2>1. Kept(dev, dev', {"ustat", "pp"}) /\ Taken(dev, dev')
    BY <1>1, <1>4, ServiceEp1Preserves
  <2>2. \A q \in {"in0", "out0"} : Waits(dev', q) <=> Waits(dev, q)
    BY <1>1, <1>4, <2>1, TakenWaits, Ep1Pipes, Ep0Pipes
  <2>3. View(dev, dev')
    BY <2>1, <2>2 DEF Kept, Fields, View, Turn
  <2>. QED BY <1>1, <2>3, ViewStill
<1>. QED BY <1>2, <1>3, <1>4

\* The handler of an IN transaction of endpoint 0: the address becomes the
\* host's, or the next packet of a read is there.
LEMMA SidesIn0 ==
  ASSUME DevInv(dev), Sides, hc' = hc, host' = host, attached' = attached, user' = user,
         dev.ustat # <<>>, dev.ustat[1].pipe = "in0", dev' = ServiceTransaction(dev)
  PROVE  Sides'
<1>1. Sane(dev) /\ Ep0Inv(dev) /\ Stage0(dev)
  BY DEF DevInv, Ep0Inv, Stage
<1>2. /\ Kept(dev, dev', InFields \cup {"ustat", "timer"})
      /\ \A q \in Pipes1 : dev'.bd[q] = dev.bd[q]
      /\ Taken(dev, dev') /\ ~Waits(dev', "in0") /\ InDone(dev, dev')
  BY <1>1, ServiceIn0Preserves
<1>3. /\ dev'.config = dev.config /\ dev'.setup = dev.setup /\ dev'.pktDis = dev.pktDis
      /\ dev'.sie = dev.sie /\ dev'.stallIF = dev.stallIF
  BY <1>2 DEF Kept, Fields, InFields
<1>4. Waits(dev, "in0") /\ (Waits(dev', "out0") => Waits(dev, "out0"))
  <2>1. Len(dev.ustat) \in Nat /\ Len(dev.ustat) > 0
    BY <1>1, <1>2, TakenWaits
  <2>2. Waits(dev, "in0")
    BY <2>1 DEF Waits
  <2>. QED BY <1>1, <1>2, <2>2, TakenWaits, Ep0Pipes
<1>5. /\ dev.transfer = "TX" =>
           dev'.transfer = "TX" /\ dev'.both = dev.both /\ dev'.bd["in0"][dev'.pin].own
      /\ dev.state = "ADR_PENDING" =>
           dev'.address = dev.setup.arg /\ dev'.state = IF dev.setup.arg = 0 THEN "DEFAULT" ELSE "ADDRESS"
      /\ dev.state # "ADR_PENDING" => dev'.address = dev.address /\ dev'.state = dev.state
  BY <1>2 DEF InDone
<1>6. AttachedInv'
  BY <1>4 DEF Sides, AttachedInv
<1>7. TransferInv'
  BY <1>3, <1>5 DEF Sides, TransferInv, Awake
<1>8. AddressInv'
  BY <1>2, <1>3, <1>4, <1>5 DEF Sides, AddressInv, Doing
<1>9. ConfigInv'
  BY <1>2, <1>3, <1>5 DEF Sides, ConfigInv, Doing, Turn
<1>10. ToggleInv'
  <2>1. hc.phase # "idle" => hc.req.pipe \in Pipes1
    BY LinkAssumption DEF Sides, TransferInv, Request
  <2>. QED BY <1>2, <1>3, <2>1 DEF Sides, ToggleInv, Doing, Turn
<1>11. StageInv'
  <2>. SUFFICES ASSUME hc.phase \in {"in", "out", "statusIn"}, ~dev.pktDis
       PROVE  StageInv'
    BY <1>3 DEF StageInv
  <2>1. hc.phase = "in" /\ ~Waits(dev, "out0") /\ dev.both
    BY <1>4 DEF Sides, StageInv
  <2>2. hc.req.kind \notin {"setAddress", "setConfiguration"}
    BY <2>1 DEF Sides, TransferInv
  <2>3. dev'.transfer = "TX" /\ dev'.both /\ dev'.bd["in0"][dev'.pin].own
    BY <1>1, <1>5, <2>1 DEF Stage0
  <2>. QED BY <1>2, <1>4, <2>1, <2>2, <2>3 DEF StageInv, StatusDue
<1>12. HostInv'
  BY DEF Sides, HostInv
<1>. QED BY <1>6, <1>7, <1>8, <1>9, <1>10, <1>11, <1>12 DEF Sides

\* That of any OUT transaction but a SETUP.
LEMMA SidesOut0 ==
  ASSUME DevInv(dev), Sides, hc' = hc, host' = host, attached' = attached, user' = user,
         dev.ustat # <<>>, dev.ustat[1].pipe = "out0", ~dev.bd["out0"][dev.ustat[1].b].setup,
         dev' = ServiceTransaction(dev)
  PROVE  Sides'
<1>1. Sane(dev) /\ Ep0Inv(dev) /\ Stage0(dev)
  BY DEF DevInv, Ep0Inv, Stage
<1>2. /\ Kept(dev, dev', OutFields \cup {"ustat", "timer", "cur", "next"})
      /\ \A q \in Pipes1 : dev'.bd[q] = dev.bd[q]
      /\ Taken(dev, dev') /\ ~dev'.both /\ (StatusDue(dev) => StatusDue(dev'))
      /\ dev.flag1 => dev'.flag1 /\ dev'.bd["in0"] = dev.bd["in0"]
  BY <1>1, ServiceOut0Preserves
<1>3. /\ dev'.config = dev.config /\ dev'.setup = dev.setup /\ dev'.pktDis = dev.pktDis
      /\ dev'.sie = dev.sie /\ dev'.stallIF = dev.stallIF /\ dev'.state = dev.state
      /\ dev'.address = dev.address /\ dev'.pin = dev.pin
  BY <1>2 DEF Kept, Fields, OutFields
<1>4. Waits(dev, "out0") /\ (Waits(dev', "in0") <=> Waits(dev, "in0"))
  <2>1. Len(dev.ustat) \in Nat /\ Len(dev.ustat) > 0
    BY <1>1, <1>2, TakenWaits
  <2>2. Waits(dev, "out0")
    BY <2>1 DEF Waits
  <2>. QED BY <1>1, <1>2, <2>2, TakenWaits, Ep0Pipes
<1>5. AttachedInv'
  BY <1>4 DEF Sides, AttachedInv
<1>6. TransferInv'
  BY <1>3 DEF Sides, TransferInv, Awake
<1>7. AddressInv'
  BY <1>3, <1>4 DEF Sides, AddressInv, Doing
<1>8. ConfigInv'
  BY <1>2, <1>3 DEF Sides, ConfigInv, Doing, Turn
<1>9. ToggleInv'
  <2>1. hc.phase # "idle" => hc.req.pipe \in Pipes1
    BY LinkAssumption DEF Sides, TransferInv, Request
  <2>. QED BY <1>2, <1>3, <2>1 DEF Sides, ToggleInv, Doing, Turn
<1>10. StageInv'
  <2>. SUFFICES ASSUME hc.phase \in {"in", "out", "statusIn"}, ~dev.pktDis
       PROVE  StageInv'
    BY <1>3 DEF StageInv
  <2>1. hc.phase # "in" /\ ~Waits(dev, "in0") /\ StatusDue(dev)
    BY <1>4 DEF Sides, StageInv
  <2>2. hc.req.kind \in {"setAddress", "setConfiguration"} =>
          dev'.bd["in0"][dev'.pin].own /\ ~dev'.bd["in0"][dev'.pin].stall
    BY <1>1, <1>2, <1>3 DEF Sides, StageInv, Stage0
  <2>3. hc.req.kind = "setAddress" => dev'.state = "ADR_PENDING"
    BY <1>3 DEF Sides, StageInv
  <2>. QED BY <1>2, <1>4, <2>1, <2>2, <2>3 DEF StageInv
<1>11. HostInv'
  BY DEF Sides, HostInv
<1>. QED BY <1>5, <1>6, <1>7, <1>8, <1>9, <1>10, <1>11 DEF Sides

\* A millisecond.
LEMMA SidesFrame ==
  ASSUME DevInv(dev), Sides, StartOfFrame
  PROVE  Sides'
<1>1. Sane(dev) /\ Stage0(dev)
  BY DEF DevInv, Ep0Inv, Stage
<1>2. /\ Kept(dev, dev', SofFields)
      /\ \A q \in Pipes \ {"in0"} : dev'.bd[q] = dev.bd[q]
      /\ dev.flag1 => dev'.bd = dev.bd
      /\ dev.transfer # "RX" => dev'.bd = dev.bd
      /\ StatusDue(dev) => StatusDue(dev')
      /\ dev'.both = dev.both
  BY <1>1, SofEffect DEF StartOfFrame
<1>3. /\ dev'.config = dev.config /\ dev'.setup = dev.setup /\ dev'.pktDis = dev.pktDis
      /\ dev'.sie = dev.sie /\ dev'.stallIF = dev.stallIF /\ dev'.state = dev.state
      /\ dev'.address = dev.address /\ dev'.pin = dev.pin /\ dev'.ustat = dev.ustat
      /\ dev'.transfer = dev.transfer
  BY <1>2 DEF Kept, Fields, SofFields
<1>4. \A q \in Pipes1 : dev'.bd[q] = dev.bd[q]
  BY <1>2, Ep1Pipes
<1>5. hc' = hc /\ host' = host /\ attached' = attached /\ user' = user
  BY DEF StartOfFrame, Device, busVars, hidVars
<1>6. \A q \in Pipes : Waits(dev', q) <=> Waits(dev, q)
  BY <1>3 DEF Waits
<1>7. AttachedInv' /\ TransferInv' /\ HostInv'
  BY <1>3, <1>5, <1>6, Ep0Pipes DEF Sides, AttachedInv, TransferInv, Awake, HostInv
<1>8. AddressInv'
  BY <1>3, <1>5, <1>6, Ep0Pipes DEF Sides, AddressInv, Doing
<1>9. ConfigInv'
  BY <1>3, <1>4, <1>5 DEF Sides, ConfigInv, Doing, Turn
<1>10. ToggleInv'
  <2>1. hc.phase # "idle" => hc.req.pipe \in Pipes1
    BY LinkAssumption DEF Sides, TransferInv, Request
  <2>. QED BY <1>3, <1>4, <1>5, <2>1 DEF Sides, ToggleInv, Doing, Turn
<1>11. StageInv'
  <2>. SUFFICES ASSUME hc.phase \in {"in", "out", "statusIn"}, ~dev.pktDis
       PROVE  StageInv'
    BY <1>3, <1>5 DEF StageInv
  <2>1. /\ ~Waits(dev', "in0") => StatusDue(dev')
        /\ hc.phase \in {"out", "statusIn"} => ~Waits(dev', "in0")
    BY <1>2, <1>6, Ep0Pipes DEF Sides, StageInv
  <2>2. hc.phase = "in" =>
          /\ ~Waits(dev', "out0") /\ (Waits(dev', "in0") => dev'.both)
          /\ ~dev'.both => /\ dev'.transfer = "WAIT_SETUP"
                           /\ dev'.bd["in0"][dev'.pin].own /\ dev'.bd["in0"][dev'.pin].stall
    BY <1>2, <1>3, <1>6, Ep0Pipes DEF Sides, StageInv
  <2>3. hc.req.kind \in {"setAddress", "setConfiguration"} =>
          dev'.bd["in0"][dev'.pin].own /\ ~dev'.bd["in0"][dev'.pin].stall
    BY <1>1, <1>2, <1>3 DEF Sides, StageInv, Stage0
  <2>4. hc.req.kind = "setAddress" => dev'.state = "ADR_PENDING"
    BY <1>3 DEF Sides, StageInv
  <2>. QED BY <1>3, <1>5, <2>1, <2>2, <2>3, <2>4 DEF StageInv
<1>. QED BY <1>7, <1>8, <1>9, <1>10, <1>11 DEF Sides

\* The handler of a SETUP: the request the host has made is carried out, and the
\* device knows the new address, configuration or toggle before the host does.
LEMMA SidesServed ==
  ASSUME DevInv(dev), Turns(dev), Sides, hc' = hc, host' = host, attached' = attached, user' = user,
         dev.ustat # <<>>, dev.ustat[1].pipe = "out0", dev.bd["out0"][dev.ustat[1].b].setup,
         dev' = ServiceTransaction(dev)
  PROVE  Sides'
<1>1. Sane(dev) /\ Ep0Inv(dev)
  BY DEF DevInv, Ep0Inv
<1>2. /\ dev.pktDis /\ Len(dev.ustat) = 1 /\ Len(dev'.ustat) = 0 /\ ~dev'.pktDis
      /\ Kept(dev, dev', SetupFields \cup {"ustat", "timer", "cur", "next"})
      /\ Request1(dev, dev') /\ Replied(dev')
  BY <1>1, ServiceSetupPreserves
<1>3. /\ dev'.address = dev.address /\ dev'.setup = dev.setup /\ dev'.stallIF = dev.stallIF
      /\ dev.setup.pipe \in Pipes1
  BY <1>1, <1>2 DEF Kept, Fields, SetupFields, PrepareFields, ConfigFields, BusyFields, ServeFields,
                    Sane, Request
<1>4. (\A q \in Pipes : ~Waits(dev', q)) /\ ~Waits(dev, "in0") /\ (\A q \in Pipes1 : ~Waits(dev, q))
  BY <1>1, <1>2, Ep1Pipes DEF Waits
<1>5. hc.phase # "idle" => hc.req = dev.setup /\ hc.req.pipe \in Pipes1
  BY <1>3 DEF Sides, TransferInv
<1>. DEFINE k == dev.setup.kind
<1>6. k # "setConfiguration" =>
        /\ dev'.config = dev.config /\ dev'.sie = dev.sie
        /\ dev'.state = IF k = "setAddress" THEN "ADR_PENDING" ELSE dev.state
        /\ k \notin {"setHalt", "clearHalt"} => \A q \in Pipes1 : dev'.bd[q] = dev.bd[q]
  BY <1>2 DEF Request1, Same1
<1>7. k = "setConfiguration" =>
        /\ dev'.config = dev.setup.arg
        /\ dev'.state \in {"ADDRESS", "CONFIGURED"}
        /\ dev.setup.arg = 1 =>
             /\ dev'.state = "CONFIGURED"
             /\ \A p \in Pipes1 : Turn(dev', p).dts = 0
  <2>1. ASSUME k = "setConfiguration"
        PROVE  /\ dev'.config = dev.setup.arg /\ dev'.sie = [q \in Pipes |-> 0]
               /\ IF dev.setup.arg = 0 THEN dev'.state = "ADDRESS"
                  ELSE dev'.state = "CONFIGURED" /\ \A p \in Pipes1 : dev'.bd[p][0].dts = 0
    BY <1>2, <2>1 DEF Request1, Initialized
  <2>. QED BY <2>1, Ep1Pipes DEF Turn
<1>8. host.config = 1 /\ ~Doing("setConfiguration") =>
        k \notin {"setAddress", "setConfiguration"} /\ dev.state = "CONFIGURED" /\ dev.enabled
  BY <1>2, <1>5 DEF Sides, ConfigInv, AddressInv, Doing, DevInv, Ep1Inv
<1>9. dev.address = host.address
  BY <1>4 DEF Sides, AddressInv
<1>10. AttachedInv'
  BY <1>2 DEF Sides, AttachedInv
<1>11. TransferInv'
  BY <1>3, <1>6, <1>7 DEF Sides, TransferInv, Awake
<1>12. AddressInv'
  <2>1. dev'.state = "ADR_PENDING" => k = "setAddress"
    BY <1>6, <1>7 DEF Sides, AddressInv
  <2>2. k = "setAddress" =>
          host.address = 0 /\ (host.retry \/ hc.phase = "statusIn") /\ dev.setup.arg # 0
    BY <1>2 DEF Sides, AddressInv
  <2>3. host.retry \/ Doing("setAddress") => host.address = 0
    BY DEF Sides, AddressInv
  <2>. QED BY <1>2, <1>3, <1>4, <1>9, <2>1, <2>2, <2>3, Ep0Pipes DEF AddressInv, Doing
<1>13. ConfigInv'
  <2>1. (host.address = 0 => host.config = 0) /\ (Doing("setConfiguration") => host.address # 0)
    BY DEF Sides, ConfigInv
  <2>2. host.config = 1 /\ ~Doing("setConfiguration") => dev'.config = 1 /\ dev'.state = "CONFIGURED"
    BY <1>6, <1>8 DEF Sides, ConfigInv
  <2>3. Doing("setConfiguration") => k = "setConfiguration"
    BY <1>5 DEF Doing
  <2>. QED BY <1>2, <1>3, <1>7, <2>1, <2>2, <2>3 DEF ConfigInv, Doing
<1>14. ToggleInv'
  <2>1. ASSUME host.config = 1, ~Doing("setConfiguration"), NEW p \in Pipes1, ~host.halted[p]
        PROVE  Turn(dev', p).dts = host.toggle[p]
    <3>1. Turn(dev, p).dts = host.toggle[p]
      BY <2>1 DEF Sides, ToggleInv
    <3>2. k # "setConfiguration" /\ dev'.sie = dev.sie /\ dev.state = "CONFIGURED"
      BY <1>6, <1>8, <2>1
    <3>3. CASE p # dev.setup.pipe \/ k \notin {"setHalt", "clearHalt"}
      <4>1. dev'.bd[p] = dev.bd[p]
        BY <1>2, <3>2, <3>3 DEF Request1, Same1
      <4>. QED BY <3>1, <3>2, <4>1 DEF Turn
    <3>4. CASE p = dev.setup.pipe /\ k = "setHalt"
      <4>1. Halted1(dev, dev', p)
        BY <1>2, <3>2, <3>4 DEF Request1
      <4>2. \A x \in Bit : dev'.bd[p][x].dts = dev.bd[p][x].dts
        <5>1. dev.pp[p] \in Bit
          BY <1>1 DEF Sane
        <5>2. dev.pp[p] = 0 => 1 - dev.pp[p] = 1
          OBVIOUS
        <5>3. dev.pp[p] = 1 => 1 - dev.pp[p] = 0
          OBVIOUS
        <5>. QED BY <4>1, <5>1, <5>2, <5>3 DEF Halted1, Bit
      <4>3. dev.sie[p] \in Bit
        BY <1>1, Ep1Pipes DEF Sane
      <4>. QED BY <3>1, <3>2, <4>2, <4>3 DEF Turn
    <3>5. CASE p = dev.setup.pipe /\ k = "clearHalt"
      BY <1>2, <2>1, <3>5 DEF Sides, ToggleInv
    <3>. QED BY <3>3, <3>4, <3>5
  <2>2. ASSUME Doing("clearHalt")
        PROVE  /\ host.config = 1 /\ host.halted[hc.req.pipe]
               /\ Turn(dev', hc.req.pipe).dts = 0
    <3>. DEFINE p == dev.setup.pipe
    <3>1. hc.req.pipe = p /\ p \in Pipes1 /\ k = "clearHalt"
      BY <1>3, <1>5, <2>2 DEF Doing
    <3>2. host.config = 1 /\ host.halted[p]
      BY <2>2, <3>1 DEF Sides, ToggleInv
    <3>3. dev.state = "CONFIGURED" /\ dev.enabled
      BY <1>8, <2>2, <3>2 DEF Doing
    <3>4. Cleared1(dev, dev', p) /\ dev'.sie = dev.sie
      BY <1>2, <3>1, <3>3 DEF Request1
    <3>5. dev.sie[p] = dev.pp[p]
      BY <1>4, <3>1, <3>3 DEF Turns, Turns1
    <3>. QED BY <3>1, <3>2, <3>4, <3>5 DEF Cleared1, Turn
  <2>. QED BY <1>2, <2>1, <2>2 DEF ToggleInv, Doing
<1>15. StageInv'
  <2>. SUFFICES ASSUME hc.phase \in {"in", "out", "statusIn"}
       PROVE  StageInv'
    BY DEF StageInv
  <2>1. hc.req = dev'.setup
    BY <1>3, <1>5
  <2>2. StatusDue(dev')
    BY <1>2 DEF Replied, StatusDue
  <2>3. hc.phase = "in" => ToHost(dev'.setup)
    BY <2>1 DEF Sides, TransferInv
  <2>4. hc.phase = "in" /\ ~dev'.both =>
          /\ dev'.transfer = "WAIT_SETUP"
          /\ dev'.bd["in0"][dev'.pin].own /\ dev'.bd["in0"][dev'.pin].stall
    BY <1>2, <2>3 DEF Replied
  <2>5. hc.req.kind \in {"setAddress", "setConfiguration"} =>
          dev'.bd["in0"][dev'.pin].own /\ ~dev'.bd["in0"][dev'.pin].stall
    BY <1>2, <2>1 DEF Replied
  <2>6. hc.req.kind = "setAddress" => dev'.state = "ADR_PENDING"
    BY <1>3, <1>6, <2>1
  <2>. QED BY <1>4, <2>2, <2>4, <2>5, <2>6, Ep0Pipes DEF StageInv
<1>16. HostInv'
  BY DEF Sides, HostInv
<1>. QED BY <1>10, <1>11, <1>12, <1>13, <1>14, <1>15, <1>16 DEF Sides

\* The interrupt handler, whatever it serves, and the start of a frame.
LEMMA SidesHandler ==
  ASSUME DevInv(dev), Turns(dev), Sides, Interrupt \/ StartOfFrame
  PROVE  Sides'
<1>1. CASE StartOfFrame
  BY <1>1, SidesFrame
<1>2. CASE Interrupt
  <2>1. hc' = hc /\ host' = host /\ attached' = attached /\ user' = user
    BY <1>2 DEF Interrupt, Device, busVars, hidVars
  <2>2. CASE dev.state = "ATTACHED" /\ dev' = [dev EXCEPT !.state = "POWERED"]
    BY <2>1, <2>2, SidesInterrupt
  <2>3. CASE dev.stallIF /\ dev' = ServiceStall(dev)
    BY <2>1, <2>3, SidesInterrupt
  <2>4. CASE dev.ustat # <<>> /\ dev' = ServiceTransaction(dev)
    <3>1. dev.ustat[1].pipe \in Pipes1 \cup {"in0", "out0"}
      <4>1. dev.ustat \in Seq(Entry) /\ dev.ustat # <<>>
        BY <2>4 DEF DevInv, Ep0Inv, Sane
      <4>2. dev.ustat[1] \in Entry
        BY <4>1
      <4>. QED BY <4>2 DEF Entry, Pipes
    <3>2. CASE dev.ustat[1].pipe \in Pipes1
      BY <2>1, <2>4, <3>2, SidesInterrupt
    <3>3. CASE dev.ustat[1].pipe = "in0"
      BY <2>1, <2>4, <3>3, SidesIn0
    <3>4. CASE dev.ustat[1].pipe = "out0" /\ dev.bd["out0"][dev.ustat[1].b].setup
      BY <2>1, <2>4, <3>4, SidesServed
    <3>5. CASE dev.ustat[1].pipe = "out0" /\ ~dev.bd["out0"][dev.ustat[1].b].setup
      BY <2>1, <2>4, <3>5, SidesOut0
    <3>. QED BY <3>1, <3>2, <3>3, <3>4, <3>5
  <2>. QED BY <1>2, <2>2, <2>3, <2>4 DEF Interrupt
<1>. QED BY <1>1, <1>2

\* A transaction of endpoint 0 leaves the toggles of endpoint 1 alone.
LEMMA TurnApart ==
  ASSUME NEW d, Sane(d), NEW e, NEW p \in {"in0", "out0"}, CompletedDone(d, e, p)
  PROVE  \A q \in Pipes1 : Turn(e, q).dts = Turn(d, q).dts
<1>. SUFFICES ASSUME NEW q \in Pipes1 PROVE Turn(e, q).dts = Turn(d, q).dts
  OBVIOUS
<1>1. q \in Pipes \ {p} /\ p \in Pipes
  BY Ep1Pipes, Ep0Pipes
<1>2. d.sie \in [Pipes -> Bit]
  BY DEF Sane
<1>3. e.sie[q] = d.sie[q] /\ e.bd[q] = d.bd[q]
  BY <1>1, <1>2 DEF CompletedDone
<1>. QED BY <1>3 DEF Turn

\* The host starts a request; which one it may be is what it believes.
LEMMA SidesSetup ==
  ASSUME DevInv(dev), Sides, NEW req \in Requests, Setup(req)
  PROVE  Sides'
<1>1. Sane(dev)
  BY DEF DevInv, Ep0Inv
<1>2. /\ Kept(dev, dev', {"bd", "sie", "ustat", "setup", "pktDis"})
      /\ CompletedDone(dev, dev', "out0") /\ dev'.pktDis /\ dev'.setup = req
  BY ControlEffect
<1>3. /\ dev'.state = dev.state /\ dev'.address = dev.address /\ dev'.config = dev.config
  BY <1>2 DEF Kept, Fields
<1>4. Waits(dev', "in0") <=> Waits(dev, "in0")
  BY <1>1, <1>2, CompletedWaits, Ep0Pipes
<1>5. \A p \in Pipes1 : Turn(dev', p).dts = Turn(dev, p).dts
  BY <1>1, <1>2, TurnApart
<1>6. /\ hc.phase = "idle" /\ user = "closed" /\ user' = user /\ attached' = attached
      /\ Awake(dev) /\ dev.address = host.address
      /\ Legal(req) \/ Halting(req)
  BY DEF Setup, Legal, Halting, TakesSetup, Listens, Awake, hidVars
<1>7. /\ hc'.phase = FirstPhase(req) /\ hc'.req = req
      /\ DOMAIN hc' = {"phase", "req", "toggle", "got"}
  BY DEF Setup, NoTransfer
<1>8. /\ hc'.phase \in {"in", "out", "statusIn"}
      /\ hc'.phase = "in" => ToHost(req)
      /\ hc'.phase = "out" => ~ToHost(req)
      /\ req.kind \in {"setAddress", "setConfiguration"} => hc'.phase = "statusIn"
  <2>1. req.len \in Nat
    BY LinkAssumption DEF Request
  <2>2. req.kind \in {"setAddress", "setConfiguration"} => req.len = 0
    BY RequestAssumption
  <2>. QED BY <1>7, <2>1, <2>2 DEF FirstPhase
<1>9. req.pipe \in Pipes1 /\ req.arg \in Nat /\ (req.kind = "setAddress" => req.arg # 0)
  BY LinkAssumption, RequestAssumption DEF Request
<1>10. /\ host'.address = host.address /\ host'.config = host.config /\ host'.retry = host.retry
       /\ host'.toggle = host.toggle /\ DOMAIN host' = DOMAIN host
       /\ host'.halted \in [Pipes1 -> BOOLEAN]
       /\ \A p \in Pipes1 : host.halted[p] => host'.halted[p]
       /\ req.kind = "clearHalt" => host'.halted[req.pipe]
  BY <1>9 DEF Setup, Sides, HostInv
<1>11. host.address = 0 => host.config = 0
  BY DEF Sides, ConfigInv
<1>12. /\ host.retry => host.address = 0
       /\ req.kind = "setAddress" => host.address = 0
       /\ req.kind = "setConfiguration" => host.address # 0
       /\ host.retry => req.kind = "setAddress"
       /\ req.kind = "clearHalt" => host.config = 1
  <2>1. host.retry => host.address = 0
    BY DEF Sides, AddressInv
  <2>2. CASE Legal(req)
    BY <2>1, <2>2 DEF Legal
  <2>3. CASE Halting(req)
    BY <1>11, <2>1, <2>3 DEF Halting
  <2>. QED BY <1>6, <2>1, <2>2, <2>3
<1>13. AttachedInv'
  BY <1>6 DEF Sides, AttachedInv
<1>14. TransferInv'
  BY <1>2, <1>3, <1>6, <1>7, <1>8 DEF TransferInv, Awake
<1>15. AddressInv'
  <2>1. dev.state = "ADR_PENDING" => ~Waits(dev, "in0") /\ host.retry /\ dev.address = 0
    BY <1>6 DEF Sides, AddressInv
  <2>. QED BY <1>2, <1>3, <1>4, <1>6, <1>7, <1>8, <1>9, <1>10, <1>12, <2>1 DEF AddressInv, Doing
<1>16. ConfigInv'
  <2>1. host.config = 1 => dev.config = 1 /\ dev.state = "CONFIGURED"
    BY <1>6 DEF Sides, ConfigInv, Doing
  <2>. QED BY <1>2, <1>3, <1>7, <1>8, <1>10, <1>11, <1>12, <2>1 DEF ConfigInv, Doing
<1>17. ToggleInv'
  <2>1. host.config = 1 => \A p \in Pipes1 : ~host.halted[p] => Turn(dev, p).dts = host.toggle[p]
    BY <1>6 DEF Sides, ToggleInv, Doing
  <2>2. host.config = 1 => \A p \in Pipes1 : ~host'.halted[p] => Turn(dev', p).dts = host'.toggle[p]
    BY <1>5, <1>10, <2>1
  <2>. QED BY <1>2, <1>7, <1>10, <1>12, <2>2 DEF ToggleInv, Doing
<1>18. StageInv'
  BY <1>2 DEF StageInv
<1>19. HostInv'
  BY <1>7, <1>10 DEF Sides, HostInv
<1>. QED BY <1>13, <1>14, <1>15, <1>16, <1>17, <1>18, <1>19 DEF Sides

\* A transfer that is over, well or not, and what the host concludes from it.
LEMMA SidesOver ==
  ASSUME DevInv(dev), Sides, Refused \/ StatusOut \/ GivesUp
  PROVE  Sides'
<1>1. Sane(dev) /\ Ep0Inv(dev)
  BY DEF DevInv, Ep0Inv
<1>2. hc.phase # "idle" /\ hc' = NoTransfer /\ attached' = attached /\ user' = user
  BY DEF Refused, StatusOut, GivesUp, hidVars
<1>3. /\ dev'.state = dev.state /\ dev'.address = dev.address /\ dev'.config = dev.config
      /\ dev'.setup = dev.setup /\ dev'.pktDis = dev.pktDis
      /\ \A p \in Pipes1 : Turn(dev', p).dts = Turn(dev, p).dts
      /\ Waits(dev', "in0") <=> Waits(dev, "in0")
      /\ ~GivesUp => ~dev.pktDis
  <2>1. CASE dev' = dev /\ (~GivesUp => ~dev.pktDis)
    BY <2>1
  <2>2. CASE Refused
    <3>1. Kept(dev, dev', {"stallIF"}) /\ ~dev.pktDis
      BY <2>2, ControlEffect
    <3>. QED BY <3>1 DEF Kept, Fields, Turn, Waits
  <2>3. CASE StatusOut /\ dev' # dev
    <3>1. Kept(dev, dev', {"bd", "sie", "ustat"}) /\ CompletedDone(dev, dev', "out0") /\ ~dev.pktDis
      BY <2>3, ControlEffect DEF Free
    <3>2. \A p \in Pipes1 : Turn(dev', p).dts = Turn(dev, p).dts
      BY <1>1, <3>1, TurnApart
    <3>3. Waits(dev', "in0") <=> Waits(dev, "in0")
      BY <1>1, <3>1, CompletedWaits, Ep0Pipes
    <3>. QED BY <3>1, <3>2, <3>3 DEF Kept, Fields
  <2>4. StatusOut => ~dev.pktDis
    BY ControlEffect DEF Free
  <2>5. GivesUp => dev' = dev
    BY DEF GivesUp
  <2>. QED BY <2>1, <2>2, <2>3, <2>4, <2>5
<1>4. hc.req = dev.setup /\ ~attached
  BY <1>2 DEF Sides, TransferInv, AttachedInv
<1>5. ~GivesUp => hc.req.kind \notin {"setAddress", "setConfiguration"}
  <2>1. CASE StatusOut
    BY <2>1, StackAssumption DEF Sides, TransferInv, StatusOut, ToHost, Reads
  <2>2. CASE Refused /\ hc.req.kind \in {"setAddress", "setConfiguration"}
    <3>1. hc.phase = "statusIn" /\ Stalls(dev, host.address, "in0")
      BY <2>2 DEF Sides, TransferInv, Refused
    <3>2. /\ ~Waits(dev, "in0")
          /\ dev.bd["in0"][dev.pin].own /\ ~dev.bd["in0"][dev.pin].stall
      BY <2>2, <3>1 DEF Sides, StageInv, Stalls, Listens
    <3>3. dev.sie["in0"] = dev.pin
      BY <1>1, <3>2 DEF Ep0Inv, InTurn
    <3>. QED BY <3>1, <3>2, <3>3 DEF Stalls, Turn
  <2>. QED BY <2>1, <2>2
<1>6. /\ host'.address = host.address /\ host'.toggle = host.toggle /\ host'.halted = host.halted
      /\ host'.retry \in BOOLEAN /\ DOMAIN host' = DOMAIN host
      /\ host'.retry <=> host.retry \/ (GivesUp /\ hc.req.kind = "setAddress")
      /\ host'.config = IF GivesUp /\ hc.req.kind = "setConfiguration" THEN 0 ELSE host.config
  <2>1. CASE GivesUp
    BY <2>1 DEF GivesUp, Sides, HostInv
  <2>2. CASE ~GivesUp
    <3>1. host' = host
      BY <2>2 DEF Refused, StatusOut
    <3>. QED BY <2>2, <3>1 DEF Sides, HostInv
  <2>. QED BY <2>1, <2>2
<1>7. hc'.phase = "idle" /\ DOMAIN hc' = {"phase", "req", "toggle", "got"}
  BY <1>2 DEF NoTransfer
<1>8. AttachedInv' /\ TransferInv' /\ StageInv'
  BY <1>2, <1>4, <1>7 DEF AttachedInv, TransferInv, StageInv
<1>9. AddressInv'
  <2>1. dev.state = "ADR_PENDING" =>
          /\ GivesUp /\ hc.req.kind = "setAddress" /\ ~Waits(dev, "in0") /\ host.address = 0
          /\ dev.setup.kind = "setAddress" /\ dev.setup.arg # 0 /\ dev.address = 0
    BY <1>2, <1>4, <1>5 DEF Sides, AddressInv
  <2>2. dev.address = host.address
    BY <1>2 DEF Sides, AddressInv
  <2>3. (host.retry \/ hc.req.kind = "setAddress") => host.address = 0
    BY <1>2 DEF Sides, AddressInv, Doing
  <2>4. dev.pktDis /\ dev.setup.kind = "setAddress" =>
          host.address = 0 /\ host'.retry /\ dev.setup.arg # 0
    BY <1>2, <1>3, <1>4, <1>6 DEF Sides, AddressInv
  <2>. QED BY <1>3, <1>6, <1>7, <2>1, <2>2, <2>3, <2>4 DEF AddressInv, Doing
<1>10. ConfigInv'
  BY <1>2, <1>3, <1>4, <1>5, <1>6, <1>7 DEF Sides, ConfigInv, Doing
<1>11. ToggleInv'
  BY <1>2, <1>3, <1>4, <1>5, <1>6, <1>7 DEF Sides, ToggleInv, Doing
<1>12. HostInv'
  BY <1>6, <1>7 DEF Sides, HostInv
<1>. QED BY <1>8, <1>9, <1>10, <1>11, <1>12 DEF Sides

\* A packet of a data stage.
LEMMA SidesData ==
  ASSUME DevInv(dev), Sides, DataIn \/ DataOut
  PROVE  Sides'
<1>1. Sane(dev) /\ Ep0Inv(dev)
  BY DEF DevInv, Ep0Inv
<1>2. /\ hc.phase \in {"in", "out"} /\ host' = host /\ attached' = attached /\ user' = user
      /\ hc'.req = hc.req /\ hc'.phase # "idle" /\ DOMAIN hc' = DOMAIN hc
      /\ hc.phase = "in" => hc'.phase \in {"in", "statusOut"}
      /\ hc.phase = "out" => hc'.phase \in {"out", "statusIn"}
      /\ hc.phase = "in" => DataIn
      /\ hc.phase = "out" => DataOut
  BY DEF DataIn, DataOut, hidVars, Sides, HostInv
<1>3. /\ hc.req \in Requests /\ dev.setup = hc.req /\ user = "closed" /\ Awake(dev)
      /\ hc.req.kind \notin {"setAddress", "setConfiguration"}
      /\ hc.phase = "in" <=> ToHost(hc.req)
      /\ ~attached
  BY <1>2 DEF Sides, TransferInv, AttachedInv
<1>4. /\ ~dev.pktDis
      /\ \/ dev' = dev
         \/ /\ Kept(dev, dev', {"bd", "sie", "ustat"})
            /\ \E p \in {"in0", "out0"} : CompletedDone(dev, dev', p)
  BY <1>2, ControlEffect DEF Free
<1>5. /\ dev'.state = dev.state /\ dev'.address = dev.address /\ dev'.config = dev.config
      /\ dev'.setup = dev.setup /\ dev'.pktDis = dev.pktDis /\ dev'.transfer = dev.transfer
      /\ dev'.pin = dev.pin /\ dev'.flag1 = dev.flag1 /\ dev'.both = dev.both
  BY <1>4 DEF Kept, Fields
<1>6. \A p \in Pipes1 : Turn(dev', p).dts = Turn(dev, p).dts
  BY <1>1, <1>4, TurnApart
<1>8. AttachedInv' /\ HostInv'
  BY <1>2, <1>3 DEF AttachedInv, Sides, HostInv
<1>9. TransferInv'
  BY <1>2, <1>3, <1>5 DEF TransferInv, Awake
<1>10. AddressInv'
  <2>1. dev.state # "ADR_PENDING" /\ dev.address = host.address /\ (host.retry => host.address = 0)
    BY <1>2, <1>3 DEF Sides, AddressInv
  <2>. QED BY <1>2, <1>3, <1>4, <1>5, <2>1 DEF AddressInv, Doing
<1>11. ConfigInv'
  BY <1>2, <1>3, <1>4, <1>5 DEF Sides, ConfigInv, Doing
<1>12. ToggleInv'
  <2>1. hc.req.pipe \in Pipes1
    BY <1>3, LinkAssumption DEF Request
  <2>. QED BY <1>2, <1>3, <1>4, <1>5, <1>6, <2>1 DEF Sides, ToggleInv, Doing
<1>13. StageInv'
  <2>1. CASE hc.phase = "in"
    <3>1. CompletedDone(dev, dev', "in0") /\ Free(dev, "in0")
      BY <1>2, <2>1, ControlEffect
    <3>2. Waits(dev', "in0") /\ (Waits(dev', "out0") <=> Waits(dev, "out0"))
      BY <1>1, <3>1, CompletedWaits, Ep0Pipes
    <3>3. ~Waits(dev, "out0")
      BY <1>4, <2>1 DEF Sides, StageInv
    <3>4. dev.both
      <4>1. SUFFICES ASSUME ~dev.both PROVE FALSE
        OBVIOUS
      <4>2. dev.bd["in0"][dev.pin].stall
        BY <1>4, <2>1, <4>1 DEF Sides, StageInv
      <4>3. dev.sie["in0"] \in Bit /\ dev.bd["in0"][dev.sie["in0"]].own
        BY <1>1, <3>1, Ep0Pipes DEF Free, Sane
      <4>4. dev.sie["in0"] = dev.pin
        BY <1>1, <4>3 DEF Ep0Inv, InTurn, Bit
      <4>. QED BY <3>1, <4>2, <4>4 DEF Free
    <3>. QED BY <1>2, <1>3, <1>5, <2>1, <3>2, <3>3, <3>4 DEF StageInv
  <2>2. CASE hc.phase = "out"
    <3>1. dev' = dev \/ CompletedDone(dev, dev', "out0")
      BY <1>2, <2>2, ControlEffect
    <3>2. (Waits(dev', "in0") <=> Waits(dev, "in0")) /\ dev'.bd["in0"] = dev.bd["in0"]
      <4>1. CASE dev' = dev
        BY <4>1
      <4>2. CASE CompletedDone(dev, dev', "out0")
        <5>1. Waits(dev', "in0") <=> Waits(dev, "in0")
          BY <1>1, <4>2, CompletedWaits, Ep0Pipes
        <5>2. "in0" \in Pipes \ {"out0"}
          BY Ep0Pipes
        <5>. QED BY <4>2, <5>1, <5>2 DEF CompletedDone
      <4>. QED BY <3>1, <4>1, <4>2
    <3>3. ~Waits(dev, "in0") /\ StatusDue(dev)
      BY <1>4, <2>2 DEF Sides, StageInv
    <3>4. StatusDue(dev')
      BY <1>5, <3>2, <3>3 DEF StatusDue
    <3>. QED BY <1>2, <1>3, <2>2, <3>2, <3>3, <3>4 DEF StageInv
  <2>. QED BY <1>2, <2>1, <2>2
<1>. QED BY <1>8, <1>9, <1>10, <1>11, <1>12, <1>13 DEF Sides

\* The status stage of a write, or of a request without data: the host concludes
\* what the device has known since the SETUP.
LEMMA SidesStatus ==
  ASSUME DevInv(dev), Sides, StatusIn
  PROVE  Sides'
<1>1. Sane(dev) /\ Ep0Inv(dev)
  BY DEF DevInv, Ep0Inv
<1>2. /\ hc.phase = "statusIn" /\ hc' = NoTransfer /\ host' = Concluded(hc.req)
      /\ attached' = attached /\ user' = user
  BY DEF StatusIn, hidVars
<1>3. /\ hc.req \in Requests /\ dev.setup = hc.req /\ user = "closed" /\ Awake(dev) /\ ~attached
      /\ hc.req.pipe \in Pipes1
  BY <1>2, LinkAssumption DEF Sides, TransferInv, AttachedInv, Request
<1>4. /\ ~dev.pktDis /\ Kept(dev, dev', {"bd", "sie", "ustat"}) /\ CompletedDone(dev, dev', "in0")
  BY ControlEffect DEF Free
<1>5. /\ dev'.state = dev.state /\ dev'.address = dev.address /\ dev'.config = dev.config
      /\ dev'.setup = dev.setup /\ dev'.pktDis = dev.pktDis
  BY <1>4 DEF Kept, Fields
<1>6. \A p \in Pipes1 : Turn(dev', p).dts = Turn(dev, p).dts
  BY <1>1, <1>4, TurnApart
<1>7. Waits(dev', "in0") /\ ~Waits(dev, "in0")
  BY <1>1, <1>2, <1>4, CompletedWaits, Ep0Pipes DEF Sides, StageInv
<1>8. hc'.phase = "idle" /\ DOMAIN hc' = {"phase", "req", "toggle", "got"}
  BY <1>2 DEF NoTransfer
<1>9. AttachedInv' /\ TransferInv' /\ StageInv'
  BY <1>2, <1>3, <1>8 DEF AttachedInv, TransferInv, StageInv
<1>10. DOMAIN host = {"address", "config", "retry", "toggle", "halted"}
       /\ host.toggle \in [Pipes1 -> Bit] /\ host.halted \in [Pipes1 -> BOOLEAN]
       /\ host.retry \in BOOLEAN
  BY DEF Sides, HostInv
<1>11. CASE hc.req.kind = "setAddress"
  <2>1. /\ host'.address = hc.req.arg /\ host'.retry = FALSE /\ host'.config = host.config
        /\ host'.toggle = host.toggle /\ host'.halted = host.halted /\ DOMAIN host' = DOMAIN host
    BY <1>2, <1>10, <1>11 DEF Concluded
  <2>2. dev.state = "ADR_PENDING"
    BY <1>2, <1>4, <1>11 DEF Sides, StageInv
  <2>3. dev.address = 0 /\ dev.setup.arg # 0
    BY <2>2 DEF Sides, AddressInv
  <2>4. host.config = 0
    BY <1>2, <1>11 DEF Sides, AddressInv, ConfigInv, Doing
  <2>5. AddressInv'
    BY <1>3, <1>4, <1>5, <1>7, <1>8, <1>11, <2>1, <2>2, <2>3 DEF AddressInv, Doing
  <2>6. ConfigInv'
    BY <1>4, <1>5, <1>8, <2>1, <2>4 DEF ConfigInv, Doing
  <2>7. ToggleInv'
    BY <1>4, <1>5, <1>8, <2>1, <2>4 DEF ToggleInv, Doing
  <2>8. HostInv'
    BY <1>8, <1>10, <2>1 DEF HostInv
  <2>. QED BY <1>9, <2>5, <2>6, <2>7, <2>8 DEF Sides
<1>12. CASE hc.req.kind # "setAddress"
  <2>1. dev.state # "ADR_PENDING" /\ dev.address = host.address /\ (host.retry => host.address = 0)
    BY <1>2, <1>3, <1>7, <1>12 DEF Sides, AddressInv
  <2>2. CASE hc.req.kind = "setConfiguration"
    <3>1. /\ host'.address = host.address /\ host'.config = hc.req.arg /\ host'.retry = FALSE
          /\ host'.toggle = [p \in Pipes1 |-> 0] /\ host'.halted = [p \in Pipes1 |-> FALSE]
          /\ DOMAIN host' = {"address", "config", "retry", "toggle", "halted"}
      BY <1>2, <2>2 DEF Concluded, Unaddressed
    <3>2. host.address # 0
      BY <1>2, <2>2 DEF Sides, ConfigInv, Doing
    <3>3. hc.req.arg = 1 =>
            /\ dev.config = 1 /\ dev.state = "CONFIGURED"
            /\ \A p \in Pipes1 : Turn(dev, p).dts = 0
      BY <1>2, <1>3, <1>4, <2>2 DEF Sides, ConfigInv, Doing
    <3>4. AddressInv'
      BY <1>4, <1>5, <1>8, <2>1, <3>1 DEF AddressInv, Doing
    <3>5. ConfigInv'
      BY <1>4, <1>5, <1>8, <3>1, <3>2, <3>3 DEF ConfigInv, Doing
    <3>6. ToggleInv'
      BY <1>4, <1>5, <1>6, <1>8, <3>1, <3>3 DEF ToggleInv, Doing
    <3>7. HostInv'
      BY <1>8, <3>1 DEF HostInv, Bit
    <3>. QED BY <1>9, <3>4, <3>5, <3>6, <3>7 DEF Sides
  <2>3. CASE hc.req.kind # "setConfiguration"
    <3>1. /\ host'.address = host.address /\ host'.config = host.config /\ host'.retry = host.retry
          /\ DOMAIN host' = DOMAIN host
          /\ host'.toggle \in [Pipes1 -> Bit] /\ host'.halted \in [Pipes1 -> BOOLEAN]
          /\ \A p \in Pipes1 :
               \/ host'.halted[p] = host.halted[p] /\ host'.toggle[p] = host.toggle[p]
               \/ hc.req.kind = "clearHalt" /\ p = hc.req.pipe /\ host'.toggle[p] = 0
      <4>1. CASE hc.req.kind = "clearHalt"
        BY <1>2, <1>3, <1>10, <4>1 DEF Concluded, Bit
      <4>2. CASE hc.req.kind # "clearHalt"
        <5>1. host' = host
          BY <1>2, <1>12, <2>3, <4>2 DEF Concluded
        <5>. QED BY <1>10, <5>1
      <4>. QED BY <4>1, <4>2
    <3>2. hc.req.kind = "clearHalt" => host.config = 1 /\ Turn(dev, hc.req.pipe).dts = 0
      BY <1>2, <1>4 DEF Sides, ToggleInv, Doing
    <3>3. host.config = 1 =>
            /\ dev.config = 1 /\ dev.state = "CONFIGURED"
            /\ \A p \in Pipes1 : ~host.halted[p] => Turn(dev, p).dts = host.toggle[p]
      BY <2>3 DEF Sides, ConfigInv, ToggleInv, Doing
    <3>4. host.address = 0 => host.config = 0
      BY DEF Sides, ConfigInv
    <3>5. AddressInv'
      BY <1>4, <1>5, <1>8, <2>1, <3>1 DEF AddressInv, Doing
    <3>6. ConfigInv'
      BY <1>4, <1>5, <1>8, <3>1, <3>3, <3>4 DEF ConfigInv, Doing
    <3>7. ToggleInv'
      <4>1. host.config = 1 =>
              \A p \in Pipes1 : ~host'.halted[p] => Turn(dev', p).dts = host'.toggle[p]
        BY <1>6, <3>1, <3>2, <3>3
      <4>. QED BY <1>4, <1>5, <1>8, <3>1, <4>1 DEF ToggleInv, Doing
    <3>8. HostInv'
      BY <1>8, <1>10, <3>1 DEF HostInv
    <3>. QED BY <1>9, <3>5, <3>6, <3>7, <3>8 DEF Sides
  <2>. QED BY <2>2, <2>3
<1>. QED BY <1>11, <1>12

\* A report moves: the toggles of both sides go on.
LEMMA SidesReport ==
  ASSUME DevInv(dev), Turns(dev), Sides, ReportOut \/ ReportIn
  PROVE  /\ Sides'
         /\ \A p \in Pipes1 : (IF ReportOut THEN p = "out1" ELSE p = "in1") =>
              Turn(dev, p).dts = host.toggle[p]
<1>. DEFINE p == IF ReportOut THEN "out1" ELSE "in1"
<1>1. Sane(dev) /\ p \in Pipes1 /\ Pipes1 = {"in1", "out1"}
  BY Ep1Pipes DEF DevInv, Ep0Inv
<1>2. attached /\ host.config = 1 /\ ~host.halted[p] /\ dev.enabled /\ hc' = hc
  BY DEF ReportOut, ReportIn, Usable
<1>3. hc.phase = "idle" /\ user # "closed" /\ ~host.retry
  BY <1>2 DEF Sides, AttachedInv
<1>4. Turn(dev, p).dts = host.toggle[p]
  BY <1>1, <1>2, <1>3 DEF Sides, ToggleInv, Doing
<1>5. /\ Sane(dev') /\ Kept(dev, dev', {"bd", "sie", "ustat", "rx", "tx", "fresh"})
      /\ CompletedDone(dev, dev', p) /\ Free(dev, p)
      /\ p # "out1" => dev'.fresh = dev.fresh
  <2>1. CASE ReportOut
    <3>1. ~Repeated(dev, "out1", host.toggle["out1"])
      BY <1>4, <2>1 DEF Repeated
    <3>2. /\ Sane(dev') /\ Kept(dev, dev', {"bd", "sie", "ustat", "rx", "fresh"})
          /\ CompletedDone(dev, dev', "out1") /\ Free(dev, "out1")
      BY <2>1, <3>1, ReportOutEffect
    <3>. QED BY <2>1, <3>2 DEF Kept
  <2>2. CASE ~ReportOut
    <3>1. /\ Sane(dev') /\ Kept(dev, dev', {"bd", "sie", "ustat", "tx"})
          /\ CompletedDone(dev, dev', "in1") /\ Free(dev, "in1")
      BY <2>2, ReportInEffect
    <3>. QED BY <2>2, <3>1 DEF Kept, Fields
  <2>. QED BY <2>1, <2>2
<1>6. /\ DOMAIN host' = DOMAIN host /\ host'.address = host.address /\ host'.config = host.config
      /\ host'.retry = host.retry /\ host'.halted = host.halted
      /\ host'.toggle = [host.toggle EXCEPT ![p] = 1 - host.toggle[p]]
      /\ user' # "closed" /\ attached' = attached
  <2>1. DOMAIN host = {"address", "config", "retry", "toggle", "halted"}
    BY DEF Sides, HostInv
  <2>2. CASE ReportOut
    BY <2>1, <2>2 DEF ReportOut, WriteReturns
  <2>3. CASE ~ReportOut
    <3>1. Turn(dev, "in1").dts = host.toggle["in1"]
      BY <1>4, <2>3
    <3>. QED BY <1>3, <2>1, <2>3, <3>1 DEF ReportIn, Arrives
  <2>. QED BY <2>2, <2>3
<1>. HIDE DEF p
<1>7. /\ dev'.state = dev.state /\ dev'.address = dev.address /\ dev'.config = dev.config
      /\ dev'.setup = dev.setup /\ dev'.pktDis = dev.pktDis /\ dev'.stallIF = dev.stallIF
  BY <1>5 DEF Kept, Fields
<1>8. \A q \in {"in0", "out0"} : Waits(dev', q) <=> Waits(dev, q)
  BY <1>1, <1>5, CompletedWaits, Ep1Pipes, Ep0Pipes
<1>9. Turn(dev', p).dts = 1 - Turn(dev, p).dts
  <2>1. Armed(dev, p, dev.sie[p])
    BY <1>5 DEF Free, Armed
  <2>2. Sane(dev) /\ Turns(dev) /\ dev.enabled /\ p \in Pipes1
    BY <1>1, <1>2
  <2>3. /\ Sane(dev') /\ Kept(dev, dev', {"bd", "sie", "ustat", "rx", "tx", "fresh"})
        /\ CompletedDone(dev, dev', p) /\ (p # "out1" => dev'.fresh = dev.fresh)
    BY <1>5
  <2>4. dev'.bd[p][dev'.sie[p]].dts = 1 - dev.bd[p][dev.sie[p]].dts
    BY <2>1, <2>2, <2>3, CompletedTurns1
  <2>. QED BY <2>4 DEF Turn
<1>10. ASSUME NEW q \in Pipes1, q # p PROVE Turn(dev', q) = Turn(dev, q)
  <2>1. q \in Pipes /\ p \in Pipes /\ dev.sie \in [Pipes -> Bit]
    BY <1>1, Ep1Pipes DEF Sane
  <2>2. dev'.sie[q] = dev.sie[q] /\ dev'.bd[q] = dev.bd[q]
    BY <1>5, <1>10, <2>1 DEF CompletedDone
  <2>. QED BY <2>2 DEF Turn
<1>11. AttachedInv'
  BY <1>2, <1>3, <1>6, <1>7, <1>8 DEF Sides, AttachedInv
<1>12. TransferInv' /\ StageInv'
  BY <1>2, <1>3 DEF TransferInv, StageInv
<1>13. AddressInv'
  BY <1>2, <1>3, <1>6, <1>7, <1>8 DEF Sides, AddressInv, Doing
<1>14. ConfigInv'
  BY <1>2, <1>3, <1>6, <1>7 DEF Sides, ConfigInv, Doing
<1>15. host.toggle \in [Pipes1 -> Bit] /\ host'.toggle \in [Pipes1 -> Bit]
  <2>1. host.toggle \in [Pipes1 -> Bit]
    BY DEF Sides, HostInv
  <2>2. 1 - host.toggle[p] \in Bit
    BY <1>1, <2>1 DEF Bit
  <2>. QED BY <1>6, <2>1, <2>2
<1>16. ToggleInv'
  <2>1. ASSUME NEW q \in Pipes1, ~host.halted[q]
        PROVE  Turn(dev', q).dts = host'.toggle[q]
    <3>1. CASE q = p
      BY <1>1, <1>4, <1>6, <1>9, <1>15, <3>1
    <3>2. CASE q # p
      <4>1. Turn(dev, q).dts = host.toggle[q]
        BY <1>2, <1>3, <2>1 DEF Sides, ToggleInv, Doing
      <4>. QED BY <1>6, <1>10, <1>15, <3>2, <4>1
    <3>. QED BY <3>1, <3>2
  <2>2. dev.pktDis /\ dev.setup.kind = "clearHalt" => host.halted[dev.setup.pipe]
    BY DEF Sides, ToggleInv
  <2>. QED BY <1>2, <1>3, <1>6, <1>7, <2>1, <2>2 DEF ToggleInv, Doing
<1>17. HostInv'
  BY <1>2, <1>6, <1>15 DEF Sides, HostInv
<1>. QED BY <1>4, <1>11, <1>12, <1>13, <1>14, <1>16, <1>17 DEF Sides, p

\* The library's own steps, and the open after an enumeration.
LEMMA SidesLibrary ==
  ASSUME DevInv(dev), Sides, LibraryInv, WriteFails \/ Library \/ Opens \/ UNCHANGED vars
  PROVE  Sides'
<1>1. dev' = dev /\ hc' = hc /\ host' = host
  BY DEF WriteFails, Library, Opens, busVars, vars
<1>2. CASE Opens
  <2>1. host.config = 1 /\ hc.phase = "idle" /\ dev.ustat = <<>> /\ ~dev.stallIF /\ user' # "closed"
    BY <1>2 DEF Opens, OpenPath, Quiet
  <2>2. ~Waits(dev, "in0") /\ ~Waits(dev, "out0")
    BY <2>1, NothingWaits, Ep0Pipes
  <2>3. ~dev.pktDis
    <3>1. Len(dev.ustat) = 0
      BY <2>1
    <3>. QED BY <3>1 DEF DevInv, Ep0Inv, SetupLast
  <2>4. ~host.retry
    BY <2>1 DEF Sides, AddressInv, ConfigInv
  <2>5. AttachedInv'
    BY <1>1, <2>1, <2>2, <2>3, <2>4 DEF AttachedInv
  <2>6. TransferInv'
    BY <1>1, <2>1 DEF TransferInv
  <2>7. AddressInv' /\ ConfigInv' /\ ToggleInv' /\ StageInv' /\ HostInv'
    BY <1>1 DEF Sides, AddressInv, ConfigInv, ToggleInv, StageInv, HostInv, Doing
  <2>. QED BY <2>5, <2>6, <2>7 DEF Sides
<1>3. CASE WriteFails \/ Library \/ UNCHANGED vars
  <2>1. (user = "closed" => user' = "closed") /\ (attached' => attached /\ user' # "closed")
    <3>1. attached => user # "closed"
      BY DEF Sides, AttachedInv
    <3>2. CASE WriteFails \/ UNCHANGED vars
      BY <3>1, <3>2 DEF WriteFails, WriteReturns, vars, hidVars
    <3>3. CASE ThreadStarts
      BY <3>1, <3>3 DEF ThreadStarts, LibraryInv, Together
    <3>4. CASE Reap \/ LoopEnds \/ ReadWakes \/ CloseCancels \/ CloseJoins \/ TimesOut
      BY <3>1, <3>4 DEF Reap, LoopEnds, ReadWakes, ReturnData, CloseCancels, CloseJoins, TimesOut
    <3>5. CASE HidCalls \/ \E r \in Report : Write(r)
      BY <3>1, <3>5 DEF HidCalls, SetNonblocking, Read, ReturnData, ReadWaits, Close, Write
    <3>. QED BY <1>3, <3>2, <3>3, <3>4, <3>5 DEF Library, HidSteps
  <2>2. View(dev, dev')
    BY <1>1 DEF View
  <2>. QED BY <1>1, <2>1, <2>2, ViewStill
<1>. QED BY <1>2, <1>3

\* A bus reset, or the power: both sides start over.
LEMMA SidesFaults ==
  ASSUME DevInv(dev), BusReset \/ Replugged
  PROVE  Sides'
<1>1. hc' = NoTransfer /\ host' = Unaddressed(FALSE) /\ attached' = FALSE
  BY DEF BusReset, Replugged, Detached
<1>2. ResetDone(dev') /\ dev'.state # "ADR_PENDING"
  <2>1. CASE BusReset
    BY <2>1, ResetEffect DEF BusReset, DevInv, Ep0Inv
  <2>2. CASE Replugged
    BY <2>2, PoweredEffect DEF Replugged
  <2>. QED BY <2>1, <2>2
<1>3. dev'.address = 0 /\ ~dev'.pktDis
  BY <1>2 DEF ResetDone
<1>4. hc'.phase = "idle" /\ DOMAIN hc' = {"phase", "req", "toggle", "got"}
  BY <1>1 DEF NoTransfer
<1>5. /\ host'.address = 0 /\ host'.config = 0 /\ host'.retry = FALSE
      /\ host'.toggle \in [Pipes1 -> Bit] /\ host'.halted \in [Pipes1 -> BOOLEAN]
      /\ DOMAIN host' = {"address", "config", "retry", "toggle", "halted"}
  BY <1>1 DEF Unaddressed, Bit
<1>6. AttachedInv' /\ TransferInv' /\ StageInv' /\ HostInv'
  BY <1>1, <1>4, <1>5 DEF AttachedInv, TransferInv, StageInv, HostInv
<1>7. AddressInv' /\ ConfigInv' /\ ToggleInv'
  BY <1>2, <1>3, <1>4, <1>5 DEF AddressInv, ConfigInv, ToggleInv, Doing
<1>. QED BY <1>6, <1>7 DEF Sides

\* So they do at first.
LEMMA SidesInit == Init => Sides /\ Turns(dev)
<1>. SUFFICES ASSUME Init PROVE Sides /\ Turns(dev)
  OBVIOUS
<1>1. hc = NoTransfer /\ host = Unaddressed(FALSE) /\ attached = FALSE /\ dev = Powered(AnyReport)
  BY DEF Init, HidInit
<1>2. ResetDone(dev) /\ dev.state = "ATTACHED"
  BY <1>1, PoweredEffect
<1>3. dev.address = 0 /\ ~dev.pktDis /\ ~dev.enabled /\ dev.ustat = <<>>
  BY <1>2 DEF ResetDone
<1>4. hc.phase = "idle" /\ DOMAIN hc = {"phase", "req", "toggle", "got"}
  BY <1>1 DEF NoTransfer
<1>5. /\ host.address = 0 /\ host.config = 0 /\ host.retry = FALSE
      /\ host.toggle \in [Pipes1 -> Bit] /\ host.halted \in [Pipes1 -> BOOLEAN]
      /\ DOMAIN host = {"address", "config", "retry", "toggle", "halted"}
  BY <1>1 DEF Unaddressed, Bit
<1>6. AttachedInv /\ TransferInv /\ StageInv /\ HostInv
  BY <1>1, <1>4, <1>5 DEF AttachedInv, TransferInv, StageInv, HostInv
<1>7. AddressInv /\ ConfigInv /\ ToggleInv
  BY <1>2, <1>3, <1>4, <1>5 DEF AddressInv, ConfigInv, ToggleInv, Doing
<1>. QED BY <1>3, <1>6, <1>7, TurnsDown DEF Sides

\* The inductive invariant of the link: the device's, endpoint 1's turns, what
\* the two sides hold of each other, and the library's.
LinkInv == DevInv(dev) /\ Turns(dev) /\ Sides /\ LibraryInv

\* Every step keeps what the sides hold of each other.
LEMMA SidesStep == LinkInv /\ [Next]_vars => Sides'
<1>. SUFFICES ASSUME LinkInv, [Next]_vars PROVE Sides'
  OBVIOUS
<1>1. DevInv(dev) /\ Turns(dev) /\ Sides /\ LibraryInv
  BY DEF LinkInv
<1>2. CASE MainChecks \/ TakeCommand \/ AnswerCommand
  BY <1>1, <1>2, SidesApplication
<1>3. CASE Interrupt \/ StartOfFrame
  BY <1>1, <1>3, SidesHandler
<1>4. CASE \E req \in Requests : Setup(req)
  BY <1>1, <1>4, SidesSetup
<1>5. CASE Refused \/ StatusOut \/ GivesUp
  BY <1>1, <1>5, SidesOver
<1>6. CASE DataIn \/ DataOut
  BY <1>1, <1>6, SidesData
<1>7. CASE StatusIn
  BY <1>1, <1>7, SidesStatus
<1>8. CASE ReportOut \/ ReportIn
  BY <1>1, <1>8, SidesReport
<1>9. CASE WriteFails \/ Library \/ Opens \/ UNCHANGED vars
  BY <1>1, <1>9, SidesLibrary
<1>10. CASE BusReset \/ Replugged
  BY <1>1, <1>10, SidesFaults
<1>. QED BY <1>2, <1>3, <1>4, <1>5, <1>6, <1>7, <1>8, <1>9, <1>10 DEF Next, Control

\* And endpoint 1's turns.
LEMMA TurnsStep == DevInv(dev) /\ Turns(dev) /\ [Next]_vars => Turns(dev')
BY TurnsFirmware, TurnsControl, TurnsReports DEF Next

\* LinkInv holds in every state: the host and the device never lose each
\* other's address, configuration or toggles, whatever has been given up,
\* reset or unplugged.
THEOREM LinkInvariant == Spec => []LinkInv
<1>1. Init => LinkInv
  BY SidesInit, DevInit
  DEF LinkInv, Init, HidInit, LibraryInv, Together, ShutDownIdle, ThreadInv, NoLostWakeup
<1>2. LibraryInv /\ [Next]_vars => LibraryInv'
  <2>1. LibraryInv /\ UNCHANGED hidVars => LibraryInv'
    BY DEF hidVars, LibraryInv, Together, ShutDownIdle, ThreadInv, NoLostWakeup
  <2>. QED BY <2>1, LinkStep, CallsPreserve, ReapPreserves, ClosePreserves DEF LibraryNext
<1>3. LinkInv /\ [Next]_vars => LinkInv'
  BY <1>2, DevStep, TurnsStep, SidesStep DEF LinkInv
<1>. QED BY <1>1, <1>3, PTL DEF Spec

\* Agreed: after any request the host holds for done, given up or refused, and
\* with no interrupt left to serve, the device has the address, configuration and
\* toggles the host believes it has.
THEOREM SidesAgree == Spec => []Agreed
<1>1. LinkInv => Agreed
  <2>. SUFFICES ASSUME LinkInv, hc.phase = "idle", Quiet
       PROVE  /\ ~host.retry /\ Awake(dev) =>
                   /\ dev.address = host.address
                   /\ host.config = 1 => dev.config = 1 /\ dev.state = "CONFIGURED" /\ dev.enabled
              /\ host.config = 1 =>
                   \A p \in Pipes1 :
                     ~host.halted[p] /\ Turn(dev, p).own => Turn(dev, p).dts = host.toggle[p]
    BY DEF Agreed, Awake
  <2>1. ~Waits(dev, "in0")
    BY NothingWaits, Ep0Pipes DEF Quiet
  <2>2. dev.address = host.address
    BY <2>1 DEF LinkInv, Sides, AddressInv
  <2>3. host.config = 1 => dev.config = 1 /\ dev.state = "CONFIGURED" /\ dev.enabled
    BY DEF LinkInv, Sides, ConfigInv, Doing, DevInv, Ep1Inv
  <2>4. host.config = 1 => \A p \in Pipes1 : ~host.halted[p] => Turn(dev, p).dts = host.toggle[p]
    BY DEF LinkInv, Sides, ToggleInv, Doing
  <2>. QED BY <2>2, <2>3, <2>4
<1>. QED BY <1>1, LinkInvariant, PTL

\* ControlNeverStuck: while the host waits in a control transfer, the descriptor
\* it waits for is the SIE's, or an interrupt or the timer of the status stage is
\* due to hand it over.
THEOREM ControlIsFree == Spec => []ControlNeverStuck
<1>1. LinkInv => ControlNeverStuck
  <2>. DEFINE pipe == IF hc.phase \in {"in", "statusIn"} THEN "in0" ELSE "out0"
  <2>. SUFFICES ASSUME LinkInv, hc.phase # "idle", ~host.retry, Quiet, dev.timer = 0
       PROVE  Listens(dev, host.address) /\ Turn(dev, pipe).own
    BY DEF ControlNeverStuck, Stalls, Moves
  <2>1. Len(dev.ustat) = 0 /\ ~Waits(dev, "in0") /\ ~Waits(dev, "out0")
    BY NothingWaits, Ep0Pipes DEF Quiet
  <2>2. ~dev.pktDis
    BY <2>1 DEF LinkInv, DevInv, Ep0Inv, SetupLast
  <2>3. Listens(dev, host.address)
    BY <2>1, <2>2 DEF LinkInv, Sides, AddressInv, TransferInv, Awake, Listens, FifoSize
  <2>4. CASE hc.phase \in {"in", "statusIn"}
    <3>1. StatusDue(dev)
      BY <2>1, <2>2, <2>4 DEF LinkInv, Sides, StageInv
    <3>2. dev.flag1
      BY DEF LinkInv, DevInv, Ep0Inv, Stage
    <3>3. dev.sie["in0"] = dev.pin
      BY <2>1 DEF LinkInv, DevInv, Ep0Inv, InTurn
    <3>. QED BY <2>3, <2>4, <3>1, <3>2, <3>3 DEF StatusDue, Turn
  <2>5. CASE hc.phase \notin {"in", "statusIn"}
    BY <2>1, <2>3, <2>5 DEF LinkInv, DevInv, Ep0Inv, OutReady, Turn
  <2>. QED BY <2>4, <2>5
<1>. QED BY <1>1, LinkInvariant, PTL

-----------------------------------------------------------------------------
(* The pipe of reports the cable implements.                               *)

\* What is on its way is a report.
PipeInv ==
  /\ reports \in Seq(Report)
  /\ urb = "COMPLETED" => arrived \in Report
  /\ Pending \in Seq(Report)
  /\ dev.fresh => dev.rx \in Report
  /\ user = "writing" => writing \in Report

\* The queue of the reports that have come, with the one that is not reaped yet.
Received == IF Reading THEN reports \o Reaped ELSE <<>>

\* A part of s is left, without its beginning or without its end.
Left(s, t) == \E m \in 1 .. Len(s) + 1, n \in 0 .. Len(s) : t = SubSeq(s, m, n)

\* Either part of two sequences is left of both, and of one what follows its head.
LEMMA LeftFacts ==
  ASSUME NEW S, NEW s \in Seq(S), NEW t \in Seq(S)
  PROVE  /\ s \o t \in Seq(S) /\ Len(s \o t) = Len(s) + Len(t) /\ Len(s) \in Nat /\ Len(t) \in Nat
         /\ s \o <<>> = s /\ <<>> \o t = t
         /\ Left(s \o t, s) /\ Left(s \o t, t) /\ Left(s, s)
         /\ s # <<>> => /\ Left(s, Tail(s)) /\ Tail(s) \in Seq(S) /\ Len(Tail(s)) = Len(s) - 1
                        /\ Len(s) > 0 /\ Tail(s \o t) = Tail(s) \o t /\ s \o t # <<>>
<1>1. /\ s \o t \in Seq(S) /\ Len(s \o t) = Len(s) + Len(t) /\ Len(s) \in Nat /\ Len(t) \in Nat
      /\ s \o <<>> = s /\ <<>> \o t = t
  OBVIOUS
<1>2. SubSeq(s \o t, 1, Len(s)) = s
  OBVIOUS
<1>3. SubSeq(s \o t, Len(s) + 1, Len(s \o t)) = t
  OBVIOUS
<1>4. SubSeq(s, 1, Len(s)) = s
  OBVIOUS
<1>5. ASSUME s # <<>>
      PROVE  /\ Tail(s) = SubSeq(s, 2, Len(s)) /\ Tail(s) \in Seq(S) /\ Len(Tail(s)) = Len(s) - 1
             /\ Len(s) > 0
  BY <1>5
<1>6. ASSUME s # <<>> PROVE Tail(s \o t) = Tail(s) \o t /\ s \o t # <<>>
  BY <1>6
<1>7. Left(s \o t, s)
  BY <1>1, <1>2 DEF Left
<1>8. Left(s \o t, t)
  <2>1. Len(s) + 1 \in 1 .. Len(s \o t) + 1 /\ Len(s \o t) \in 0 .. Len(s \o t)
    BY <1>1
  <2>. QED BY <1>3, <2>1 DEF Left
<1>9. Left(s, s)
  BY <1>1, <1>4 DEF Left
<1>10. ASSUME s # <<>> PROVE Left(s, Tail(s))
  BY <1>1, <1>5, <1>10 DEF Left
<1>. QED BY <1>1, <1>5, <1>6, <1>7, <1>8, <1>9, <1>10

\* A step of the pipe, and what it does not lose.
PipeStep ==
  \/ UNCHANGED <<Connected, Down, Up>>
  \/ Pipe!Take \/ Pipe!Connect \/ Pipe!Break
  \/ \E r \in Report : Pipe!Put(r) \/ Pipe!Reply(r)
  \/ Pipe!Get /\ UNCHANGED <<urb, dev>> /\ reports' = Tail(reports)
  \/ Pipe!Overflow /\ Len(reports) > MaxQueued + 1

\* What the pipe sees of the device, unchanged.
SameEnds(d, e) ==
  /\ e.fresh = d.fresh /\ e.rx = d.rx /\ e.tx = d.tx
  /\ e.enabled = d.enabled /\ e.sie["in1"] = d.sie["in1"] /\ e.bd["in1"] = d.bd["in1"]

\* The device's part of the pipe.
LEMMA EndsView ==
  ASSUME SameEnds(dev, dev')
  PROVE  Pending' = Pending /\ Down' = Down
<1>. QED BY DEF SameEnds, Pending, Down, Turn

\* The application's part.
LEMMA Reaches ==
  /\ Up = Received \o Pending
  /\ UNCHANGED hidVars => /\ Connected' = Connected /\ Received' = Received
                          /\ reports' = reports /\ urb' = urb /\ arrived' = arrived
                          /\ user' = user /\ writing' = writing
<1>. QED BY DEF Up, Received, hidVars, Connected, Reading, Reaped

\* Neither end of the pipe is touched.
LEMMA PipeStill ==
  ASSUME PipeInv, SameEnds(dev, dev'), UNCHANGED hidVars
  PROVE  PipeInv' /\ PipeStep
<1>1. Pending' = Pending /\ Down' = Down
  BY EndsView
<1>2. /\ Connected' = Connected /\ Received' = Received
      /\ reports' = reports /\ urb' = urb /\ arrived' = arrived /\ user' = user /\ writing' = writing
  BY Reaches
<1>3. Up' = Up
  BY <1>1, <1>2, Reaches DEF Up, Received
<1>4. PipeInv'
  BY <1>1, <1>2 DEF PipeInv, SameEnds
<1>. QED BY <1>1, <1>2, <1>3, <1>4 DEF PipeStep

\* Fields that are none of them.
LEMMA KeptEnds ==
  ASSUME NEW d, NEW e, Kept(d, e, Fields \ {"fresh", "rx", "tx", "enabled", "sie"}),
         e.bd["in1"] = d.bd["in1"]
  PROVE  SameEnds(d, e)
<1>. QED BY DEF Kept, Fields, SameEnds

\* A transaction of another pipe is none of in1.
LEMMA CompletedEnds ==
  ASSUME NEW d, Sane(d), NEW e, NEW p \in Pipes \ {"in1"},
         Kept(d, e, {"bd", "sie", "ustat", "setup", "pktDis"}), CompletedDone(d, e, p)
  PROVE  SameEnds(d, e)
<1>1. "in1" \in Pipes \ {p} /\ d.sie = [q \in Pipes |-> d.sie[q]]
  BY Ep1Pipes DEF Sane
<1>2. e.bd["in1"] = d.bd["in1"] /\ e.sie["in1"] = d.sie["in1"]
  BY <1>1 DEF CompletedDone
<1>3. e.fresh = d.fresh /\ e.rx = d.rx /\ e.tx = d.tx /\ e.enabled = d.enabled
  BY DEF Kept, Fields
<1>. QED BY <1>2, <1>3 DEF SameEnds

\* The interrupt handler, but for a SETUP, and the start of a frame.
LEMMA PipeInterrupt ==
  ASSUME DevInv(dev), PipeInv, UNCHANGED hidVars,
         \/ dev' = [dev EXCEPT !.state = "POWERED"]
         \/ dev' = ServiceStall(dev)
         \/ dev.timer > 0 /\ dev' = ServiceSof(dev)
         \/ /\ dev.ustat # <<>> /\ dev' = ServiceTransaction(dev)
            /\ ~(dev.ustat[1].pipe = "out0" /\ dev.bd["out0"][dev.ustat[1].b].setup)
  PROVE  PipeInv' /\ PipeStep
<1>. DEFINE Others == Fields \ {"fresh", "rx", "tx", "enabled", "sie"}
<1>1. Sane(dev) /\ Stage0(dev) /\ Ep0Inv(dev)
  BY DEF DevInv, Ep0Inv, Stage
<1>2. CASE dev' = [dev EXCEPT !.state = "POWERED"]
  <2>1. Kept(dev, dev', {"stallIF", "boot", "state"})
    BY <1>1, <1>2, FlagEffect
  <2>2. Kept(dev, dev', Others) /\ dev'.bd["in1"] = dev.bd["in1"]
    BY <2>1 DEF Kept, Fields
  <2>. QED BY <2>2, KeptEnds, PipeStill
<1>3. CASE dev' = ServiceStall(dev)
  <2>1. Kept(dev, dev', {"stallIF", "bd"}) /\ \A q \in Pipes \ {"out0"} : dev'.bd[q] = dev.bd[q]
    BY <1>1, <1>3, StallEffect
  <2>2. Kept(dev, dev', Others) /\ dev'.bd["in1"] = dev.bd["in1"]
    BY <2>1, Ep1Pipes DEF Kept, Fields
  <2>. QED BY <2>2, KeptEnds, PipeStill
<1>4. CASE dev.timer > 0 /\ dev' = ServiceSof(dev)
  <2>1. Kept(dev, dev', SofFields) /\ \A q \in Pipes \ {"in0"} : dev'.bd[q] = dev.bd[q]
    BY <1>1, <1>4, SofEffect
  <2>2. Kept(dev, dev', Others) /\ dev'.bd["in1"] = dev.bd["in1"]
    BY <2>1, Ep1Pipes DEF Kept, Fields, SofFields
  <2>. QED BY <2>2, KeptEnds, PipeStill
<1>5. ASSUME dev.ustat # <<>>, dev' = ServiceTransaction(dev), dev.ustat[1].pipe \in Pipes1
      PROVE  SameEnds(dev, dev')
  <2>1. Kept(dev, dev', {"ustat", "pp"})
    BY <1>1, <1>5, ServiceEp1Preserves
  <2>2. Kept(dev, dev', Others) /\ dev'.bd["in1"] = dev.bd["in1"]
    BY <2>1 DEF Kept, Fields
  <2>. QED BY <2>2, KeptEnds
<1>6. ASSUME dev.ustat # <<>>, dev' = ServiceTransaction(dev), dev.ustat[1].pipe = "in0"
      PROVE  SameEnds(dev, dev')
  <2>1. Kept(dev, dev', InFields \cup {"ustat", "timer"}) /\ \A q \in Pipes1 : dev'.bd[q] = dev.bd[q]
    BY <1>1, <1>6, ServiceIn0Preserves
  <2>2. Kept(dev, dev', Others) /\ dev'.bd["in1"] = dev.bd["in1"]
    BY <2>1, Ep1Pipes DEF Kept, Fields, InFields
  <2>. QED BY <2>2, KeptEnds
<1>7. ASSUME dev.ustat # <<>>, dev' = ServiceTransaction(dev), dev.ustat[1].pipe = "out0",
             ~dev.bd["out0"][dev.ustat[1].b].setup
      PROVE  SameEnds(dev, dev')
  <2>1. /\ Kept(dev, dev', OutFields \cup {"ustat", "timer", "cur", "next"})
        /\ \A q \in Pipes1 : dev'.bd[q] = dev.bd[q]
    BY <1>1, <1>7, ServiceOut0Preserves
  <2>2. Kept(dev, dev', Others) /\ dev'.bd["in1"] = dev.bd["in1"]
    BY <2>1, Ep1Pipes DEF Kept, Fields, OutFields
  <2>. QED BY <2>2, KeptEnds
<1>8. dev.ustat # <<>> => dev.ustat[1].pipe \in Pipes1 \cup {"in0", "out0"}
  BY <1>1, TakenEffect DEF Entry, Pipes
<1>. QED BY <1>2, <1>3, <1>4, <1>5, <1>6, <1>7, <1>8, PipeStill

\* The host's control transfers.
LEMMA PipeControl ==
  ASSUME DevInv(dev), PipeInv, (\E req \in Requests : Setup(req)) \/ Control \/ GivesUp
  PROVE  PipeInv' /\ PipeStep
<1>1. Sane(dev) /\ {"in0", "out0"} \subseteq Pipes \ {"in1"}
  BY Ep0Pipes DEF DevInv, Ep0Inv
<1>2. UNCHANGED hidVars
  BY DEF Setup, Control, Refused, DataIn, StatusOut, DataOut, StatusIn, GivesUp
<1>3. ASSUME NEW req \in Requests, Setup(req) PROVE SameEnds(dev, dev')
  BY <1>1, <1>3, ControlEffect, CompletedEnds
<1>4. ASSUME NEW p \in {"in0", "out0"}, Kept(dev, dev', {"bd", "sie", "ustat"}), CompletedDone(dev, dev', p)
      PROVE  SameEnds(dev, dev')
  <2>1. Kept(dev, dev', {"bd", "sie", "ustat", "setup", "pktDis"})
    BY <1>4 DEF Kept
  <2>. QED BY <1>1, <1>4, <2>1, CompletedEnds
<1>5. SameEnds(dev, dev)
  BY DEF SameEnds
<1>6. ASSUME Refused PROVE SameEnds(dev, dev')
  <2>1. Kept(dev, dev', {"stallIF"})
    BY <1>6, ControlEffect
  <2>2. Kept(dev, dev', Fields \ {"fresh", "rx", "tx", "enabled", "sie"}) /\ dev'.bd["in1"] = dev.bd["in1"]
    BY <2>1 DEF Kept, Fields
  <2>. QED BY <2>2, KeptEnds
<1>7. ASSUME DataIn \/ StatusIn \/ StatusOut \/ DataOut PROVE SameEnds(dev, dev')
  BY <1>4, <1>5, <1>7, ControlEffect
<1>8. ASSUME GivesUp PROVE SameEnds(dev, dev')
  BY <1>5, <1>8 DEF GivesUp
<1>9. SameEnds(dev, dev')
  BY <1>3, <1>6, <1>7, <1>8 DEF Control
<1>. QED BY <1>2, <1>9, PipeStill

\* BOOTLOADER_IDLE takes the report that has come down.
LEMMA PipeTake ==
  ASSUME DevInv(dev), Turns(dev), PipeInv, TakeCommand
  PROVE  PipeInv' /\ PipeStep
<1>1. Sane(dev) /\ UNCHANGED hidVars /\ \A p \in Pipes1 : ~Waits(dev, p)
  BY NothingWaits, Ep1Pipes DEF DevInv, Ep0Inv, TakeCommand, Device, Quiet
<1>2. CASE ~MayTake
  BY <1>1, <1>2, PipeStill DEF TakeCommand, SameEnds
<1>3. CASE MayTake
  <2>1. /\ Kept(dev, dev', {"bd", "cpu", "outHandle", "boot", "fresh"})
        /\ dev'.fresh = FALSE /\ OnlyPipe(dev, dev', "out1")
    <3>1. ~Busy(dev, "out1", dev.outHandle)
      BY <1>3 DEF MayTake
    <3>. QED BY <1>1, <1>3, <3>1, TakeTurns DEF TakeCommand
  <2>2. /\ dev'.tx = dev.tx /\ dev'.enabled = dev.enabled /\ dev'.sie = dev.sie
        /\ dev'.bd["in1"] = dev.bd["in1"] /\ ~dev'.fresh
    BY <2>1, Ep1Pipes DEF Kept, Fields, OnlyPipe
  <2>3. Pending' = Pending /\ Down' = Nothing
    BY <2>2 DEF Pending, Down, Turn
  <2>4. /\ Connected' = Connected /\ Received' = Received
        /\ reports' = reports /\ urb' = urb /\ arrived' = arrived /\ user' = user /\ writing' = writing
    BY <1>1, Reaches
  <2>5. Up' = Up
    BY <2>3, <2>4 DEF Up, Received
  <2>6. PipeInv'
    BY <2>2, <2>3, <2>4 DEF PipeInv
  <2>7. CASE dev.fresh
    <3>1. Down # Nothing
      BY <2>7, HidAssumption DEF PipeInv, Down
    <3>. QED BY <2>3, <2>4, <2>5, <2>6, <3>1 DEF PipeStep, Pipe!Take
  <2>8. CASE ~dev.fresh
    BY <2>3, <2>4, <2>5, <2>6, <2>8 DEF PipeStep, Down
  <2>. QED BY <2>7, <2>8
<1>. QED BY <1>2, <1>3

\* What the answer does to the device.
LEMMA AnswerEffect ==
  ASSUME Sane(dev), Turns(dev), \A p \in Pipes1 : ~Waits(dev, p), ~Busy(dev, "in1", dev.inHandle),
         dev' = [TransferOnePacket(dev, "in1") EXCEPT
                   !.tx = command, !.inHandle = dev.cpu["in1"], !.boot = "idle"]
  PROVE  /\ Kept(dev, dev', {"bd", "cpu", "inHandle", "boot", "tx"}) /\ dev'.tx = command
         /\ OnlyPipe(dev, dev', "in1")
         /\ dev.enabled => TransferDone(dev, dev', "in1") /\ ~Armed(dev, "in1", dev.pp["in1"])
<1>1. Kept(dev, dev', {"bd", "cpu", "inHandle", "boot", "tx"})
  BY AnswerTurns, Zenon
<1>2. dev'.tx = command
  <2>. DEFINE t == TransferOnePacket(dev, "in1")
  <2>1. Sane(t)
    BY TransferKept, Ep1Pipes
  <2>. HIDE DEF t
  <2>2. DOMAIN t = Fields /\ {"tx", "inHandle", "boot"} \subseteq Fields
    BY <2>1 DEF Sane, IsDev, Fields
  <2>. QED BY <2>2 DEF t
<1>4. OnlyPipe(dev, dev', "in1")
  BY AnswerTurns, Zenon
<1>3. dev.enabled => TransferDone(dev, dev', "in1") /\ ~Armed(dev, "in1", dev.pp["in1"])
  BY AnswerTurns, Zenon
<1>. QED BY <1>1, <1>2, <1>3, <1>4

\* An answer is handed over, which is its place in the queue.
LEMMA PipeAnswer ==
  ASSUME DevInv(dev), Turns(dev), PipeInv, AnswerCommand
  PROVE  PipeInv' /\ PipeStep
<1>1. Sane(dev) /\ UNCHANGED hidVars /\ \A p \in Pipes1 : ~Waits(dev, p)
  BY NothingWaits, Ep1Pipes DEF DevInv, Ep0Inv, AnswerCommand, Device, Quiet
<1>2. CASE dev' = dev
  BY <1>1, <1>2, PipeStill DEF SameEnds
<1>3. CASE dev' = [dev EXCEPT !.boot = "idle"]
  <2>1. Kept(dev, dev', {"stallIF", "boot", "state"})
    BY <1>1, <1>3, FlagEffect
  <2>2. Kept(dev, dev', Fields \ {"fresh", "rx", "tx", "enabled", "sie"}) /\ dev'.bd["in1"] = dev.bd["in1"]
    BY <2>1 DEF Kept, Fields
  <2>. QED BY <1>1, <2>2, KeptEnds, PipeStill
<1>4. CASE /\ command \in Answered /\ ~Busy(dev, "in1", dev.inHandle)
           /\ dev' = [TransferOnePacket(dev, "in1") EXCEPT
                        !.tx = command, !.inHandle = dev.cpu["in1"], !.boot = "idle"]
  <2>1. /\ Kept(dev, dev', {"bd", "cpu", "inHandle", "boot", "tx"}) /\ dev'.tx = command
        /\ dev.enabled => TransferDone(dev, dev', "in1") /\ ~Armed(dev, "in1", dev.pp["in1"])
    <3>1. ~Busy(dev, "in1", dev.inHandle)
      BY <1>4
    <3>2. dev' = [TransferOnePacket(dev, "in1") EXCEPT
                    !.tx = command, !.inHandle = dev.cpu["in1"], !.boot = "idle"]
      BY <1>4
    <3>3. Sane(dev) /\ \A p \in Pipes1 : ~Waits(dev, p)
      BY <1>1
    <3>. QED BY <3>1, <3>2, <3>3, AnswerEffect
  <2>2. /\ dev'.enabled = dev.enabled /\ dev'.sie = dev.sie
        /\ dev'.fresh = dev.fresh /\ dev'.rx = dev.rx
    BY <2>1 DEF Kept, Fields
  <2>3. command \in Report
    BY <1>4, LinkAssumption
  <2>4. IF dev.enabled THEN Pending = <<>> /\ Pending' = <<command>> ELSE Pending = <<>> /\ Pending' = <<>>
    <3>1. CASE dev.enabled
      <4>1. dev.sie["in1"] = dev.pp["in1"]
        BY <1>1, <3>1, Ep1Pipes DEF Turns, Turns1
      <4>. QED BY <2>1, <2>2, <3>1, <4>1 DEF Pending, Turn, TransferDone, Armed
    <3>2. CASE ~dev.enabled
      BY <2>2, <3>2 DEF Pending
    <3>. QED BY <3>1, <3>2
  <2>5. Down' = Down
    BY <2>2 DEF Down
  <2>6. /\ Connected' = Connected /\ Received' = Received
        /\ reports' = reports /\ urb' = urb /\ arrived' = arrived /\ user' = user /\ writing' = writing
    BY <1>1, Reaches
  <2>7. PipeInv'
    <3>1. Pending' \in Seq(Report)
      <4>1. <<command>> \in Seq(Report) /\ <<>> \in Seq(Report)
        BY <2>3
      <4>. QED BY <2>4, <4>1
    <3>. QED BY <2>2, <2>6, <3>1 DEF PipeInv
  <2>8. Received \in Seq(Report)
    BY DEF PipeInv, Received, Reaped
  <2>9. Up' = Received' \o Pending'
    BY DEF Up, Received
  <2>10. CASE dev.enabled
    <3>1. Up = Received \o <<>> /\ Up' = Received \o <<command>>
      BY <2>4, <2>6, <2>9, <2>10, Reaches
    <3>2. Up' = Append(Up, command)
      BY <2>3, <2>8, <3>1
    <3>. QED BY <2>3, <2>5, <2>6, <2>7, <3>2 DEF PipeStep, Pipe!Reply
  <2>11. CASE ~dev.enabled
    BY <2>4, <2>5, <2>6, <2>7, <2>9, <2>11, Reaches DEF PipeStep
  <2>. QED BY <2>10, <2>11
<1>. QED BY <1>2, <1>3, <1>4 DEF AnswerCommand

\* What is lost of the queue is lost with the connection: what waits in the
\* device, all that has come, or the oldest of it.
LEMMA PipeBreaks ==
  ASSUME PipeInv, ~Connected', Down' \in {Down, Nothing},
         \/ Received' = Received /\ Pending' \in {Pending, <<>>}
         \/ Received' = <<>> /\ Pending' = Pending
         \/ Received # <<>> /\ Received' = Tail(Received) /\ Pending' = Pending
  PROVE  Pipe!Break
<1>1. Received \in Seq(Report) /\ Pending \in Seq(Report)
  BY DEF PipeInv, Received, Reaped
<1>2. Up = Received \o Pending /\ Up' = Received' \o Pending'
  BY DEF Up, Received
<1>3. /\ Up \in Seq(Report) /\ Left(Up, Received) /\ Left(Up, Pending)
      /\ Received # <<>> => Tail(Up) = Tail(Received) \o Pending /\ Up # <<>>
  <2>1. Received \o Pending \in Seq(Report)
    BY <1>1
  <2>2. Left(Received \o Pending, Received)
    BY <1>1, LeftFacts
  <2>3. Left(Received \o Pending, Pending)
    BY <1>1, LeftFacts
  <2>4. Received # <<>> => /\ Tail(Received \o Pending) = Tail(Received) \o Pending
                           /\ Received \o Pending # <<>>
    BY <1>1, LeftFacts
  <2>. QED BY <1>2, <2>1, <2>2, <2>3, <2>4
<1>7. Received \o <<>> = Received /\ <<>> \o Pending = Pending
  BY <1>1
<1>4. <<>> \in Seq(Report)
  OBVIOUS
<1>5. Left(Up, Up) /\ (Up # <<>> => Left(Up, Tail(Up)))
  BY <1>3, <1>4, LeftFacts
<1>6. Left(Up, Up')
  BY <1>2, <1>3, <1>5, <1>7
<1>. QED BY <1>6 DEF Pipe!Break, Left

\* The interrupt of a SETUP, which is only there when nobody has the device:
\* the request may take what waits for the host from endpoint 1.
LEMMA PipeServed ==
  ASSUME DevInv(dev), Turns(dev), Sides, PipeInv, UNCHANGED hidVars,
         dev.ustat # <<>>, dev' = ServiceTransaction(dev),
         dev.ustat[1].pipe = "out0", dev.bd["out0"][dev.ustat[1].b].setup
  PROVE  PipeInv' /\ PipeStep
<1>. DEFINE d == dev
            e == dev'
<1>1. /\ Sane(d) /\ Sane(e) /\ Request1(d, e) /\ d.pktDis
      /\ Len(d.ustat) = 1
      /\ Kept(d, e, SetupFields \cup {"ustat", "timer", "cur", "next"})
  BY ServiceSetupPreserves DEF DevInv, Ep0Inv
<1>2. e.rx = d.rx /\ e.tx = d.tx
  BY <1>1 DEF Kept, Fields, SetupFields, PrepareFields, ConfigFields, BusyFields, ServeFields
<1>3. ~Connected /\ ~Connected'
  BY <1>1 DEF Sides, AttachedInv, Connected, hidVars, Reading
<1>4. ~Waits(d, "in1")
  BY <1>1 DEF Waits
<1>5. "in1" \in Pipes1 /\ "in1" \in Pipes /\ d.setup \in Request
  BY <1>1, Ep1Pipes DEF Sane
<1>6. d.enabled => d.sie["in1"] = d.pp["in1"]
  BY <1>4, <1>5 DEF Turns, Turns1
<1>7. e.fresh => d.fresh
  BY <1>1 DEF Request1, Initialized
<1>8. Pending' \in {Pending, <<>>}
  <2>. DEFINE k == d.setup.kind
              p == d.setup.pipe
  <2>1. CASE ~e.enabled
    BY <2>1 DEF Pending
  <2>2. CASE e.enabled /\ k = "setConfiguration"
    <3>1. Initialized(e) /\ e.sie = [q \in Pipes |-> 0]
      BY <1>1, <2>2 DEF Request1
    <3>2. e.sie["in1"] = 0 /\ ~e.bd["in1"][0].own
      BY <1>5, <3>1 DEF Initialized
    <3>. QED BY <3>2 DEF Pending, Turn
  <2>3. CASE e.enabled /\ k # "setConfiguration"
    <3>1. e.enabled = d.enabled /\ e.sie = d.sie /\ d.sie["in1"] = d.pp["in1"]
      BY <1>1, <1>6, <2>3 DEF Request1
    <3>2. CASE e.bd["in1"] = d.bd["in1"]
      BY <1>2, <3>1, <3>2 DEF Pending, Turn
    <3>3. CASE e.bd["in1"] # d.bd["in1"]
      <4>1. p = "in1" /\ (Halted1(d, e, "in1") \/ Cleared1(d, e, "in1"))
        BY <1>1, <1>5, <2>3, <3>3 DEF Request1, Same1
      <4>2. d.pp["in1"] \in Bit
        BY <1>1, <1>5 DEF Sane
      <4>3. e.bd["in1"][d.pp["in1"]].stall \/ ~e.bd["in1"][d.pp["in1"]].own
        BY <4>1, <4>2 DEF Halted1, Cleared1
      <4>. QED BY <3>1, <4>3 DEF Pending, Turn
    <3>. QED BY <3>2, <3>3
  <2>. QED BY <2>1, <2>2, <2>3
<1>9. /\ Connected' = Connected /\ Received' = Received
      /\ reports' = reports /\ urb' = urb /\ arrived' = arrived /\ user' = user /\ writing' = writing
  BY Reaches
<1>10. PipeInv'
  <2>1. Pending' \in Seq(Report)
    <3>1. <<>> \in Seq(Report) /\ Pending \in Seq(Report)
      BY DEF PipeInv
    <3>. QED BY <1>8, <3>1
  <2>2. dev'.fresh => dev'.rx \in Report
    BY <1>2, <1>7 DEF PipeInv
  <2>. QED BY <1>9, <2>1, <2>2 DEF PipeInv
<1>11. Down' \in {Down, Nothing}
  BY <1>2, <1>7 DEF Down
<1>12. Pipe!Break
  BY <1>3, <1>8, <1>9, <1>11, PipeBreaks
<1>. QED BY <1>10, <1>12 DEF PipeStep

\* A report goes down: the packet has the toggle the device waits for, and the
\* application has taken the one before.
LEMMA PipePut ==
  ASSUME DevInv(dev), Turns(dev), Sides, PipeInv, ReportOut
  PROVE  PipeInv' /\ PipeStep /\ ~dev.fresh /\ dev'.fresh
<1>1. Sane(dev) /\ dev.enabled /\ Free(dev, "out1") /\ "out1" \in Pipes1 /\ "in1" \in Pipes \ {"out1"}
  BY ReportOutEffect, Ep1Pipes DEF DevInv, Ep0Inv
<1>2. ~Repeated(dev, "out1", host.toggle["out1"])
  BY <1>1, SidesReport DEF Repeated
<1>3. /\ Kept(dev, dev', {"bd", "sie", "ustat", "rx", "fresh"})
      /\ CompletedDone(dev, dev', "out1") /\ dev'.rx = writing /\ dev'.fresh = TRUE
  BY <1>2, ReportOutEffect
<1>4. dev.sie["out1"] \in Bit /\ Armed(dev, "out1", dev.sie["out1"])
  BY <1>1, Ep1Pipes DEF Sane, Free, Armed
<1>5. ~dev.fresh
  BY <1>1, <1>4 DEF Turns
<1>6. /\ dev'.tx = dev.tx /\ dev'.enabled = dev.enabled
      /\ dev'.bd["in1"] = dev.bd["in1"] /\ dev'.sie["in1"] = dev.sie["in1"]
  <2>1. dev.sie = [q \in Pipes |-> dev.sie[q]]
    BY <1>1 DEF Sane
  <2>. QED BY <1>1, <1>3, <2>1 DEF Kept, Fields, CompletedDone
<1>7. Pending' = Pending /\ Down = Nothing /\ Down' = writing
  BY <1>3, <1>5, <1>6 DEF Pending, Turn, Down
<1>8. /\ user = "writing" /\ user' = "open" /\ writing' = Nothing
      /\ UNCHANGED <<urb, arrived, reports, attached>> /\ attached
  BY DEF ReportOut, WriteReturns, Usable
<1>9. Connected /\ Connected' /\ Up' = Up
  BY <1>7, <1>8 DEF Connected, Reading, Up, Reaped
<1>10. writing \in Report
  BY <1>8 DEF PipeInv
<1>11. PipeInv'
  BY <1>3, <1>7, <1>8, <1>10 DEF PipeInv
<1>12. Pipe!Put(writing)
  BY <1>7, <1>9 DEF Pipe!Put
<1>. QED BY <1>3, <1>5, <1>10, <1>11, <1>12 DEF PipeStep

\* A report comes up: it has the toggle the host expects, and goes from the
\* device's buffer into the transfer's.
LEMMA PipeArrives ==
  ASSUME DevInv(dev), Turns(dev), Sides, PipeInv, ReportIn
  PROVE  PipeInv' /\ PipeStep
<1>1. Sane(dev) /\ dev.enabled /\ Free(dev, "in1") /\ "in1" \in Pipes1
  BY ReportInEffect, Ep1Pipes DEF DevInv, Ep0Inv
<1>2. Sane(dev') /\ Kept(dev, dev', {"bd", "sie", "ustat", "tx"}) /\ CompletedDone(dev, dev', "in1")
  BY ReportInEffect
<1>3. Turn(dev, "in1").dts = host.toggle["in1"]
  <2>1. ~ReportOut
    BY DEF ReportIn, ReportOut, Usable, Arrives, WriteReturns, hidVars
  <2>. QED BY <1>1, <2>1, SidesReport
<1>4. Arrives(dev.tx) /\ attached
  BY <1>3 DEF ReportIn, Usable
<1>5. Pending = <<dev.tx>> /\ dev.tx \in Report
  <2>1. Pending = <<dev.tx>>
    BY <1>1 DEF Pending, Turn, Free
  <2>. QED BY <2>1 DEF PipeInv
<1>6. Pending' = <<>>
  <2>1. Armed(dev, "in1", dev.sie["in1"])
    BY <1>1 DEF Free, Armed
  <2>2. Kept(dev, dev', {"bd", "sie", "ustat", "rx", "tx", "fresh"}) /\ dev'.fresh = dev.fresh
    BY <1>2 DEF Kept, Fields
  <2>3. ~dev'.bd["in1"][dev'.sie["in1"]].own
    BY <1>1, <1>2, <2>1, <2>2, CompletedTurns1
  <2>. QED BY <2>3 DEF Pending, Turn
<1>7. dev'.fresh = dev.fresh /\ dev'.rx = dev.rx
  BY <1>2 DEF Kept, Fields
<1>8. /\ urb = "flying" /\ urb' = "COMPLETED" /\ arrived' = dev.tx
      /\ UNCHANGED <<user, reports, attached, writing>>
  BY <1>4 DEF Arrives
<1>9. Down' = Down /\ Connected' = Connected /\ (Reading <=> Reading')
  BY <1>7, <1>8 DEF Down, Connected, Reading
<1>10. PipeInv'
  <2>1. <<>> \in Seq(Report)
    OBVIOUS
  <2>. QED BY <1>5, <1>6, <1>7, <1>8, <2>1 DEF PipeInv
<1>11. CASE Reading
  <2>1. Up = (reports \o <<>>) \o <<dev.tx>> /\ Up' = (reports \o <<dev.tx>>) \o <<>>
    BY <1>5, <1>6, <1>8, <1>9, <1>11 DEF Up, Reaped
  <2>2. reports \in Seq(Report)
    BY DEF PipeInv
  <2>3. Up' = Up
    <3>1. (reports \o <<>>) \o <<dev.tx>> = reports \o <<dev.tx>>
      BY <1>5, <2>2
    <3>2. (reports \o <<dev.tx>>) \o <<>> = reports \o <<dev.tx>>
      BY <1>5, <2>2
    <3>. QED BY <2>1, <3>1, <3>2
  <2>. QED BY <1>9, <1>10, <2>3 DEF PipeStep
<1>12. CASE ~Reading
  <2>1. Received = <<>> /\ Received' = <<>> /\ ~Connected'
    BY <1>9, <1>12 DEF Received, Connected
  <2>2. Pipe!Break
    BY <1>6, <1>9, <2>1, PipeBreaks
  <2>. QED BY <1>10, <2>2 DEF PipeStep
<1>. QED BY <1>11, <1>12

\* A bus reset, or the power: the handle is of no more use.
LEMMA PipeFaults ==
  ASSUME DevInv(dev), PipeInv, BusReset \/ Replugged
  PROVE  PipeInv' /\ PipeStep
<1>1. Sane(dev)
  BY DEF DevInv, Ep0Inv
<1>2. ~dev'.enabled /\ ~dev'.fresh
  <2>1. CASE BusReset
    BY <1>1, <2>1, ResetEffect DEF BusReset, ResetDone
  <2>2. CASE Replugged
    BY <2>2, PoweredEffect DEF Replugged, ResetDone
  <2>. QED BY <2>1, <2>2
<1>3. Detached
  BY DEF BusReset, Replugged
<1>4. Pending' = <<>> /\ Down' = Nothing /\ ~Connected'
  BY <1>2, <1>3 DEF Pending, Down, Connected, Detached
<1>5. Received' = Received
  BY <1>3 DEF Received, Reading, Reaped, Detached
<1>6. PipeInv'
  <2>1. <<>> \in Seq(Report)
    OBVIOUS
  <2>. QED BY <1>2, <1>3, <1>4, <2>1 DEF PipeInv, Detached
<1>7. Pipe!Break
  BY <1>4, <1>5, PipeBreaks
<1>. QED BY <1>6, <1>7 DEF PipeStep

\* The library's side alone: the device's end is as it was.
LEMMA Device1 ==
  ASSUME UNCHANGED dev
  PROVE  Pending' = Pending /\ Down' = Down
<1>. QED BY DEF Pending, Down, Turn

\* Steps of the library the queue of reports does not show in.
LEMMA PipeSame ==
  ASSUME PipeInv, UNCHANGED dev, Received' = Received, Connected' = Connected,
         reports' \in Seq(Report), urb' = "COMPLETED" => arrived' \in Report,
         user' = "writing" => writing' \in Report
  PROVE  PipeInv' /\ PipeStep
<1>1. Pending' = Pending /\ Down' = Down
  BY Device1
<1>2. Up' = Up
  BY <1>1 DEF Up, Received
<1>3. PipeInv'
  BY <1>1 DEF PipeInv
<1>. QED BY <1>1, <1>2, <1>3 DEF PipeStep

\* A result of the transfer is dealt with: a report joins the queue, which is
\* full at one more than the code says.
LEMMA PipeReaps ==
  ASSUME LibraryInv, PipeInv, UNCHANGED dev, Reap
  PROVE  PipeInv' /\ PipeStep
<1>1. /\ UNCHANGED <<user, attached, writing>> /\ urb' # "COMPLETED" /\ (Reading <=> Reading')
      /\ Connected' = Connected
  BY DEF Reap, Callback, Submitted, Reading, Connected
<1>2. CASE urb # "COMPLETED"
  <2>1. reports' = reports
    BY <1>2 DEF Reap, Callback
  <2>2. Received' = Received
    BY <1>1, <1>2, <2>1 DEF Received, Reaped
  <2>. QED BY <1>1, <2>1, <2>2, PipeSame DEF PipeInv
<1>3. CASE urb = "COMPLETED"
  <2>1. reports' = Queued(arrived) /\ arrived \in Report /\ reports \in Seq(Report)
    BY <1>3 DEF Reap, Callback, PipeInv
  <2>. DEFINE q == Append(reports, arrived)
  <2>2. /\ q \in Seq(Report) /\ q = reports \o <<arrived>> /\ q # <<>>
        /\ Tail(q) \in Seq(Report) /\ Len(q) = Len(reports) + 1 /\ Len(reports) \in Nat
    BY <2>1
  <2>. HIDE DEF q
  <2>3. reports' = IF Len(reports) > MaxQueued + 1 THEN Tail(q) ELSE q
    BY <2>1 DEF Queued, q
  <2>4. Received = IF Reading THEN q ELSE <<>>
    BY <1>3, <2>2 DEF Received, Reaped
  <2>5. Received' = IF Reading THEN reports' ELSE <<>>
    <3>1. reports' \in Seq(Report)
      BY <2>2, <2>3
    <3>2. reports' \o <<>> = reports'
      BY <3>1
    <3>. QED BY <1>1, <3>2 DEF Received, Reaped
  <2>6. CASE ~Reading \/ ~(Len(reports) > MaxQueued + 1)
    BY <1>1, <2>2, <2>3, <2>4, <2>5, <2>6, PipeSame DEF PipeInv
  <2>7. CASE Reading /\ Len(reports) > MaxQueued + 1
    <3>1. Pending' = Pending /\ Down' = Down /\ Pending \in Seq(Report)
      BY Device1 DEF PipeInv
    <3>2. Up = q \o Pending /\ Up' = Tail(q) \o Pending
      BY <2>3, <2>4, <2>5, <2>7, <3>1, Reaches DEF Up, Received
    <3>3. Len(Up) > MaxQueued + 2 /\ Up' = Tail(Up)
      <4>1. Len(q \o Pending) = Len(q) + Len(Pending) /\ Len(Pending) \in Nat
        BY <2>2, <3>1
      <4>2. Tail(q \o Pending) = Tail(q) \o Pending
        BY <2>2, <3>1, LeftFacts
      <4>. QED BY <2>2, <2>7, <3>2, <4>1, <4>2, HidAssumption
    <3>4. PipeInv'
      BY <1>1, <2>2, <2>3, <3>1 DEF PipeInv
    <3>. QED BY <1>1, <2>7, <3>1, <3>3, <3>4 DEF PipeStep, Pipe!Overflow
  <2>. QED BY <2>6, <2>7
<1>. QED BY <1>2, <1>3

\* hid_read returns the oldest report.
LEMMA PipeReads ==
  ASSUME PipeInv, UNCHANGED dev, Read \/ ReadWakes
  PROVE  PipeInv' /\ PipeStep
<1>1. /\ reports # <<>> /\ reports' = Tail(reports) /\ UNCHANGED <<urb, arrived, attached, writing>>
      /\ Reading /\ Reading' /\ user' = "open"
  BY DEF Read, ReadWakes, ReturnData, Reading
<1>2. reports \in Seq(Report) /\ Reaped \in Seq(Report) /\ Pending \in Seq(Report)
  BY DEF PipeInv, Reaped
<1>3. Tail(reports) \in Seq(Report)
  BY <1>1, <1>2
<1>4. Received = reports \o Reaped /\ Received' = Tail(reports) \o Reaped
  BY <1>1 DEF Received, Reaped
<1>5. Received # <<>> /\ Received' = Tail(Received) /\ Received \in Seq(Report)
  <2>1. reports \o Reaped \in Seq(Report)
    BY <1>2
  <2>. QED BY <1>1, <1>2, <1>4, <2>1, LeftFacts
<1>6. Pending' = Pending /\ Down' = Down
  BY Device1
<1>7. PipeInv'
  BY <1>1, <1>3, <1>6 DEF PipeInv
<1>8. Connected' = Connected /\ (Connected <=> attached)
  BY <1>1 DEF Connected
<1>9. CASE attached
  <2>1. Up # <<>> /\ Up' = Tail(Up)
    <3>1. Up = Received \o Pending /\ Up' = Tail(Received) \o Pending
      BY <1>5, <1>6, Reaches DEF Up, Received
    <3>2. Tail(Received \o Pending) = Tail(Received) \o Pending /\ Received \o Pending # <<>>
      BY <1>2, <1>5, LeftFacts
    <3>. QED BY <3>1, <3>2
  <2>. QED BY <1>1, <1>6, <1>7, <1>8, <1>9, <2>1 DEF PipeStep, Pipe!Get
<1>10. CASE ~attached
  <2>1. Pipe!Break
    BY <1>5, <1>6, <1>8, <1>10, PipeBreaks
  <2>. QED BY <1>7, <2>1 DEF PipeStep
<1>. QED BY <1>9, <1>10

\* The rest of the library: its threads, the calls, and the open.
LEMMA PipeLibrary ==
  ASSUME LibraryInv, Sides, PipeInv, WriteFails \/ Library \/ Opens
  PROVE  PipeInv' /\ PipeStep
<1>1. UNCHANGED dev /\ reports \in Seq(Report) /\ <<>> \in Seq(Report)
  BY DEF WriteFails, Library, Opens, PipeInv
<1>2. CASE WriteReturns
  <2>1. UNCHANGED <<reports, urb, arrived, attached>> /\ user = "writing" /\ user' = "open"
    BY <1>2 DEF WriteReturns
  <2>2. Received' = Received /\ Connected' = Connected
    BY <2>1 DEF Received, Reading, Reaped, Connected
  <2>. QED BY <1>1, <2>1, <2>2, PipeSame DEF PipeInv
<1>3. CASE ThreadStarts
  <2>1. /\ UNCHANGED <<reports, arrived, attached, writing>> /\ user' = "open"
        /\ user = "barrier" /\ urb = "idle" /\ urb' # "COMPLETED"
    BY <1>3 DEF ThreadStarts, Submitted, LibraryInv, Together, Running
  <2>2. Received' = Received /\ Connected' = Connected
    BY <2>1 DEF Received, Reading, Reaped, Connected
  <2>. QED BY <1>1, <2>1, <2>2, PipeSame
<1>4. CASE SetNonblocking \/ ReadWaits \/ TimesOut
  <2>1. /\ UNCHANGED <<reports, arrived, attached, writing>>
        /\ Reading' = Reading /\ (user' = "writing" => user = "writing")
        /\ urb' = urb \/ (urb = "flying" /\ urb' = "TIMED_OUT")
    BY <1>4 DEF SetNonblocking, ReadWaits, TimesOut, Reading
  <2>2. Received' = Received /\ Connected' = Connected
    BY <2>1 DEF Received, Reaped, Connected
  <2>. QED BY <1>1, <2>1, <2>2, PipeSame DEF PipeInv
<1>5. CASE \E r \in Report : Write(r)
  <2>1. /\ UNCHANGED <<reports, arrived, attached, urb>> /\ user = "open" /\ writing' \in Report
        /\ user' = "writing"
    BY <1>5 DEF Write
  <2>2. Received' = Received /\ Connected' = Connected
    BY <2>1 DEF Received, Reading, Reaped, Connected
  <2>. QED BY <1>1, <2>1, <2>2, PipeSame DEF PipeInv
<1>6. CASE LoopEnds
  <2>1. /\ UNCHANGED <<user, reports, arrived, attached, writing>>
        /\ urb' = "CANCELLED" \/ urb' = urb
        /\ thread = "loop" /\ shutdown
    BY <1>6 DEF LoopEnds, CancelTransfer
  <2>2. Reading => urb = "idle" /\ urb' = "idle"
    <3>1. Reading => urb = "idle"
      BY <2>1 DEF LibraryInv, ShutDownIdle, Together, Reading, Running
    <3>. QED BY <1>6, <3>1 DEF LoopEnds, CancelTransfer, Cancellable
  <2>3. Received' = Received /\ Connected' = Connected
    BY <2>1, <2>2 DEF Received, Reading, Reaped, Connected
  <2>. QED BY <1>1, <2>1, <2>3, PipeSame DEF PipeInv
<1>7. CASE Reap
  BY <1>1, <1>7, PipeReaps
<1>8. CASE Read \/ ReadWakes
  BY <1>1, <1>8, PipeReads
<1>9. CASE CloseCancels \/ CloseJoins
  <2>1. /\ ~Reading /\ ~Reading' /\ user' # "writing" /\ (urb' # "COMPLETED" \/ UNCHANGED <<urb, arrived>>)
        /\ reports' \in {reports, <<>>}
    BY <1>9 DEF CloseCancels, CancelTransfer, CloseJoins, Reading
  <2>2. Received' = Received /\ Connected' = Connected
    BY <2>1 DEF Received, Connected
  <2>. QED BY <1>1, <2>1, <2>2, PipeSame DEF PipeInv
<1>10. CASE Close
  <2>1. UNCHANGED <<reports, arrived, urb, writing>> /\ ~Reading' /\ user' # "writing"
    BY <1>10 DEF Close, Reading
  <2>2. Pending' = Pending /\ Down' = Down
    BY <1>1, Device1
  <2>3. Received' = <<>> /\ ~Connected'
    BY <2>1 DEF Received, Connected
  <2>4. Pipe!Break
    BY <2>2, <2>3, PipeBreaks
  <2>5. PipeInv'
    BY <1>1, <2>1, <2>2 DEF PipeInv
  <2>. QED BY <2>4, <2>5 DEF PipeStep
<1>11. CASE Opens
  <2>1. /\ ~Reading /\ Reading' /\ attached' /\ reports' = <<>> /\ urb' = "idle" /\ user' # "writing"
    BY <1>11 DEF Opens, OpenPath, Reading
  <2>2. Pending' = Pending /\ Down' = Down /\ Pending \in Seq(Report)
    BY <1>1, Device1 DEF PipeInv
  <2>3. Received = <<>> /\ Received' = <<>> \o <<>> /\ ~Connected /\ Connected'
    BY <2>1 DEF Received, Connected, Reaped
  <2>4. Received' = <<>>
    BY <1>1, <2>3
  <2>5. Up' = Up
    BY <2>2, <2>3, <2>4 DEF Up, Received
  <2>6. PipeInv'
    BY <1>1, <2>1, <2>2 DEF PipeInv
  <2>. QED BY <2>2, <2>3, <2>5, <2>6 DEF PipeStep, Pipe!Connect
<1>. QED BY <1>2, <1>3, <1>4, <1>5, <1>6, <1>7, <1>8, <1>9, <1>10, <1>11
     DEF WriteFails, Library, HidSteps, HidCalls

\* Every step of the link, and the pipe.
LEMMA PipeSteps ==
  LinkInv /\ PipeInv /\ [Next]_vars =>
    PipeInv' /\ PipeStep /\ (ReportOut => ~dev.fresh /\ dev'.fresh)
<1>. SUFFICES ASSUME LinkInv, PipeInv, [Next]_vars
     PROVE  PipeInv' /\ PipeStep /\ (ReportOut => ~dev.fresh /\ dev'.fresh)
  OBVIOUS
<1>1. DevInv(dev) /\ Turns(dev) /\ Sides /\ LibraryInv /\ Sane(dev)
  BY DEF LinkInv, DevInv, Ep0Inv
<1>2. ReportOut => ~dev.fresh /\ dev'.fresh
  BY <1>1, PipePut
<1>3. CASE MainChecks
  BY <1>2, <1>3, PipeStill DEF MainChecks, Device, SameEnds
<1>4. CASE TakeCommand \/ AnswerCommand
  BY <1>2, <1>1, <1>4, PipeTake, PipeAnswer
<1>5. CASE Interrupt
  <2>1. UNCHANGED hidVars
    BY <1>5 DEF Interrupt, Device
  <2>2. ASSUME dev.ustat # <<>>, dev' = ServiceTransaction(dev) PROVE PipeInv' /\ PipeStep
    BY <1>1, <2>1, <2>2, PipeServed, PipeInterrupt
  <2>. QED BY <1>1, <1>2, <1>5, <2>1, <2>2, PipeInterrupt DEF Interrupt
<1>6. CASE StartOfFrame
  BY <1>2, <1>1, <1>6, PipeInterrupt DEF StartOfFrame, Device
<1>7. CASE (\E req \in Requests : Setup(req)) \/ Control \/ GivesUp
  BY <1>2, <1>1, <1>7, PipeControl
<1>8. CASE ReportOut
  BY <1>1, <1>8, PipePut
<1>9. CASE ReportIn
  BY <1>2, <1>1, <1>9, PipeArrives
<1>10. CASE WriteFails \/ Library \/ Opens
  BY <1>2, <1>1, <1>10, PipeLibrary
<1>11. CASE BusReset \/ Replugged
  BY <1>2, <1>1, <1>11, PipeFaults
<1>12. CASE UNCHANGED vars
  BY <1>2, <1>12, PipeStill DEF vars, SameEnds
<1>13. PipeInv' /\ PipeStep
  BY <1>3, <1>4, <1>5, <1>6, <1>7, <1>8, <1>9, <1>10, <1>11, <1>12 DEF Next
<1>. QED BY <1>2, <1>13

\* No report is on its way at first.
LEMMA PipeInit == Init => PipeInv /\ Pipe!Init
<1>. SUFFICES ASSUME Init PROVE PipeInv /\ Pipe!Init
  OBVIOUS
<1>1. ~dev.fresh /\ ~dev.enabled
  BY PoweredEffect DEF Init, ResetDone
<1>2. Pending = <<>> /\ reports = <<>> /\ user = "closed" /\ urb = "none"
  BY <1>1 DEF Pending, Init, HidInit
<1>3. <<>> \in Seq(Report) /\ <<>> \o <<>> = <<>>
  OBVIOUS
<1>4. PipeInv
  BY <1>1, <1>2, <1>3 DEF PipeInv
<1>5. ~Connected /\ Down = Nothing /\ Up = <<>>
  BY <1>1, <1>2, <1>3 DEF Connected, Reading, Down, Up
<1>. QED BY <1>4, <1>5 DEF Pipe!Init

\* PipeInv holds in every state: only reports travel.
THEOREM PipeInvariant == Spec => [](LinkInv /\ PipeInv)
<1>1. Init => PipeInv
  BY PipeInit
<1>2. LinkInv /\ PipeInv /\ [Next]_vars => PipeInv'
  BY PipeSteps
<1>. QED BY <1>1, <1>2, LinkInvariant, PTL DEF Spec

\* PipeSpec: the device stack, the library and the bus between them implement
\* the pipe of reports, under every fault: each report arrives once, in order
\* and unchanged, or is lost with the connection or in a queue that is full.
THEOREM CableIsPipe == Spec => PipeSpec
<1>1. Init => Pipe!Init
  BY PipeInit
<1>2. LinkInv /\ PipeInv /\ [Next]_vars => [Pipe!Next]_(Pipe!channel)
  BY PipeSteps DEF PipeStep, Pipe!Next, Pipe!channel
<1>. QED BY <1>1, <1>2, PipeInvariant, PTL DEF Spec, PipeSpec, Pipe!Spec

\* NothingLost: while the connection holds, a report the host has had
\* acknowledged is one the firmware finds (no OUT packet is dropped as a
\* repetition), and one on its way up is only gone when it has been read or the
\* queue was full.
THEOREM ConnectedKeeps == Spec => NothingLost
<1>. DEFINE Keeps ==
       Connected /\ Connected' =>
         /\ ReportOut => ~dev.fresh /\ dev'.fresh
         /\ Len(Up') < Len(Up) => \/ UNCHANGED <<urb, dev>> /\ reports' = Tail(reports)
                                 \/ Len(reports) > MaxQueued + 1
<1>1. LinkInv /\ PipeInv /\ [Next]_vars => Keeps
  <2>. SUFFICES ASSUME LinkInv, PipeInv, [Next]_vars, Connected, Connected', Len(Up') < Len(Up)
       PROVE  \/ UNCHANGED <<urb, dev>> /\ reports' = Tail(reports)
              \/ Len(reports) > MaxQueued + 1
    BY PipeSteps
  <2>1. Up \in Seq(Report)
    <3>1. Received \in Seq(Report) /\ Pending \in Seq(Report)
      BY DEF PipeInv, Received, Reaped
    <3>. QED BY <3>1, Reaches
  <2>2. Len(Up) \in Nat /\ \A r \in Report : Len(Append(Up, r)) = Len(Up) + 1
    BY <2>1
  <2>3. PipeStep /\ Up' # Up
    BY <2>2, PipeSteps
  <2>4. ~(\E r \in Report : Pipe!Put(r) \/ Pipe!Reply(r)) /\ ~Pipe!Take /\ ~Pipe!Connect /\ ~Pipe!Break
    BY <2>2, <2>3 DEF Pipe!Put, Pipe!Reply, Pipe!Take, Pipe!Connect, Pipe!Break
  <2>. QED BY <2>3, <2>4 DEF PipeStep
<1>. QED BY <1>1, PipeInvariant, PTL DEF Spec, NothingLost

-----------------------------------------------------------------------------
(* The data of a control read.                                             *)

\* As much as there is of what was asked for, and was wanted.
Whole(req) == Lesser(req.len, SizeOf[req.kind])

\* The first n bytes of what a request of kind k reads.
ReadOf(k, n) == [i \in 1 .. n |-> <<k, i>>]

\* What the host has got is the beginning of what it has asked for.
ReadInv ==
  hc.phase \in {"in", "statusOut"} =>
    /\ Len(hc.got) \in Nat /\ Len(hc.got) <= Whole(hc.req)
    /\ hc.got = ReadOf(hc.req.kind, Len(hc.got))
    /\ hc.phase = "statusOut" => Len(hc.got) = Whole(hc.req) /\ ~dev.pktDis
    /\ dev.pktDis => Len(hc.got) = 0 /\ hc.toggle = 1

\* The packet that moved last, in the FIFO: device d will send what follows the
\* g bytes of the w there are.
Follows(d, t, g, w) ==
  /\ d.pos = g /\ d.count = w - g /\ d.short = "notUsed"
  /\ t = 1 - d.bd["in0"][d.pin].dts

\* The next packet, with the SIE: what follows the g bytes, and its toggle.
Ready(d, k, t, g, w) ==
  LET n == Lesser(w - g, Ep0Size)
      b == d.bd["in0"][d.pin]
  IN  /\ ~b.stall /\ b.dts = t /\ b.cnt = n
      /\ d.staged = [source |-> k, pos |-> g]
      /\ d.pos = g + n /\ d.count = w - g - n
      /\ d.short = IF n < Ep0Size THEN "pending" ELSE "notUsed"

\* The device goes on where the host is.
PacketInv ==
  hc.phase = "in" /\ ~dev.pktDis /\ dev.both =>
    LET g == Len(hc.got)
        w == Whole(hc.req)
    IN  /\ dev.source = hc.req.kind
        /\ Waits(dev, "in0") => Follows(dev, hc.toggle, g, w)
        /\ ~Waits(dev, "in0") => Ready(dev, hc.req.kind, hc.toggle, g, w)

\* Of the data of a read, all is as it was; or there is none.
SameData(d, e) ==
  /\ e.pktDis = d.pktDis
  /\ e.both => /\ d.both /\ e.bd["in0"] = d.bd["in0"] /\ e.pin = d.pin
               /\ Waits(e, "in0") <=> Waits(d, "in0")
               /\ e.source = d.source /\ e.pos = d.pos /\ e.count = d.count
               /\ e.short = d.short /\ e.staged = d.staged

\* Then the host is as far as it was.
LEMMA DataStill ==
  ASSUME ReadInv, PacketInv, hc' = hc, SameData(dev, dev')
  PROVE  ReadInv' /\ PacketInv'
<1>1. ReadInv'
  BY DEF ReadInv, SameData
<1>2. PacketInv'
  BY DEF PacketInv, SameData, Follows, Ready
<1>. QED BY <1>1, <1>2

\* No control read is under way.
LEMMA DataIdle ==
  ASSUME hc'.phase \notin {"in", "statusOut"}
  PROVE  ReadInv' /\ PacketInv'
<1>. QED BY DEF ReadInv, PacketInv

\* Fields that are none of them.
LEMMA KeptData ==
  ASSUME NEW d, NEW e,
         Kept(d, e, Fields \ {"pktDis", "both", "pin", "ustat", "source", "pos", "count", "short", "staged"}),
         e.bd["in0"] = d.bd["in0"]
  PROVE  SameData(d, e)
<1>1. e.ustat = d.ustat
  BY DEF Kept, Fields
<1>2. Waits(e, "in0") <=> Waits(d, "in0")
  BY <1>1 DEF Waits
<1>. QED BY <1>2 DEF Kept, Fields, SameData

\* One sequence after another, entry by entry.
LEMMA ConcatFacts ==
  ASSUME NEW S, NEW s \in Seq(S), NEW t \in Seq(S), NEW u, u = s \o t, NEW g, g = Len(s), NEW n, n = Len(t)
  PROVE  /\ \A i \in 1 .. g : u[i] = s[i]
         /\ \A i \in 1 .. n : u[g + i] = t[i]
<1>1. \A i \in 1 .. g : u[i] = s[i]
  OBVIOUS
<1>2. \A i \in 1 .. n : u[g + i] = t[i]
  OBVIOUS
<1>. QED BY <1>1, <1>2

\* A read goes on where it was: the g bytes there are, and the next n.
LEMMA ReadOn ==
  ASSUME NEW k, NEW g \in Nat, NEW n \in Nat
  PROVE  /\ ReadOf(k, g) \o [i \in 1 .. n |-> <<k, g + i>>] = ReadOf(k, g + n)
         /\ Len(ReadOf(k, g)) = g /\ ReadOf(k, 0) = <<>>
<1>. DEFINE s == ReadOf(k, g)
            t == [i \in 1 .. n |-> <<k, g + i>>]
            u == s \o t
            Pairs == {k} \X Nat
<1>1. s \in Seq(Pairs) /\ g = Len(s) /\ \A i \in 1 .. g : s[i] = <<k, i>>
  BY DEF ReadOf
<1>2. t \in Seq(Pairs) /\ n = Len(t) /\ \A i \in 1 .. n : t[i] = <<k, g + i>>
  OBVIOUS
<1>3. u = s \o t
  OBVIOUS
<1>. HIDE DEF s, t, u, Pairs
<1>4. u = [i \in 1 .. g + n |-> u[i]]
  <2>1. u \in Seq(Pairs) /\ Len(u) = g + n
    BY <1>1, <1>2, <1>3, LeftFacts
  <2>2. ASSUME NEW v \in Seq(Pairs) PROVE v = [i \in 1 .. Len(v) |-> v[i]]
    OBVIOUS
  <2>. QED BY <2>1, <2>2, Zenon
<1>5. \A i \in 1 .. g : u[i] = s[i]
  BY <1>1, <1>2, <1>3, ConcatFacts
<1>6. \A i \in 1 .. n : u[g + i] = t[i]
  BY <1>1, <1>2, <1>3, ConcatFacts
<1>7. ASSUME NEW i \in 1 .. g + n PROVE u[i] = <<k, i>>
  <2>1. CASE i \in 1 .. g
    BY <1>1, <1>5, <2>1
  <2>2. CASE i \notin 1 .. g
    <3>1. i - g \in 1 .. n /\ g + (i - g) = i
      BY <2>2
    <3>. QED BY <1>2, <1>6, <3>1
  <2>. QED BY <2>1, <2>2
<1>8. u = [i \in 1 .. g + n |-> <<k, i>>]
  BY <1>4, <1>7
<1>9. ReadOf(k, 0) = <<>>
  BY DEF ReadOf
<1>. QED BY <1>1, <1>3, <1>8, <1>9 DEF s, t, ReadOf

\* The application's steps.
LEMMA DataApplication ==
  ASSUME DevInv(dev), Turns(dev), ReadInv, PacketInv, MainChecks \/ TakeCommand \/ AnswerCommand
  PROVE  ReadInv' /\ PacketInv'
<1>. DEFINE Others == Fields \ {"pktDis", "both", "pin", "ustat", "source", "pos", "count", "short", "staged"}
<1>1. Sane(dev) /\ hc' = hc
  BY DEF DevInv, Ep0Inv, MainChecks, TakeCommand, AnswerCommand, Device, busVars
<1>2. SameData(dev, dev)
  BY DEF SameData
<1>3. CASE dev' = dev
  BY <1>1, <1>2, <1>3, DataStill
<1>4. CASE TakeCommand /\ dev' # dev
  <2>1. Quiet /\ (\A p \in Pipes1 : ~Waits(dev, p)) /\ MayTake
    BY <1>4, NothingWaits, Ep1Pipes DEF TakeCommand, Quiet
  <2>2. ~Busy(dev, "out1", dev.outHandle)
    BY <2>1 DEF MayTake
  <2>3. Kept(dev, dev', {"bd", "cpu", "outHandle", "boot", "fresh"}) /\ OnlyPipe(dev, dev', "out1")
    BY <1>1, <1>4, <2>1, <2>2, TakeTurns DEF TakeCommand
  <2>4. dev'.bd["in0"] = dev.bd["in0"]
    BY <2>3, Ep0Pipes DEF OnlyPipe
  <2>5. Kept(dev, dev', Others)
    BY <2>3 DEF Kept, Fields
  <2>. QED BY <1>1, <2>4, <2>5, KeptData, DataStill
<1>5. CASE AnswerCommand /\ dev' # dev
  <2>1. CASE dev' = [dev EXCEPT !.boot = "idle"]
    <3>1. Kept(dev, dev', {"stallIF", "boot", "state"})
      BY <1>1, <2>1, FlagEffect
    <3>2. Kept(dev, dev', Others) /\ dev'.bd["in0"] = dev.bd["in0"]
      BY <3>1 DEF Kept, Fields
    <3>. QED BY <1>1, <3>2, KeptData, DataStill
  <2>2. CASE dev' # [dev EXCEPT !.boot = "idle"]
    <3>1. \A p \in Pipes1 : ~Waits(dev, p)
      BY <1>5, NothingWaits, Ep1Pipes DEF AnswerCommand, Quiet
    <3>2. ~Busy(dev, "in1", dev.inHandle)
      BY <1>5, <2>2 DEF AnswerCommand
    <3>3. dev' = [TransferOnePacket(dev, "in1") EXCEPT
                    !.tx = command, !.inHandle = dev.cpu["in1"], !.boot = "idle"]
      BY <1>5, <2>2 DEF AnswerCommand
    <3>4. Kept(dev, dev', {"bd", "cpu", "inHandle", "boot", "tx"}) /\ OnlyPipe(dev, dev', "in1")
      BY <1>1, <3>1, <3>2, <3>3, AnswerEffect
    <3>6. dev'.bd["in0"] = dev.bd["in0"]
      BY <3>4, Ep0Pipes DEF OnlyPipe
    <3>5. Kept(dev, dev', Others)
      BY <3>4 DEF Kept, Fields
    <3>. QED BY <1>1, <3>5, <3>6, KeptData, DataStill
  <2>. QED BY <2>1, <2>2
<1>. QED BY <1>3, <1>4, <1>5 DEF MainChecks

\* The interrupts that have nothing to do with the data of a read, and a
\* millisecond.
LEMMA DataInterrupt ==
  ASSUME DevInv(dev), ReadInv, PacketInv, hc' = hc,
         \/ dev' = [dev EXCEPT !.state = "POWERED"]
         \/ dev' = ServiceStall(dev)
         \/ dev.timer > 0 /\ dev' = ServiceSof(dev)
         \/ /\ dev.ustat # <<>> /\ dev.ustat[1].pipe \in Pipes1
            /\ dev' = ServiceTransaction(dev)
         \/ /\ dev.ustat # <<>> /\ dev.ustat[1].pipe = "out0" /\ ~dev.bd["out0"][dev.ustat[1].b].setup
            /\ dev' = ServiceTransaction(dev)
  PROVE  ReadInv' /\ PacketInv'
<1>. DEFINE Others == Fields \ {"pktDis", "both", "pin", "ustat", "source", "pos", "count", "short", "staged"}
<1>1. Sane(dev) /\ Stage0(dev) /\ Ep0Inv(dev)
  BY DEF DevInv, Ep0Inv, Stage
<1>2. CASE dev' = [dev EXCEPT !.state = "POWERED"]
  <2>1. Kept(dev, dev', {"stallIF", "boot", "state"})
    BY <1>1, <1>2, FlagEffect
  <2>2. Kept(dev, dev', Others) /\ dev'.bd["in0"] = dev.bd["in0"]
    BY <2>1 DEF Kept, Fields
  <2>. QED BY <2>2, KeptData, DataStill
<1>3. CASE dev' = ServiceStall(dev)
  <2>1. Kept(dev, dev', {"stallIF", "bd"}) /\ \A q \in Pipes \ {"out0"} : dev'.bd[q] = dev.bd[q]
    BY <1>1, <1>3, StallEffect
  <2>2. Kept(dev, dev', Others) /\ dev'.bd["in0"] = dev.bd["in0"]
    BY <2>1, Ep0Pipes DEF Kept, Fields
  <2>. QED BY <2>2, KeptData, DataStill
<1>4. CASE dev.timer > 0 /\ dev' = ServiceSof(dev)
  <2>1. /\ Kept(dev, dev', SofFields) /\ dev'.both = dev.both
        /\ dev.flag1 => dev'.bd = dev.bd
    BY <1>1, <1>4, SofEffect
  <2>2. dev'.ustat = dev.ustat
    BY <2>1 DEF Kept, Fields, SofFields
  <2>3. SameData(dev, dev')
    BY <1>1, <2>1, <2>2 DEF SameData, Kept, Fields, SofFields, Stage0, Waits
  <2>. QED BY <2>3, DataStill
<1>5. ASSUME dev.ustat # <<>>, dev.ustat[1].pipe \in Pipes1, dev' = ServiceTransaction(dev)
      PROVE  SameData(dev, dev')
  <2>1. Kept(dev, dev', {"ustat", "pp"}) /\ Taken(dev, dev')
    BY <1>1, <1>5, ServiceEp1Preserves
  <2>2. Waits(dev', "in0") <=> Waits(dev, "in0")
    BY <1>1, <1>5, <2>1, TakenWaits, Ep0Pipes, Ep1Pipes
  <2>. QED BY <2>1, <2>2 DEF SameData, Kept, Fields
<1>6. ASSUME dev.ustat # <<>>, dev.ustat[1].pipe = "out0", ~dev.bd["out0"][dev.ustat[1].b].setup,
             dev' = ServiceTransaction(dev)
      PROVE  SameData(dev, dev')
  <2>1. Kept(dev, dev', OutFields \cup {"ustat", "timer", "cur", "next"}) /\ ~dev'.both
    BY <1>1, <1>6, ServiceOut0Preserves
  <2>. QED BY <2>1 DEF SameData, Kept, Fields, OutFields
<1>. QED BY <1>2, <1>3, <1>4, <1>5, <1>6, DataStill

\* The handler of an IN transaction puts the next packet where the host goes on.
LEMMA DataNext ==
  ASSUME DevInv(dev), Sides, ReadInv, PacketInv, hc' = hc,
         dev.ustat # <<>>, dev.ustat[1].pipe = "in0", dev' = ServiceTransaction(dev)
  PROVE  ReadInv' /\ PacketInv'
<1>1. /\ Kept(dev, dev', InFields \cup {"ustat", "timer"}) /\ ~Waits(dev', "in0") /\ InDone(dev, dev')
      /\ Sane(dev) /\ Stage0(dev)
  BY ServiceIn0Preserves DEF DevInv, Ep0Inv, Stage
<1>2. Waits(dev, "in0")
  <2>1. Len(dev.ustat) \in Nat /\ Len(dev.ustat) > 0
    BY <1>1 DEF Sane
  <2>. QED BY <2>1 DEF Waits
<1>3. dev'.pktDis = dev.pktDis /\ dev'.source = dev.source /\ dev'.both = dev.both
  BY <1>1 DEF Kept, Fields, InFields, InDone
<1>4. ReadInv'
  BY <1>3 DEF ReadInv
<1>5. PacketInv'
  <2>. DEFINE k == hc.req.kind
              g == Len(hc.got)
              w == Whole(hc.req)
              t == hc.toggle
  <2>. SUFFICES ASSUME hc.phase = "in", ~dev.pktDis, dev.both
       PROVE  dev'.source = k /\ Ready(dev', k, t, g, w)
    BY <1>1, <1>3 DEF PacketInv
  <2>1. dev.source = k /\ Follows(dev, t, g, w)
    BY <1>2 DEF PacketInv
  <2>2. dev.transfer = "TX"
    BY <1>1 DEF Stage0
  <2>. DEFINE x == 1 - dev.pin
              n == Lesser(w - g, Ep0Size)
  <2>3. /\ dev'.pin = x /\ Packet(dev, dev', x, w - g)
        /\ IF dev'.short = "sent" THEN dev'.bd["in0"][x].stall
           ELSE ~dev'.bd["in0"][x].stall /\ dev'.bd["in0"][x].dts = 1 - dev.bd["in0"][dev.pin].dts
    BY <1>1, <2>1, <2>2 DEF InDone, Follows
  <2>4. /\ dev'.count = w - g - n /\ dev'.pos = g + n
        /\ dev'.staged = [source |-> k, pos |-> g]
        /\ dev'.short = IF w - g >= Ep0Size THEN "notUsed" ELSE "pending"
        /\ dev'.bd["in0"][x].cnt = n
    BY <2>1, <2>3 DEF Packet, Follows
  <2>5. g \in Nat /\ w \in Nat /\ (w - g >= Ep0Size <=> ~(n < Ep0Size))
    <3>1. hc.req \in Request /\ ToHost(hc.req)
      BY LinkAssumption DEF Sides, TransferInv
    <3>2. w \in Nat
      BY <3>1, StackAssumption DEF Whole, Lesser, Request, ToHost, Reads
    <3>. QED BY <3>2, StackAssumption DEF ReadInv, Lesser
  <2>6. dev'.short = IF n < Ep0Size THEN "pending" ELSE "notUsed"
    BY <2>4, <2>5
  <2>7. ~dev'.bd["in0"][x].stall /\ dev'.bd["in0"][x].dts = t
    <3>1. dev'.short # "sent"
      BY <2>6
    <3>2. t = 1 - dev.bd["in0"][dev.pin].dts
      BY <2>1 DEF Follows
    <3>. QED BY <2>3, <3>1, <3>2
  <2>. HIDE DEF x, n, k, g, w, t
  <2>. QED BY <1>3, <2>1, <2>3, <2>4, <2>6, <2>7 DEF Ready, n
<1>. QED BY <1>4, <1>5

\* What a request reads is a number of bytes, whichever bound is looked at first.
LEMMA WholeFacts ==
  ASSUME NEW req \in Request, ToHost(req)
  PROVE  Whole(req) \in Nat /\ Whole(req) <= req.len /\ Whole(req) = Lesser(SizeOf[req.kind], req.len)
<1>1. req.len \in Nat /\ SizeOf[req.kind] \in Nat
  BY StackAssumption DEF Request, ToHost, Reads
<1>. QED BY <1>1 DEF Whole, Lesser

\* The handler of a SETUP starts a read with its first byte.
LEMMA DataServed ==
  ASSUME DevInv(dev), Sides, ReadInv, PacketInv, hc' = hc,
         dev.ustat # <<>>, dev.ustat[1].pipe = "out0", dev.bd["out0"][dev.ustat[1].b].setup,
         dev' = ServiceTransaction(dev)
  PROVE  ReadInv' /\ PacketInv'
<1>1. /\ Replied(dev') /\ dev.pktDis /\ ~dev'.pktDis /\ Len(dev'.ustat) = 0
      /\ Kept(dev, dev', SetupFields \cup {"ustat", "timer", "cur", "next"})
  BY ServiceSetupPreserves DEF DevInv
<1>2. dev'.setup = dev.setup
  BY <1>1 DEF Kept, Fields, SetupFields, PrepareFields, ConfigFields, BusyFields, ServeFields
<1>3. ReadInv'
  BY <1>1 DEF ReadInv
<1>4. PacketInv'
  <2>. SUFFICES ASSUME hc.phase = "in", dev'.both
       PROVE  /\ dev'.source = hc.req.kind
              /\ Ready(dev', hc.req.kind, hc.toggle, Len(hc.got), Whole(hc.req))
    BY <1>1 DEF PacketInv, Waits
  <2>. DEFINE k == hc.req.kind
              w == Whole(hc.req)
              b == dev'.bd["in0"][dev'.pin]
  <2>1. Len(hc.got) = 0 /\ hc.toggle = 1
    BY <1>1 DEF ReadInv
  <2>2. dev'.setup = hc.req /\ hc.req \in Request /\ ToHost(hc.req)
    BY <1>2, LinkAssumption DEF Sides, TransferInv
  <2>3. w \in Nat /\ w = Lesser(SizeOf[k], hc.req.len)
    BY <2>2, WholeFacts
  <2>4. /\ ~b.stall /\ b.dts = 1 /\ b.cnt = Lesser(w, Ep0Size) /\ dev'.source = k
        /\ dev'.staged = [source |-> k, pos |-> 0]
        /\ dev'.pos = 0 + Lesser(w, Ep0Size) /\ dev'.count = w - Lesser(w, Ep0Size)
        /\ dev'.short = IF w >= Ep0Size THEN "notUsed" ELSE "pending"
    BY <1>1, <2>2, <2>3 DEF Replied
  <2>. HIDE DEF w
  <2>5. w - 0 = w /\ Ep0Size \in Nat /\ (w >= Ep0Size <=> ~(Lesser(w, Ep0Size) < Ep0Size))
    BY <2>3, StackAssumption DEF Lesser
  <2>6. Ready(dev', k, 1, 0, w)
    BY <2>4, <2>5 DEF Ready
  <2>. QED BY <2>1, <2>4, <2>6 DEF w
<1>. QED BY <1>3, <1>4

\* A read begins with nothing got.
LEMMA DataSetup ==
  ASSUME DevInv(dev), NEW req \in Requests, Setup(req)
  PROVE  ReadInv' /\ PacketInv'
<1>1. dev'.pktDis
  BY ControlEffect
<1>2. /\ hc'.phase = FirstPhase(req) /\ hc'.got = <<>> /\ hc'.toggle = 1 /\ hc'.req = req
  BY DEF Setup, NoTransfer
<1>3. PacketInv'
  BY <1>1 DEF PacketInv
<1>4. ASSUME hc'.phase \in {"in", "statusOut"} PROVE hc'.phase = "in" /\ ToHost(req)
  BY <1>2, <1>4 DEF FirstPhase
<1>5. ASSUME hc'.phase \in {"in", "statusOut"}
      PROVE  /\ Len(hc'.got) = 0 /\ 0 <= Whole(hc'.req) /\ hc'.got = ReadOf(hc'.req.kind, 0)
  <2>1. Whole(req) \in Nat
    BY <1>4, <1>5, WholeFacts, LinkAssumption
  <2>2. Len(<<>>) = 0 /\ ReadOf(req.kind, 0) = <<>>
    BY DEF ReadOf
  <2>. QED BY <1>2, <2>1, <2>2
<1>6. ReadInv'
  BY <1>1, <1>2, <1>4, <1>5 DEF ReadInv
<1>. QED BY <1>3, <1>6

\* A packet of the data stage: the host asks for the next until it has all.
LEMMA DataPacket ==
  ASSUME DevInv(dev), Sides, ReadInv, PacketInv, DataIn
  PROVE  ReadInv' /\ PacketInv'
<1>. DEFINE k == hc.req.kind
            g == Len(hc.got)
            w == Whole(hc.req)
            n == Lesser(w - g, Ep0Size)
            b == Turn(dev, "in0")
<1>1. /\ hc.phase = "in" /\ Free(dev, "in0") /\ Kept(dev, dev', {"bd", "sie", "ustat"})
      /\ CompletedDone(dev, dev', "in0") /\ Sane(dev)
  BY ControlEffect DEF DataIn, DevInv, Ep0Inv
<1>2. ~dev.pktDis /\ b.own /\ ~b.stall
  BY <1>1 DEF Free, Turn
<1>3. ~Waits(dev, "in0") /\ dev.sie["in0"] = dev.pin /\ dev.pin \in Bit /\ b = dev.bd["in0"][dev.pin]
  <2>1. ~Waits(dev, "in0")
    <3>1. dev.sie["in0"] \in {0, 1}
      BY <1>1, Ep0Pipes DEF Sane, Bit
    <3>. QED BY <1>2, <3>1 DEF DevInv, Ep0Inv, InTurn, Turn
  <2>2. dev.sie["in0"] = dev.pin /\ dev.pin \in Bit
    BY <1>1, <2>1 DEF DevInv, Ep0Inv, InTurn, Sane
  <2>. QED BY <2>1, <2>2 DEF Turn
<1>4. dev.both
  BY <1>1, <1>2, <1>3 DEF Sides, StageInv
<1>5. dev.source = k /\ Ready(dev, k, hc.toggle, g, w)
  BY <1>1, <1>2, <1>3, <1>4 DEF PacketInv
<1>6. g \in Nat /\ g <= w /\ hc.got = ReadOf(k, g)
  BY <1>1 DEF ReadInv
<1>7. hc.req \in Request /\ ToHost(hc.req) /\ w \in Nat /\ w <= hc.req.len /\ hc.req.len \in Nat
  <2>1. hc.req \in Request /\ ToHost(hc.req)
    BY <1>1, LinkAssumption DEF Sides, TransferInv
  <2>. QED BY <2>1, WholeFacts DEF Request
<1>8. n \in Nat /\ g + n <= w /\ (n < Ep0Size => g + n = w) /\ Ep0Size \in Nat
  <2>. HIDE DEF g, w
  <2>. QED BY <1>6, <1>7, StackAssumption DEF Lesser
<1>9. b.dts = hc.toggle /\ b.cnt = n /\ dev.staged.source = k /\ dev.staged.pos = g
  BY <1>3, <1>5 DEF Ready
<1>. DEFINE got == hc.got \o Bytes(dev.staged, b.cnt)
<1>10. got = ReadOf(k, g + n) /\ Len(got) = g + n
  <2>1. Bytes(dev.staged, b.cnt) = [i \in 1 .. n |-> <<k, g + i>>]
    BY <1>9 DEF Bytes
  <2>2. got = ReadOf(k, g) \o [i \in 1 .. n |-> <<k, g + i>>]
    BY <1>6, <2>1
  <2>. HIDE DEF g, w, n, got
  <2>3. got = ReadOf(k, g + n)
    BY <1>6, <1>8, <2>2, ReadOn
  <2>4. g + n \in Nat
    BY <1>6, <1>8
  <2>. QED BY <2>3, <2>4, ReadOn
<1>11. hc' = [hc EXCEPT !.toggle = 1 - @, !.got = got,
                !.phase = IF b.cnt < Ep0Size \/ Len(got) >= hc.req.len THEN "statusOut" ELSE "in"]
  BY <1>9 DEF DataIn
<1>. HIDE DEF got, b
<1>12. /\ hc'.toggle = 1 - hc.toggle /\ hc'.got = got /\ hc'.req = hc.req
       /\ hc'.phase = IF n < Ep0Size \/ g + n >= hc.req.len THEN "statusOut" ELSE "in"
  <2>1. DOMAIN hc = {"phase", "req", "toggle", "got"}
    BY DEF Sides, HostInv
  <2>. HIDE DEF n, g
  <2>. QED BY <1>9, <1>10, <1>11, <2>1
<1>13. /\ dev'.pktDis = dev.pktDis /\ dev'.both = dev.both /\ dev'.source = dev.source /\ dev'.pin = dev.pin
       /\ dev'.pos = dev.pos /\ dev'.count = dev.count /\ dev'.short = dev.short
  BY <1>1 DEF Kept, Fields
<1>. HIDE DEF n, g, w, k
<1>14. ReadInv'
  <2>1. Len(hc'.got) = g + n /\ hc'.got = ReadOf(k, g + n) /\ hc'.req = hc.req /\ ~dev'.pktDis
    BY <1>2, <1>10, <1>12, <1>13
  <2>2. g + n \in Nat /\ g + n <= w
    BY <1>6, <1>8
  <2>3. hc'.phase = "statusOut" => g + n = w
    BY <1>6, <1>7, <1>8, <1>12
  <2>. QED BY <2>1, <2>2, <2>3 DEF ReadInv, k, w
<1>15. PacketInv'
  <2>1. Waits(dev', "in0")
    BY <1>1, CompletedWaits, Ep0Pipes
  <2>. SUFFICES ASSUME hc'.phase = "in"
       PROVE  dev'.source = k /\ Follows(dev', hc'.toggle, g + n, w)
    BY <1>10, <1>12, <2>1 DEF PacketInv, k, w
  <2>2. ~(n < Ep0Size)
    BY <1>12
  <2>3. dev.pos = g + n /\ dev.count = w - g - n /\ dev.short = "notUsed"
    BY <1>5, <2>2 DEF Ready, n
  <2>4. w - g - n = w - (g + n)
    BY <1>6, <1>7, <1>8
  <2>5. dev'.bd["in0"][dev'.pin].dts = hc.toggle
    BY <1>1, <1>3, <1>9, <1>13 DEF CompletedDone
  <2>. QED BY <1>5, <1>12, <1>13, <2>3, <2>4, <2>5 DEF Follows
<1>. QED BY <1>14, <1>15

\* Any step of the host that is not one of a control read's data.
LEMMA DataOther ==
  ASSUME Sides, ReadInv, PacketInv,
         \/ Refused \/ StatusOut \/ DataOut \/ StatusIn \/ GivesUp
         \/ ReportOut \/ ReportIn \/ WriteFails \/ Library \/ Opens
         \/ BusReset \/ Replugged \/ UNCHANGED vars
  PROVE  ReadInv' /\ PacketInv'
<1>1. CASE Refused \/ StatusOut \/ StatusIn \/ GivesUp \/ BusReset \/ Replugged
  <2>1. hc' = NoTransfer
    BY <1>1 DEF Refused, StatusOut, StatusIn, GivesUp, BusReset, Replugged
  <2>. QED BY <2>1, DataIdle DEF NoTransfer
<1>2. CASE DataOut
  <2>. DEFINE n == Lesser(Ep0Size, hc.req.len - Len(hc.got))
  <2>1. hc'.phase \in {"statusIn", "out"}
    <3>1. /\ DOMAIN hc = {"phase", "req", "toggle", "got"}
          /\ hc' = [hc EXCEPT !.toggle = 1 - @,
                      !.got = @ \o [i \in 1 .. n |-> <<"device", 0>>],
                      !.phase = IF Len(hc.got) + n = hc.req.len THEN "statusIn" ELSE "out"]
      BY <1>2 DEF DataOut, Sides, HostInv
    <3>. HIDE DEF n
    <3>. QED BY <3>1
  <2>. QED BY <2>1, DataIdle
<1>3. CASE ReportOut \/ ReportIn
  <2>1. hc' = hc /\ hc.phase = "idle"
    BY <1>3 DEF ReportOut, ReportIn, Usable, Sides, AttachedInv
  <2>. QED BY <2>1, DataIdle
<1>4. CASE WriteFails \/ Library \/ Opens \/ UNCHANGED vars
  <2>1. hc' = hc /\ dev' = dev
    BY <1>4 DEF WriteFails, Library, Opens, busVars, vars
  <2>. QED BY <2>1, DataStill DEF SameData
<1>. QED BY <1>1, <1>2, <1>3, <1>4

\* Every step of the link keeps the host and the device together in the data.
LEMMA DataSteps == LinkInv /\ ReadInv /\ PacketInv /\ [Next]_vars => ReadInv' /\ PacketInv'
<1>. SUFFICES ASSUME LinkInv, ReadInv, PacketInv, [Next]_vars PROVE ReadInv' /\ PacketInv'
  OBVIOUS
<1>1. DevInv(dev) /\ Turns(dev) /\ Sides /\ Sane(dev)
  BY DEF LinkInv, DevInv, Ep0Inv
<1>2. CASE MainChecks \/ TakeCommand \/ AnswerCommand
  BY <1>1, <1>2, DataApplication
<1>3. CASE Interrupt
  <2>1. hc' = hc
    BY <1>3 DEF Interrupt, Device, busVars
  <2>2. dev.ustat # <<>> => dev.ustat[1].pipe \in Pipes1 \cup {"in0", "out0"}
    BY <1>1, TakenEffect DEF Entry, Pipes
  <2>3. ASSUME dev.ustat # <<>>, dev' = ServiceTransaction(dev) PROVE ReadInv' /\ PacketInv'
    BY <1>1, <2>1, <2>2, <2>3, DataInterrupt, DataNext, DataServed
  <2>. QED BY <1>1, <1>3, <2>1, <2>3, DataInterrupt DEF Interrupt
<1>4. CASE StartOfFrame
  BY <1>1, <1>4, DataInterrupt DEF StartOfFrame, Device, busVars
<1>5. CASE \E req \in Requests : Setup(req)
  BY <1>1, <1>5, DataSetup
<1>6. CASE DataIn
  BY <1>1, <1>6, DataPacket
<1>7. CASE ~DataIn /\ (Control \/ GivesUp \/ ReportOut \/ ReportIn \/ WriteFails \/ Library \/ Opens
                       \/ BusReset \/ Replugged \/ UNCHANGED vars)
  BY <1>1, <1>7, DataOther DEF Control
<1>. QED BY <1>2, <1>3, <1>4, <1>5, <1>6, <1>7 DEF Next, Control

\* ControlData: a control read that ends well has brought the host exactly what
\* it asked for, byte for byte and in order, whatever transfers were given up or
\* refused before it (USBCtrlTrfTxService, USBCtrlTrfInHandler).
THEOREM ControlReads == Spec => ControlData
<1>1. Init => ReadInv /\ PacketInv
  BY DEF Init, NoTransfer, ReadInv, PacketInv
<1>2. LinkInv /\ ReadInv /\ PacketInv /\ [Next]_vars => ReadInv' /\ PacketInv'
  BY DataSteps
<1>3. ReadInv =>
        (StatusOut =>
           hc.got = [i \in 1 .. Lesser(hc.req.len, SizeOf[hc.req.kind]) |-> <<hc.req.kind, i>>])
  BY DEF ReadInv, StatusOut, ReadOf, Whole
<1>. QED BY <1>1, <1>2, <1>3, LinkInvariant, PTL DEF Spec, ControlData
=============================================================================
