------------------------------ MODULE BootHost ------------------------------
(***************************************************************************)
(* The PC application of the USB HID bootloader (tools/usb bootloader pc   *)
(* application/Bootloader: MainWindow.cpp, Comm.cpp, Device.cpp).          *)
(*                                                                         *)
(* The GUI thread and the one worker thread it starts never talk to the    *)
(* device at the same time, since the buttons are disabled and the poll    *)
(* timer is stopped while the worker runs: hpc is the position of          *)
(* whichever of the two is running a task, "idle" when the window waits    *)
(* for the user or the timer.  writeFlash stays at its default, TRUE.      *)
(***************************************************************************)
EXTENDS HexImport

CONSTANT Files   \* the hex files the user may open

ASSUME FilesAssumption == Files \subseteq Seq(Record)

VARIABLES
  hpc,          \* where the running task is
  task,         \* what was started last
  handle,       \* boot_device: "open", "stale" (the device has left), "none"
  enabled,      \* setBootloadEnabled
  writeConfig,
  hexOpen,
  view,         \* deviceData->ranges: what the last query reported
  hexView,      \* hexData->ranges: the same when the file was opened
  image,        \* the buffers of hexData->ranges
  region,       \* the range being programmed or read
  addr,         \* address of Program and GetData
  skipping,     \* ~firstAllFFPacketFound
  completed,    \* lastCommandSent = PROGRAM_COMPLETE
  mismatch,     \* a word read back differs
  report        \* outcome of the task, as the text box says

windowVars   == <<enabled, writeConfig, hexOpen, view, hexView, image>>
transferVars == <<region, addr, skipping, completed, mismatch>>
hostVars     == <<hpc, task, handle, windowVars, transferVars, report>>

Views   == {"none", "locked", "unlocked"}

RegionStart(r) == IF r = "config" THEN ConfigStart ELSE UserStart

\* Each range ends where the next one starts.
RegionEnd(v, r) ==
  IF r = "config" THEN ConfigEnd ELSE IF v = "unlocked" THEN ConfigStart ELSE EndNoConfigs

Range(v, r) == RegionStart(r) .. RegionEnd(v, r) - 1

RangesOf(v) ==
  CASE v = "none"     -> {}
    [] v = "locked"   -> Range(v, "program")
    [] v = "unlocked" -> Range(v, "program") \cup Range(v, "config")

\* The constructor of MainWindow; its first PollUSB is a Connection.
Launched ==
  /\ hpc = "idle" /\ task = "none" /\ handle = "none"
  /\ enabled = FALSE /\ writeConfig = FALSE /\ hexOpen = FALSE
  /\ view = "none" /\ hexView = "none" /\ image = BlankImage
  /\ region = "program" /\ addr = UserStart
  /\ skipping = TRUE /\ completed = FALSE /\ mismatch = FALSE
  /\ report = "none"

Start(t, p) == hpc = "idle" /\ task' = t /\ hpc' = p /\ report' = "none"

-----------------------------------------------------------------------------
(* The timer and the user.                                                 *)

\* connected becomes TRUE.
Connection ==
  /\ handle = "none"
  /\ handle' = "open"
  /\ Start("connect", IF writeConfig THEN "lock" ELSE "query")
  /\ UNCHANGED <<windowVars, transferVars, link>>

\* connected becomes FALSE: the poll saw the bus without the device.
Disconnection ==
  /\ hpc = "idle" /\ handle = "stale"
  /\ handle' = "none"
  /\ enabled' = FALSE /\ hexOpen' = FALSE
  /\ UNCHANGED <<hpc, task, writeConfig, view, hexView, image, transferVars, report, link>>

\* The configuration check box changes.
ChangeSettings ==
  /\ enabled
  /\ Start("settings", "lock")
  /\ writeConfig' = ~writeConfig
  /\ hexOpen' = FALSE
  /\ UNCHANGED <<handle, enabled, view, hexView, image, transferVars, link>>

\* File/Open, or the list of recent files, shown while connected.
MayOpen == enabled \/ handle # "none"

\* The ranges of the last query are copied, blank, before the file is looked at.
Import(new) ==
  /\ MayOpen
  /\ hexView' = view
  /\ image' = new
  /\ UNCHANGED <<handle, view, transferVars, link>>

Imported(file) == ImportHexFile(file, RangesOf(view), Range(view, "config"))

\* Configuration words are about to be erased and the file has none.
LacksConfig(file) == writeConfig /\ view = "unlocked" /\ ~Imported(file).hasConfigBits

LoadFile(file) ==
  /\ Imported(file).result = "Success"
  /\ Import(Imported(file).image)
  /\ Start("load", IF LacksConfig(file) THEN "lock" ELSE "idle")
  /\ writeConfig' = (writeConfig /\ ~LacksConfig(file))
  /\ hexOpen' = TRUE /\ enabled' = TRUE

\* ImportHexFile could not open the file, or gives up: what it has read by
\* then stays.
LoadFails(file) ==
  /\ \/ Import(BlankImage)
     \/ Imported(file).result # "Success" /\ Import(Imported(file).image)
  /\ Start("load", "idle")
  /\ UNCHANGED <<enabled, writeConfig, hexOpen>>

\* Mutant: the button stays enabled while the configuration is unlocked.
EraseButton_Always ==
  /\ enabled
  /\ Start("erase", "erase")
  /\ UNCHANGED <<handle, windowVars, transferVars, link>>

EraseButton ==
  /\ enabled /\ ~writeConfig
  /\ Start("erase", "erase")
  /\ UNCHANGED <<handle, windowVars, transferVars, link>>

WriteButton ==
  /\ enabled /\ hexOpen
  /\ Start("write", "erase")
  /\ UNCHANGED <<handle, windowVars, transferVars, link>>

StartRegion(r) ==
  /\ region' = r /\ addr' = RegionStart(r)
  /\ skipping' = TRUE /\ completed' = FALSE /\ mismatch' = FALSE

VerifyButton ==
  /\ enabled /\ hexOpen
  /\ Start("verify", "read")
  /\ StartRegion("program")
  /\ UNCHANGED <<handle, windowVars, link>>

BlankCheckButton ==
  /\ enabled /\ ~writeConfig
  /\ Start("blank", "read")
  /\ StartRegion("program")
  /\ UNCHANGED <<handle, windowVars, link>>

-----------------------------------------------------------------------------
(* Comm::SendPacket and Comm::ReceivePacket.  A transfer on a handle that  *)
(* is not open fails and closes it; the task then gives up.                *)

Send(pkt) ==
  /\ handle = "open" /\ ~Full(outPacket)
  /\ outPacket' = pkt
  /\ UNCHANGED <<handle, inPacket>>

Take ==
  /\ handle = "open" /\ Full(inPacket)
  /\ inPacket' = Empty
  /\ UNCHANGED <<handle, outPacket>>

\* Mutant: only a closed handle is noticed.
Lost_Late == handle = "none"

Lost == handle # "open"

\* A failed Program returns from WriteDevice without IoWithDeviceCompleted,
\* which alone restarts the timer and re-enables the buttons; a failed
\* EraseDevice goes on to Program, which fails as well.
GiveUp ==
  /\ Lost
  /\ handle' = "none"
  /\ CASE task = "write" /\ hpc \notin {"read", "reply"} -> hpc' = "stuck" /\ UNCHANGED report
       [] task = "connect" /\ hpc = "lock" -> hpc' = "query" /\ UNCHANGED report
       [] OTHER -> hpc' = "idle" /\ report' = "failed"
  /\ UNCHANGED <<task, windowVars, transferVars, link>>

-----------------------------------------------------------------------------
(* LockUnlockConfig, ReadBootloaderInfo with GetQuery, Erase, Reset.       *)

LockUnlockConfig ==
  /\ hpc = "lock"
  /\ Send([Plain("UNLOCK_CONFIG") EXCEPT !.unlock = writeConfig])
  /\ hpc' = IF task = "load" THEN "idle" ELSE "query"
  /\ UNCHANGED <<task, windowVars, transferVars, report>>

SendQuery ==
  /\ hpc = "query"
  /\ Send(Plain("QUERY_DEVICE"))
  /\ hpc' = "answer"
  /\ UNCHANGED <<task, windowVars, transferVars, report>>

Understood == inPacket.cmd = "QUERY_DEVICE"

GetQuery ==
  /\ hpc = "answer" /\ task \in {"connect", "settings"}
  /\ Take
  /\ hpc' = "idle"
  /\ IF Understood
       THEN /\ view' = IF inPacket.unlock THEN "unlocked" ELSE "locked"
            /\ enabled' = TRUE
       ELSE UNCHANGED <<view, enabled>>
  /\ UNCHANGED <<task, writeConfig, hexOpen, hexView, image, transferVars, report>>

Erase ==
  /\ hpc = "erase"
  /\ Send(Plain("ERASE_DEVICE"))
  /\ hpc' = "query"
  /\ UNCHANGED <<task, windowVars, transferVars, report>>

\* The end of EraseDevice; WriteDevice does not look at its outcome.
EraseAnswered ==
  /\ hpc = "answer" /\ task \in {"erase", "write"}
  /\ Take
  /\ IF task = "write"
       THEN hpc' = "program" /\ StartRegion("program") /\ UNCHANGED report
       ELSE /\ hpc' = "idle"
            /\ report' = IF Understood THEN "success" ELSE "failed"
            /\ UNCHANGED transferVars
  /\ UNCHANGED <<task, windowVars>>

Reset ==
  /\ hpc = "idle" /\ enabled
  /\ \/ Send(Plain("RESET_DEVICE"))
     \/ handle = "stale" /\ handle' = "none" /\ UNCHANGED link
  /\ UNCHANGED <<hpc, task, windowVars, transferVars, report>>

-----------------------------------------------------------------------------
(* Comm::Program over the ranges of the file, one packet per iteration.    *)

ProgramEnd == RegionEnd(hexView, region)

Shorter(n) == IF n < PacketWords THEN n ELSE PacketWords

ProgramSize == Shorter(ProgramEnd - addr)

ProgramPacket ==
  [Plain("PROGRAM_DEVICE") EXCEPT
     !.addr = addr, !.size = ProgramSize,
     !.data = [s \in Slot |->
       IF s >= PacketWords - ProgramSize
         THEN image[addr + s - (PacketWords - ProgramSize)] ELSE Blank]]

AllBlank == \A a \in addr .. addr + ProgramSize - 1 : image[a] = Blank

\* Mutant: firstAllFFPacketFound is not set again after a packet of data.
DataSent_Once == skipping' = TRUE /\ completed' = FALSE

DataSent == skipping' = FALSE /\ completed' = FALSE

\* Mutant: no PROGRAM_COMPLETE after the last packet of a range.
AfterLoop_Ends(complete) == "programmed"

AfterLoop(complete) == IF complete THEN "programmed" ELSE "complete"

ProgramIterates ==
  /\ hpc = "program"
  /\ \/ /\ ~AllBlank
        /\ Send(ProgramPacket)
        /\ DataSent
     \/ /\ AllBlank /\ ~skipping
        /\ Send(Plain("PROGRAM_COMPLETE"))
        /\ skipping' = TRUE /\ completed' = TRUE
     \/ /\ AllBlank /\ skipping
        /\ UNCHANGED <<skipping, completed, handle, link>>
  /\ addr' = addr + PacketWords
  /\ hpc' = IF addr' < ProgramEnd THEN "program" ELSE AfterLoop(completed')
  /\ UNCHANGED <<task, windowVars, region, mismatch, report>>

ProgramCompletes ==
  /\ hpc = "complete"
  /\ Send(Plain("PROGRAM_COMPLETE"))
  /\ hpc' = "programmed"
  /\ UNCHANGED <<task, windowVars, transferVars, report>>

\* The next range of the file; after the last, WriteDevice calls VerifyDevice.
NextRange ==
  /\ hpc = "programmed"
  /\ IF region = "program" /\ hexView = "unlocked" /\ writeConfig
       THEN hpc' = "program" /\ StartRegion("config")
       ELSE hpc' = "read" /\ StartRegion("program")
  /\ UNCHANGED <<task, handle, windowVars, report, link>>

-----------------------------------------------------------------------------
(* Comm::GetData over the ranges of the device, and the comparisons of     *)
(* VerifyDevice and BlankCheckDevice.                                      *)

ReadEnd == RegionEnd(view, region)

SendRead ==
  /\ hpc = "read" /\ addr < ReadEnd
  /\ Send([Plain("GET_DATA") EXCEPT !.addr = addr, !.size = Shorter(ReadEnd - addr)])
  /\ hpc' = "reply"
  /\ UNCHANGED <<task, windowVars, transferVars, report>>

\* The reply is believed to be the one asked for.
ReadWords == [a \in addr .. addr + inPacket.size - 1 |-> Payload(inPacket, a - addr)]

\* Mutant: the configuration words are read back but not compared.
Compared_Program == DOMAIN ReadWords \cap Range(hexView, "program")

Compared == DOMAIN ReadWords \cap RangesOf(hexView)

Differs ==
  IF task = "blank"
    THEN \E a \in DOMAIN ReadWords : ReadWords[a] # Blank
    ELSE \E a \in Compared : ReadWords[a] # image[a]

\* The range of the file is shorter than the device's: the comparison runs
\* over the end of the file's buffer.
Overrun ==
  /\ task # "blank" /\ region = "program"
  /\ DOMAIN ReadWords \cap RangesOf(hexView) # DOMAIN ReadWords

ReceiveRead ==
  /\ hpc = "reply"
  /\ Take
  /\ addr' = addr + inPacket.size
  /\ mismatch' \in {mismatch \/ Differs, mismatch \/ Differs \/ Overrun}
  /\ hpc' = "read"
  /\ UNCHANGED <<task, windowVars, region, skipping, completed, report>>

RangeRead ==
  /\ hpc = "read" /\ addr >= ReadEnd
  /\ IF ~mismatch /\ task # "blank" /\ region = "program" /\ view = "unlocked" /\ writeConfig
       THEN StartRegion("config") /\ UNCHANGED <<hpc, report>>
       ELSE /\ hpc' = "idle"
            /\ report' = IF mismatch THEN "failed" ELSE "success"
            /\ UNCHANGED transferVars
  /\ UNCHANGED <<task, handle, windowVars, link>>

-----------------------------------------------------------------------------
\* The points at which a task sends or waits.
AtTransfer ==
  \/ hpc \in {"lock", "query", "answer", "erase", "complete", "reply"}
  \/ hpc = "program" /\ ~(AllBlank /\ skipping)
  \/ hpc = "read" /\ addr < ReadEnd

TransferFails == AtTransfer /\ GiveUp

\* The application is closed, or killed when nothing else is possible, and
\* started again.
Relaunch ==
  /\ hpc \in {"idle", "stuck"}
  /\ hpc' = "idle" /\ task' = "none" /\ handle' = "none"
  /\ enabled' = FALSE /\ writeConfig' = FALSE /\ hexOpen' = FALSE
  /\ view' = "none" /\ hexView' = "none" /\ image' = BlankImage
  /\ StartRegion("program")
  /\ report' = "none"
  /\ UNCHANGED link

Tasks ==
  \/ TransferFails
  \/ LockUnlockConfig \/ SendQuery \/ GetQuery
  \/ Erase \/ EraseAnswered
  \/ ProgramIterates \/ ProgramCompletes \/ NextRange
  \/ SendRead \/ ReceiveRead \/ RangeRead

=============================================================================
