-------------------------- MODULE BootUpdateProofs --------------------------
(***************************************************************************)
(* On a device that stays on the bus, and with files that hold the         *)
(* configuration words, BootSystem implements FlashImage: a refinement,    *)
(* step by step, for every layout and with or without restarts of the      *)
(* application.  Without either hypothesis it does not: a configuration    *)
(* that is locked behind the application's back (the run auto_lock has one *)
(* way) lets it program words that have not been erased.                   *)
(***************************************************************************)
EXTENDS BootSystemProofs

\* Every file the application accepts has a word for the configuration.
FilesComplete ==
  \A file \in Files :
    LET import == ImportHexFile(file, RangesOf("unlocked"), Range("unlocked", "config"))
    IN  import.result = "Success" => import.hasConfigBits

-----------------------------------------------------------------------------
(* What is known besides SystemInv.                                        *)

\* The device never leaves, so that no transfer fails.
Attached ==
  /\ handle # "stale" /\ hpc # "stuck"
  /\ handle = "none" => hpc = "idle" /\ ~enabled /\ ~hexOpen
  /\ outPacket.cmd # "RESET_DEVICE"
  /\ pc # "idle" => packet.cmd # "RESET_DEVICE"

\* The application is finding out what the device will let it program.
Learning == task \in {"connect", "settings"} /\ hpc \in {"lock", "query", "answer"}

Transferring == hpc \in {"program", "complete", "programmed", "read", "reply"}

\* Nothing is running in the device or on its way to it.
Still == pc = "idle" /\ ~Full(outPacket)

Outstanding(cmd) == outPacket.cmd = cmd \/ Running(cmd)

\* Each command belongs to the task that sent it: a task ends with an answer,
\* when everything sent before it has been dealt with.
Tasked ==
  /\ hpc = "lock" => Learning
  /\ hpc \in {"idle", "lock", "erase"} => Still
  /\ (hpc = "read" /\ ReadBack # {}) => Still
  /\ hpc \in {"program", "complete", "programmed"} => task = "write"
  /\ hpc = "erase" => task \in {"erase", "write"}
  /\ Outstanding("UNLOCK_CONFIG") => Learning
  /\ Outstanding("ERASE_DEVICE") => task \in {"erase", "write"} /\ hpc \in {"query", "answer"}
  /\ (\/ Outstanding("PROGRAM_DEVICE") \/ Outstanding("PROGRAM_COMPLETE")
      \/ pointer # InvalidAddress) => task = "write" /\ Transferring

\* The application knows whether the configuration words are unlocked, and
\* the file it writes was opened knowing it.
Known ==
  /\ (view = "unlocked" /\ ~Learning) => ~configsProtected
  /\ inPacket.cmd = "QUERY_DEVICE" => inPacket.unlock = ~configsProtected
  /\ view = "none" => handle = "none" \/ (Learning /\ task = "connect")
  /\ hexOpen => hexView = view /\ view # "none" /\ ~Learning
  /\ (task \in {"write", "verify"} /\ (hpc # "idle" \/ report = "success")) =>
       hexView = view /\ view # "none"

\* A write programs words of the file's ranges, and finds them erased.
InFile(pkt) == \A i \in 0 .. pkt.size - 1 : pkt.addr + i \in RangesOf(hexView)

Cleared ==
  /\ pc = "erase" => \A a \in UserStart .. erasePage * PageWords - 1 : flash[a] = Blank
  /\ (task = "write" /\ hpc \in {"query", "answer"} /\ ~Outstanding("ERASE_DEVICE")) =>
       \A a \in RangesOf(hexView) : flash[a] = Blank
  /\ (task = "write" /\ Transferring) =>
       \A a \in RangesOf(hexView) : flash[a] \in {Blank, image[a]}

InRange ==
  /\ outPacket.cmd = "PROGRAM_DEVICE" => InFile(outPacket)
  /\ Running("PROGRAM_DEVICE") => InFile(packet)
  /\ \A w \in Buffered : w[1] \in RangesOf(hexView)
  /\ (hpc = "program" /\ region = "config") => hexView = "unlocked"

UpdateInv == SystemInv /\ Attached /\ Tasked /\ Known /\ Cleared /\ InRange

-----------------------------------------------------------------------------
(* The steps that are left.                                                *)

Stays ==
  \/ DeviceSteps /\ UNCHANGED hostVars
  \/ Tasks /\ ~TransferFails /\ UNCHANGED deviceVars
  \/ User /\ ~Disconnection /\ UNCHANGED deviceVars

LEMMA AllStay ==
  ASSUME MaxFaults = 0, SystemInv, Attached, Next
  PROVE  Stays
<1>1. faults \in 0 .. 0
  BY DEF SystemInv, HostTypeOK
<1>2. ~DeviceLeaves /\ ~UserResets
  BY <1>1 DEF DeviceLeaves, UserResets
<1>3. ~DeviceResets
  BY DEF DeviceResets, ResetDevice, Dispatched, Attached
<1>4. ~TransferFails
  BY DEF TransferFails, AtTransfer, GiveUp, Lost, Attached, SystemInv, HostTypeOK
<1>5. ~Disconnection
  BY DEF Disconnection, Attached
<1> QED
  BY <1>2, <1>3, <1>4, <1>5 DEF Next, Device, Worker, User, Stays

\* What the user does, he does while the application waits for him and holds
\* an open handle, but for connecting and starting it again.
LEMMA UserStays ==
  ASSUME HostTypeOK, Attached, Tasked, User, ~Disconnection
  PROVE  /\ hpc = "idle" /\ Still /\ UNCHANGED link
         /\ pointer = InvalidAddress
         /\ Connection \/ Relaunch \/ handle = "open"
<1>1. hpc = "idle"
  BY DEF User, Connection, ChangeSettings, LoadFile, LoadFails, Start, EraseButton, WriteButton,
         VerifyButton, BlankCheckButton, Relaunch, Attached
<1>2. UNCHANGED link
  BY LocalLink DEF User, Local
<1>3. Connection \/ Relaunch \/ handle \notin {"none", "stale"}
  BY DEF User, ChangeSettings, LoadFile, LoadFails, Import, MayOpen, EraseButton, WriteButton,
         VerifyButton, BlankCheckButton, Attached
<1> QED
  BY <1>1, <1>2, <1>3 DEF Tasked, Transferring, HostTypeOK

\* A task that runs holds an open handle, and keeps it.
LEMMA TaskOpen ==
  ASSUME HostTypeOK, Attached, Tasks, ~TransferFails
  PROVE  /\ hpc # "idle" /\ hpc' # "stuck" /\ handle = "open" /\ handle' = "open"
         /\ UNCHANGED <<task, writeConfig, hexOpen, hexView, image>>
<1>1. hpc # "idle"
  BY DEF Tasks, LockUnlockConfig, SendQuery, GetQuery, Erase, EraseAnswered, ProgramIterates,
         ProgramCompletes, NextRange, SendRead, ReceiveRead, RangeRead
<1>2. hpc' # "stuck"
  BY <1>1 DEF Tasks, LockUnlockConfig, SendQuery, GetQuery, Erase, EraseAnswered, ProgramIterates,
         AfterLoop, ProgramCompletes, NextRange, SendRead, ReceiveRead, RangeRead, Attached
<1>3. handle' = handle
  BY DEF Tasks, LockUnlockConfig, SendQuery, GetQuery, Erase, EraseAnswered, ProgramIterates,
         ProgramCompletes, NextRange, SendRead, ReceiveRead, RangeRead, Send, Take
<1>4. UNCHANGED <<task, writeConfig, hexOpen, hexView, image>>
  BY DEF Tasks, LockUnlockConfig, SendQuery, GetQuery, Erase, EraseAnswered, ProgramIterates,
         ProgramCompletes, NextRange, SendRead, ReceiveRead, RangeRead, windowVars
<1> QED
  BY <1>1, <1>2, <1>3, <1>4 DEF Attached, HostTypeOK

\* What a task sends, and from where.
LEMMA TaskSends ==
  ASSUME HostTypeOK, Progress, Exchange, Tasks, ~TransferFails
  PROVE  \/ outPacket' = outPacket
         \/ /\ ~Full(outPacket)
            /\ \/ hpc = "lock" /\ outPacket'.cmd = "UNLOCK_CONFIG"
               \/ hpc = "query" /\ outPacket'.cmd = "QUERY_DEVICE"
               \/ hpc = "erase" /\ outPacket'.cmd = "ERASE_DEVICE"
               \/ hpc = "program" /\ outPacket' = ProgramPacket
                    /\ outPacket'.cmd = "PROGRAM_DEVICE"
               \/ hpc \in {"program", "complete"} /\ outPacket'.cmd = "PROGRAM_COMPLETE"
               \/ hpc = "read" /\ outPacket'.cmd = "GET_DATA"
<1> USE DEF Send, Commands
<1>1. CASE LockUnlockConfig
  BY <1>1, LockWellFormed DEF LockUnlockConfig
<1>2. CASE SendQuery
  BY <1>2, PlainFacts DEF SendQuery
<1>3. CASE GetQuery \/ EraseAnswered \/ NextRange \/ ReceiveRead \/ RangeRead
  BY <1>3 DEF GetQuery, EraseAnswered, NextRange, ReceiveRead, RangeRead, Take, link
<1>4. CASE Erase
  BY <1>4, PlainFacts DEF Erase
<1>5. CASE ProgramIterates
  BY <1>5, PlainFacts, ProgramPacketFacts DEF ProgramIterates, link
<1>6. CASE ProgramCompletes
  BY <1>6, PlainFacts DEF ProgramCompletes
<1>7. CASE SendRead
  BY <1>7, ReadPacketFacts DEF SendRead
<1> QED
  BY <1>1, <1>2, <1>3, <1>4, <1>5, <1>6, <1>7 DEF Tasks

\* The device takes up no command that was not on its way.
LEMMA OutstandingNext ==
  ASSUME DeviceInv, DeviceSteps, NEW cmd \in Commands, Outstanding(cmd)'
  PROVE  Outstanding(cmd)
<1>1. Empty.cmd # cmd
  BY PlainFacts DEF Empty, Commands
<1> QED
  BY <1>1, PacketNext DEF Outstanding, Running

-----------------------------------------------------------------------------
(* Attached.                                                               *)

LEMMA AttachedNext ==
  ASSUME SystemInv, Attached, Tasked, Stays
  PROVE  Attached'
<1> USE DEF SystemInv
<1>1. CASE DeviceSteps /\ UNCHANGED hostVars
  <2>1. Empty.cmd = "none"
    BY PlainFacts DEF Empty
  <2> QED
    BY <1>1, <2>1, PacketNext DEF Attached, hostVars, windowVars
<1>2. CASE Tasks /\ ~TransferFails /\ UNCHANGED deviceVars
  <2>1. outPacket'.cmd # "RESET_DEVICE"
    BY <1>2, TaskSends DEF Attached
  <2> QED
    BY <1>2, <2>1, TaskOpen DEF Attached, deviceVars
<1>3. CASE User /\ ~Disconnection /\ UNCHANGED deviceVars
  <2>1. /\ hpc = "idle" /\ UNCHANGED link
        /\ Connection \/ Relaunch \/ handle = "open"
    BY <1>3, UserStays
  <2>2. \/ handle' = "open"
        \/ handle' = "none" /\ hpc' = "idle" /\ ~enabled' /\ ~hexOpen'
    BY <1>3, <2>1 DEF User, Connection, ChangeSettings, LoadFile, LoadFails, Import, EraseButton,
       WriteButton, VerifyButton, BlankCheckButton, Relaunch
  <2>3. hpc' # "stuck"
    BY <1>3 DEF User, Connection, ChangeSettings, LoadFile, LoadFails, Start, EraseButton,
       WriteButton, VerifyButton, BlankCheckButton, Relaunch
  <2> QED
    BY <1>3, <2>1, <2>2, <2>3 DEF Attached, link, deviceVars
<1> QED
  BY <1>1, <1>2, <1>3 DEF Stays

-----------------------------------------------------------------------------
(* Tasked.                                                                 *)

LEMMA TaskedDevice ==
  ASSUME SystemInv, Tasked, DeviceSteps, UNCHANGED hostVars
  PROVE  Tasked'
<1>1. UNCHANGED <<hpc, task, view, region, addr>>
  BY DEF hostVars, windowVars, transferVars
<1>2. ~Still
  BY DEF Still, DeviceSteps, Receive, QueryDevice, UnlockConfig, EraseDevice, EraseFlash, EraseEnds,
         ProgramDevice, BufferWord, ProgramEnds, ProgramComplete, WriteInstruction, FlushEnds,
         GetData, Dispatched
<1>3. ReadBack' = ReadBack
  BY <1>1 DEF ReadBack, Range, RegionStart, RegionEnd
<1>4. \A cmd \in Commands : Outstanding(cmd)' => Outstanding(cmd)
  BY OutstandingNext DEF SystemInv
<1>5. pointer' # InvalidAddress =>
        \/ Outstanding("PROGRAM_DEVICE") \/ Outstanding("PROGRAM_COMPLETE")
        \/ pointer # InvalidAddress
  BY PacketNext DEF Outstanding, Running, Programming, SystemInv
<1> QED
  BY <1>1, <1>2, <1>3, <1>4, <1>5 DEF Tasked, Learning, Transferring, Commands

\* After an answer nothing is outstanding.
LEMMA AnswerStill ==
  ASSUME Exchange, Take, UNCHANGED deviceVars
  PROVE  Still /\ Still'
BY AnswerTaken DEF Still, deviceVars

LEMMA StillFacts ==
  ASSUME Still
  PROVE  \A cmd \in Commands : ~Outstanding(cmd)
BY DEF Still, Outstanding, Running, Full, Commands

LEMMA StillFactsNext ==
  ASSUME Still'
  PROVE  \A cmd \in Commands : ~Outstanding(cmd)'
BY DEF Still, Outstanding, Running, Full, Commands

\* A step of the application that sends cmd.
LEMMA OutstandingSent ==
  ASSUME UNCHANGED deviceVars, NEW cmd \in Commands, Outstanding(cmd)'
  PROVE  Outstanding(cmd) \/ (outPacket' # outPacket /\ outPacket'.cmd = cmd)
BY DEF Outstanding, Running, deviceVars

\* The read that ends a range.
LEMMA RangeStill ==
  ASSUME SystemInv, Tasked, RangeRead, UNCHANGED deviceVars
  PROVE  Still /\ Still' /\ pointer = InvalidAddress
<1>1. ReadEnd \in Nat /\ RegionStart(region) \in Nat /\ RegionStart(region) < ReadEnd
      /\ ReadEnd <= addr /\ addr \in Nat /\ hpc = "read"
  BY RegionFacts DEF RangeRead, ReadEnd, SystemInv, HostTypeOK
<1>2. RegionStart(region) \in ReadBack
  BY <1>1 DEF ReadBack
<1>3. pointer = InvalidAddress
  BY ReadEnds DEF SystemInv
<1> QED
  BY <1>1, <1>2, <1>3 DEF Tasked, Still, RangeRead, link, deviceVars

LEMMA TaskedTasks ==
  ASSUME SystemInv, Attached, Tasked, Tasks, ~TransferFails, UNCHANGED deviceVars
  PROVE  Tasked'
<1> USE DEF SystemInv
<1>1. pointer' = pointer /\ task' = task
  BY TaskOpen DEF deviceVars, progVars
<1>2. ASSUME Still', hpc' # "lock", pointer = InvalidAddress \/ (task = "write" /\ Transferring'),
             hpc' \in {"program", "complete", "programmed"} => task = "write",
             hpc' = "erase" => task \in {"erase", "write"}
      PROVE  Tasked'
  BY <1>1, <1>2, StillFactsNext DEF Tasked, Commands
<1>3. CASE LockUnlockConfig
  <2>1. Still /\ Learning /\ hpc' = "query" /\ outPacket'.cmd = "UNLOCK_CONFIG"
        /\ pointer = InvalidAddress
    BY <1>3, LockWellFormed DEF LockUnlockConfig, Send, Tasked, Learning, Transferring
  <2> QED
    BY <1>1, <2>1 DEF Tasked, Learning, Still, Outstanding, Running, deviceVars
<1>4. CASE SendQuery
  <2>1. hpc = "query" /\ hpc' = "answer" /\ outPacket'.cmd = "QUERY_DEVICE"
    BY <1>4, PlainFacts DEF SendQuery, Send, Commands
  <2> QED
    BY <1>1, <2>1 DEF Tasked, Learning, Transferring, Outstanding, Running, deviceVars
<1>5. CASE GetQuery
  <2>1. Still' /\ hpc = "answer" /\ hpc' = "idle"
    BY <1>5, AnswerStill DEF GetQuery
  <2> QED
    BY <1>2, <2>1 DEF Tasked, Transferring
<1>6. CASE Erase
  <2>1. /\ Still /\ task \in {"erase", "write"} /\ hpc' = "query"
        /\ outPacket'.cmd = "ERASE_DEVICE" /\ pointer = InvalidAddress
    BY <1>6, PlainFacts DEF Erase, Send, Commands, Tasked, Transferring
  <2> QED
    BY <1>1, <2>1 DEF Tasked, Learning, Still, Outstanding, Running, deviceVars
<1>7. CASE EraseAnswered
  <2>1. Still' /\ hpc = "answer" /\ (hpc' = "idle" \/ (hpc' = "program" /\ task = "write"))
    BY <1>7, AnswerStill DEF EraseAnswered
  <2> QED
    BY <1>2, <2>1 DEF Tasked, Transferring
<1>8. CASE ProgramIterates \/ ProgramCompletes
  <2>1. hpc \in {"program", "complete"} /\ hpc' \in {"program", "programmed", "complete"}
    BY <1>8 DEF ProgramIterates, AfterLoop, ProgramCompletes
  <2>2. task = "write" /\ ~Outstanding("UNLOCK_CONFIG") /\ ~Outstanding("ERASE_DEVICE")
    BY <2>1 DEF Tasked, Learning
  <2>3. outPacket' = outPacket \/ outPacket'.cmd \in Programming
    BY <1>8, TaskSends, <2>1 DEF Programming
  <2> QED
    BY <1>1, <2>1, <2>2, <2>3
    DEF Tasked, Learning, Transferring, Outstanding, Running, Programming, deviceVars
<1>9. CASE NextRange
  <2>1. hpc = "programmed" /\ hpc' \in {"program", "read"} /\ UNCHANGED link /\ task = "write"
    BY <1>9 DEF NextRange, Tasked
  <2>2. hpc' = "read" => ReadBack' = {}
    BY <1>9, ReadBackStarts DEF NextRange, StartRegion
  <2> QED
    BY <1>1, <2>1, <2>2 DEF Tasked, Learning, Transferring, Outstanding, Running, deviceVars, link
<1>10. CASE SendRead
  <2>1. hpc = "read" /\ hpc' = "reply" /\ outPacket'.cmd = "GET_DATA"
    BY <1>10, ReadPacketFacts DEF SendRead, Send
  <2> QED
    BY <1>1, <2>1 DEF Tasked, Learning, Transferring, Outstanding, Running, deviceVars
<1>11. CASE ReceiveRead
  <2>1. Still' /\ hpc = "reply" /\ hpc' = "read"
    BY <1>11, AnswerStill DEF ReceiveRead
  <2> QED
    BY <1>2, <2>1 DEF Tasked, Transferring
<1>12. CASE RangeRead
  <2>1. Still' /\ pointer = InvalidAddress /\ hpc' \in {"read", "idle"}
    BY <1>12, RangeStill DEF RangeRead
  <2> QED
    BY <1>2, <2>1
<1> QED
  BY <1>3, <1>4, <1>5, <1>6, <1>7, <1>8, <1>9, <1>10, <1>11, <1>12 DEF Tasks

\* No configuration words are taken away from a file that has them.
LEMMA NothingLacks ==
  ASSUME FilesComplete, NEW file \in Files, LoadFile(file)
  PROVE  ~LacksConfig(file)
BY DEF FilesComplete, LoadFile, LacksConfig, Imported

LEMMA TaskedUser ==
  ASSUME FilesComplete, SystemInv, Attached, Tasked, User, ~Disconnection, UNCHANGED deviceVars
  PROVE  Tasked'
<1>1. Still' /\ pointer' = InvalidAddress
  BY UserStays DEF Still, link, deviceVars, progVars, SystemInv
<1>2. hpc' \in {"lock", "query"} => Learning'
  BY NothingLacks DEF User, Connection, ChangeSettings, LoadFile, LoadFails, Start, EraseButton,
     WriteButton, VerifyButton, BlankCheckButton, Relaunch, Learning
<1>3. hpc' \in {"idle", "lock", "query", "erase", "read"}
      /\ (hpc' = "erase" => task' \in {"erase", "write"})
  BY DEF User, Connection, ChangeSettings, LoadFile, LoadFails, Start, EraseButton,
     WriteButton, VerifyButton, BlankCheckButton, Relaunch
<1> QED
  BY <1>1, <1>2, <1>3, StillFactsNext DEF Tasked, Commands

LEMMA TaskedNext ==
  ASSUME FilesComplete, SystemInv, Attached, Tasked, Stays
  PROVE  Tasked'
BY TaskedDevice, TaskedTasks, TaskedUser DEF Stays

-----------------------------------------------------------------------------
(* Known.                                                                  *)

LEMMA KnownDevice ==
  ASSUME SystemInv, Tasked, Known, DeviceSteps, UNCHANGED hostVars
  PROVE  Known'
<1>1. UNCHANGED <<hpc, task, view, hexView, hexOpen, handle, report>>
  BY DEF hostVars, windowVars
<1>2. configsProtected' = configsProtected \/ (UnlockConfig /\ Learning)
  BY DEF DeviceSteps, Receive, QueryDevice, EraseDevice, EraseFlash, EraseEnds, ProgramDevice,
         BufferWord, ProgramEnds, ProgramComplete, WriteInstruction, FlushEnds, GetData,
         UnlockConfig, Dispatched, Tasked, Outstanding, Running
<1>3. inPacket'.cmd = "QUERY_DEVICE" => inPacket'.unlock = ~configsProtected'
  <2>1. CASE QueryDevice
    BY <2>1 DEF QueryDevice
  <2>2. CASE GetData
    BY <2>2 DEF GetData
  <2>3. CASE UnlockConfig
    BY <2>3 DEF UnlockConfig, Dispatched, link, SystemInv, Exchange, Full
  <2>4. CASE UNCHANGED <<inPacket, configsProtected>>
    BY <2>4 DEF Known
  <2> QED
    BY <2>1, <2>2, <2>3, <2>4 DEF DeviceSteps, Receive, EraseDevice, EraseFlash, EraseEnds,
       ProgramDevice, BufferWord, ProgramEnds, ProgramComplete, WriteInstruction, FlushEnds, link
<1> QED
  BY <1>1, <1>2, <1>3 DEF Known, Learning

LEMMA KnownTasks ==
  ASSUME SystemInv, Attached, Tasked, Known, Tasks, ~TransferFails, UNCHANGED deviceVars
  PROVE  Known'
<1>1. /\ hpc # "idle" /\ handle' = handle
      /\ UNCHANGED <<task, hexOpen, hexView>> /\ configsProtected' = configsProtected
  BY TaskOpen DEF SystemInv, deviceVars
<1>2. inPacket' \in {inPacket, Empty} /\ Empty.cmd = "none"
  BY HostLink, PlainFacts DEF SystemInv, HostActs, Empty
<1>3. CASE GetQuery
  <2>1. /\ Learning /\ ~Learning' /\ Understood /\ inPacket.cmd = "QUERY_DEVICE"
    BY <1>3, AnswerTaken DEF SystemInv, GetQuery, Learning, Expected, Understood
  <2>2. view' = IF inPacket.unlock THEN "unlocked" ELSE "locked"
    BY <1>3, <2>1 DEF GetQuery
  <2>3. inPacket.unlock = ~configsProtected
    BY <2>1 DEF Known
  <2>4. view' \in {"unlocked", "locked"} /\ (view' = "unlocked" => ~configsProtected)
    BY <2>2, <2>3
  <2>5. ~hexOpen /\ task \notin {"write", "verify"}
    BY <2>1 DEF Known, Learning
  <2> QED
    BY <1>1, <1>2, <2>3, <2>4, <2>5 DEF Known
<1>4. CASE ~GetQuery
  <2>1. view' = view
    BY <1>4 DEF Tasks, LockUnlockConfig, SendQuery, Erase, EraseAnswered, ProgramIterates,
       ProgramCompletes, NextRange, SendRead, ReceiveRead, RangeRead, windowVars
  <2>2. Learning' = Learning
    BY <1>4, <1>1 DEF Tasks, LockUnlockConfig, SendQuery, Erase, EraseAnswered, ProgramIterates, AfterLoop,
       ProgramCompletes, NextRange, SendRead, ReceiveRead, RangeRead, Learning, Tasked
  <2> QED
    BY <1>1, <1>2, <2>1, <2>2 DEF Known
<1> QED
  BY <1>3, <1>4

LEMMA KnownUser ==
  ASSUME FilesComplete, SystemInv, Attached, Tasked, Known, User, ~Disconnection,
         UNCHANGED deviceVars
  PROVE  Known'
<1>1. /\ hpc = "idle" /\ ~Learning /\ inPacket' = inPacket
      /\ configsProtected' = configsProtected
      /\ Connection \/ Relaunch \/ handle = "open"
  BY UserStays DEF SystemInv, Learning, link, deviceVars
<1>2. handle = "open" => view # "none"
  BY <1>1 DEF Known
<1>3. CASE Connection
  BY <1>1, <1>3 DEF Connection, Start, windowVars, Known, Learning, Attached
<1>4. CASE ChangeSettings
  <2>1. handle = "open"
    BY <1>4 DEF ChangeSettings, Attached, SystemInv, HostTypeOK
  <2> QED
    BY <1>1, <1>2, <1>4, <2>1 DEF ChangeSettings, Start, Known, Learning
<1>5. ASSUME NEW file \in Files, LoadFile(file) \/ LoadFails(file) PROVE Known'
  <2>1. /\ handle = "open" /\ handle' = handle /\ view' = view /\ hexView' = view
        /\ task' = "load"
    BY <1>5 DEF LoadFile, LoadFails, Import, MayOpen, Start, Attached, SystemInv, HostTypeOK
  <2> QED
    BY <1>1, <1>2, <2>1 DEF Known, Learning
<1>6. CASE EraseButton \/ WriteButton \/ VerifyButton \/ BlankCheckButton
  <2>1. /\ UNCHANGED <<view, hexView, hexOpen, handle>> /\ hpc' \in {"erase", "read"}
        /\ task' \in {"erase", "blank"} \/ hexOpen
    BY <1>6 DEF EraseButton, WriteButton, VerifyButton, BlankCheckButton, Start, windowVars
  <2> QED
    BY <1>1, <2>1 DEF Known, Learning
<1>7. CASE Relaunch
  BY <1>1, <1>7 DEF Relaunch, Known, Learning
<1> QED
  BY <1>3, <1>4, <1>5, <1>6, <1>7 DEF User

LEMMA KnownNext ==
  ASSUME FilesComplete, SystemInv, Attached, Tasked, Known, Stays
  PROVE  Known'
BY KnownDevice, KnownTasks, KnownUser DEF Stays

-----------------------------------------------------------------------------
(* InRange.                                                                *)

LEMMA RangesKept ==
  ASSUME hexView' = hexView
  PROVE  RangesOf(hexView)' = RangesOf(hexView)
BY DEF RangesOf, Range, RegionStart, RegionEnd

LEMMA InRangeDevice ==
  ASSUME SystemInv, InRange, DeviceSteps, UNCHANGED hostVars
  PROVE  InRange'
<1>1. UNCHANGED <<hpc, region, hexView>> /\ RangesOf(hexView)' = RangesOf(hexView)
  BY RangesKept DEF hostVars, windowVars, transferVars
<1>2. Empty.cmd = "none"
  BY PlainFacts DEF Empty
<1>3. (outPacket.cmd = "PROGRAM_DEVICE" => InFile(outPacket))'
  BY <1>1, <1>2, PacketNext DEF SystemInv, InRange, InFile
<1>4. (Running("PROGRAM_DEVICE") => InFile(packet))'
  <2>1. CASE Receive /\ packet' = outPacket
    BY <1>1, <2>1 DEF InRange, InFile, Running
  <2>2. CASE packet' = packet /\ pc # "idle"
    BY <1>1, <2>2 DEF InRange, InFile, Running
  <2> QED
    BY <2>1, <2>2, PacketNext DEF SystemInv
<1>5. (\A w \in Buffered : w[1] \in RangesOf(hexView))'
  <2>1. CASE Buffered' \subseteq Buffered
    BY <1>1, <2>1 DEF InRange
  <2>2. ASSUME Running("PROGRAM_DEVICE"), NEW i \in 0 .. packet.size - 1,
               Buffered' = Buffered \cup {<<packet.addr + i, Payload(packet, i)>>}
        PROVE  (\A w \in Buffered : w[1] \in RangesOf(hexView))'
    BY <1>1, <2>2 DEF InRange, InFile
  <2> QED
    BY <2>1, <2>2, BufferedNext DEF SystemInv
<1> QED
  BY <1>1, <1>3, <1>4, <1>5 DEF InRange

LEMMA ProgramInFile ==
  ASSUME SystemInv, Tasked, Known, InRange, hpc = "program"
  PROVE  InFile(ProgramPacket)
<1>1. hexView \in {"locked", "unlocked"} /\ (region = "config" => hexView = "unlocked")
      /\ region \in {"program", "config"}
  BY DEF Tasked, Known, InRange, SystemInv, HostTypeOK, Views
<1>2. /\ ProgramPacket.addr = addr /\ ProgramPacket.size = ProgramSize
      /\ ProgramSize \in Nat /\ addr + ProgramSize <= ProgramEnd
      /\ addr \in Nat /\ RegionStart(region) <= addr /\ RegionStart(region) \in Nat
      /\ ProgramEnd \in Nat
  <2>1. ProgramEnd \in Nat /\ RegionStart(region) \in Nat /\ addr \in Nat /\ addr < ProgramEnd
        /\ RegionStart(region) <= addr
    BY RegionFacts DEF ProgramEnd, SystemInv, HostTypeOK, Progress
  <2>2. ProgramSize \in Nat /\ ProgramSize <= ProgramEnd - addr
    BY <2>1, ShorterFacts, LayoutFacts DEF ProgramSize
  <2> QED
    BY <2>1, <2>2, ProgramPacketFacts DEF SystemInv
<1>3. Range(hexView, region) \subseteq RangesOf(hexView)
  BY <1>1 DEF RangesOf
<1>4. \A i \in 0 .. ProgramSize - 1 : addr + i \in Range(hexView, region)
  BY <1>2 DEF Range, ProgramEnd
<1> QED
  BY <1>2, <1>3, <1>4 DEF InFile

LEMMA InRangeTasks ==
  ASSUME SystemInv, Attached, Tasked, Known, InRange, Tasks, ~TransferFails,
         UNCHANGED deviceVars
  PROVE  InRange'
<1>1. hexView' = hexView /\ RangesOf(hexView)' = RangesOf(hexView)
  BY TaskOpen, RangesKept DEF SystemInv
<1>2. (outPacket.cmd = "PROGRAM_DEVICE" => InFile(outPacket))'
  <2>1. CASE outPacket' = outPacket
    BY <1>1, <2>1 DEF InRange, InFile
  <2>2. CASE hpc = "program" /\ outPacket' = ProgramPacket
    BY <1>1, <2>2, ProgramInFile DEF InFile
  <2> QED
    BY <2>1, <2>2, TaskSends DEF SystemInv
<1>3. Buffered' = Buffered
  BY BufferedStays DEF deviceVars, progVars, First
<1>4. (hpc' = "program" /\ region' = "config") => hexView' = "unlocked"
  BY <1>1 DEF Tasks, LockUnlockConfig, SendQuery, GetQuery, Erase, EraseAnswered, StartRegion,
     ProgramIterates, ProgramCompletes, NextRange, SendRead, ReceiveRead, RangeRead, InRange
<1> QED
  BY <1>1, <1>2, <1>3, <1>4 DEF InRange, InFile, Running, deviceVars

LEMMA InRangeUser ==
  ASSUME SystemInv, Attached, Tasked, InRange, User, ~Disconnection, UNCHANGED deviceVars
  PROVE  InRange'
<1>1. Still' /\ index = 0 /\ index' = 0
  BY UserStays DEF Still, link, deviceVars, progVars, SystemInv, DeviceInv, Position
<1>2. hpc' # "program"
  BY DEF User, Connection, ChangeSettings, LoadFile, LoadFails, Start, EraseButton, WriteButton,
         VerifyButton, BlankCheckButton, Relaunch
<1>3. Buffered' = {}
  BY <1>1, NothingBufferedNext
<1> QED
  BY <1>1, <1>2, <1>3 DEF InRange, Still, Full, Running

LEMMA InRangeNext ==
  ASSUME SystemInv, Attached, Tasked, Known, InRange, Stays
  PROVE  InRange'
BY InRangeDevice, InRangeTasks, InRangeUser DEF Stays

-----------------------------------------------------------------------------
(* Cleared.                                                                *)

LEMMA PageFacts ==
  ASSUME NEW p \in Nat
  PROVE  /\ PageWords \in Nat /\ PageWords > 0
         /\ p * PageWords \in Nat
         /\ (p + 1) * PageWords = p * PageWords + PageWords
         /\ \A q \in Nat : q <= p => q * PageWords <= p * PageWords
BY LayoutAssumption DEF LayoutAssumption

\* The pages an erase has passed hold everything the device reports.
LEMMA ErasedEnough ==
  ASSUME SystemInv, Tasked, Known, EraseEnds, task = "write"
  PROVE  RangesOf(hexView) \subseteq UserStart .. erasePage * PageWords - 1
<1>1. Outstanding("ERASE_DEVICE")
  BY DEF EraseEnds, SystemInv, DeviceInv, Position, Outstanding, Running
<1>2. hexView = view /\ ~Learning /\ hexView \in Views
  BY <1>1 DEF Tasked, Known, Learning, SystemInv, HostTypeOK
<1>3. /\ erasePage \in Nat /\ EndPageNoConfigs \in Nat /\ EndPageConfigs \in Nat
      /\ erasePage >= MaxPageToErase + 1
  BY LayoutFacts DEF EraseEnds, EraseStop, SystemInv, DeviceInv, DeviceTypeOK
<1>4. EndPageNoConfigs + 1 <= erasePage
  BY <1>3, LayoutFacts DEF MaxPageToErase
<1>5. EndNoConfigs <= erasePage * PageWords
  BY <1>3, <1>4, PageFacts DEF EndNoConfigs
<1>6. ASSUME hexView = "unlocked" PROVE ConfigEnd <= erasePage * PageWords
  <2>1. EndPageConfigs + 1 <= erasePage
    BY <1>2, <1>3, <1>6 DEF Known, MaxPageToErase
  <2> QED
    BY <1>3, <2>1, PageFacts DEF ConfigEnd
<1>7. erasePage * PageWords \in Nat
  BY <1>3, PageFacts
<1> QED
  BY <1>2, <1>5, <1>6, <1>7, RangeFacts DEF RangesOf, Range, RegionStart, RegionEnd, Views

\* What a step of the device does to the memory.
LEMMA FlashNext ==
  ASSUME DeviceSteps
  PROVE  flash' = flash \/ EraseFlash \/ WriteInstruction
BY DEF DeviceSteps, Receive, QueryDevice, UnlockConfig, EraseDevice, EraseEnds, ProgramDevice,
       BufferWord, ProgramEnds, ProgramComplete, FlushEnds, GetData

\* An instruction is written where the file asks for it.
LEMMA WriteFacts ==
  ASSUME SystemInv, WriteInstruction
  PROVE  /\ FlushAddress \in Address /\ FlushAddress + 1 \in Address
         /\ FlushAddress # FlushAddress + 1 /\ UserStart <= FlushAddress
         /\ flash' = [flash EXCEPT
                        ![FlushAddress]     = Burn(flash[FlushAddress], image[FlushAddress]),
                        ![FlushAddress + 1] = Burn(flash[FlushAddress + 1], image[FlushAddress + 1])]
         /\ {<<FlushAddress, buffer[latch]>>, <<FlushAddress + 1, buffer[latch + 1]>>} \subseteq Buffered
<1>1. /\ FlushAddress \in Address /\ FlushAddress + 1 \in Address
      /\ FlushAddress # FlushAddress + 1
      /\ Instruction \subseteq Buffered
  BY InstructionFacts DEF SystemInv, WriteInstruction
<1>2. /\ UserStart <= FlushAddress /\ buffer[latch] = image[FlushAddress]
      /\ buffer[latch + 1] = image[FlushAddress + 1]
  BY <1>1 DEF Instruction, SystemInv, FromImage
<1>3. flash' = [flash EXCEPT
                  ![FlushAddress]     = Burn(flash[FlushAddress], buffer[latch]),
                  ![FlushAddress + 1] = Burn(flash[FlushAddress + 1], buffer[latch + 1])]
  BY <1>1 DEF WriteInstruction
<1> QED
  BY <1>1, <1>2, <1>3 DEF Instruction

LEMMA ClearedErase ==
  ASSUME SystemInv, Tasked, Cleared, EraseFlash, UNCHANGED hostVars
  PROVE  Cleared'
<1>1. /\ pc = "erase" /\ pc' = "erase" /\ packet' = packet /\ erasePage' = erasePage + 1
      /\ flash' = [a \in Address |-> IF a \in PageOf(erasePage) THEN Blank ELSE flash[a]]
  BY DEF EraseFlash
<1>2. packet.cmd = "ERASE_DEVICE" /\ erasePage \in Nat /\ erasePage + 1 <= EndPageConfigs + 1
      /\ EndPageConfigs \in Nat
  BY <1>1, LayoutFacts
  DEF SystemInv, DeviceInv, Position, DeviceTypeOK, EraseFlash, EraseStop, MaxPageToErase
<1>3. Outstanding("ERASE_DEVICE") /\ Outstanding("ERASE_DEVICE")'
  BY <1>1, <1>2 DEF Outstanding, Running
<1>4. ~Transferring'
  BY <1>3 DEF Tasked, Transferring, hostVars
<1>5. ASSUME NEW a \in UserStart .. erasePage' * PageWords - 1
      PROVE  flash'[a] = Blank
  <2>1. /\ erasePage * PageWords \in Nat /\ UserStart \in Nat /\ ConfigEnd \in Nat
        /\ erasePage' * PageWords = erasePage * PageWords + PageWords
        /\ erasePage' * PageWords <= ConfigEnd /\ PageWords \in Nat
    <3>1. (erasePage + 1) * PageWords <= (EndPageConfigs + 1) * PageWords
      BY <1>2, PageFacts
    <3> QED
      BY <1>1, <1>2, <3>1, PageFacts, RangeFacts DEF ConfigEnd
  <2>2. a \in Address
    BY <2>1 DEF Address
  <2>3. CASE a \in UserStart .. erasePage * PageWords - 1
    BY <1>1, <2>2, <2>3 DEF Cleared
  <2>4. CASE a \in erasePage * PageWords .. erasePage * PageWords + PageWords - 1
    BY <1>1, <1>2, <2>1, <2>2, <2>4, PageFacts DEF PageOf
  <2> QED
    BY <2>1, <2>3, <2>4
<1> QED
  BY <1>1, <1>3, <1>4, <1>5 DEF Cleared

LEMMA ClearedWrite ==
  ASSUME SystemInv, Tasked, Cleared, WriteInstruction, UNCHANGED hostVars
  PROVE  Cleared'
<1>1. /\ pc = "flush" /\ pc' = "flush" /\ Transferring /\ Transferring'
  BY DEF WriteInstruction, SystemInv, DeviceInv, Position, Tasked, Transferring, Outstanding, Running,
         hostVars
<1>2. hpc' \notin {"query", "answer"}
  BY <1>1 DEF Transferring
<1>3. UNCHANGED <<task, hexView, image>> /\ RangesOf(hexView)' = RangesOf(hexView)
  BY RangesKept DEF hostVars, windowVars
<1>4. flash \in [Address -> Contents] /\ RangesOf(hexView) \subseteq Address
  BY RangesInMemory DEF SystemInv, DeviceInv, DeviceTypeOK, HostTypeOK
<1>5. ASSUME task = "write", NEW a \in RangesOf(hexView) PROVE flash'[a] \in {Blank, image[a]}
  <2>1. flash[a] \in {Blank, image[a]} /\ a \in Address
    BY <1>1, <1>4, <1>5 DEF Cleared
  <2>2. flash'[a] \in {flash[a], Burn(flash[a], image[a])}
    BY <1>4, <2>1, WriteFacts
  <2> QED
    BY <2>1, <2>2 DEF Burn
<1> QED
  BY <1>1, <1>2, <1>3, <1>5 DEF Cleared

LEMMA ClearedDevice ==
  ASSUME SystemInv, Tasked, Known, Cleared, DeviceSteps, UNCHANGED hostVars
  PROVE  Cleared'
<1>1. UNCHANGED <<hpc, task, hexView, image>> /\ RangesOf(hexView)' = RangesOf(hexView)
  BY RangesKept DEF hostVars, windowVars
<1>2. CASE EraseEnds
  <2>1. pc = "erase" /\ pc' = "idle" /\ flash' = flash
    BY <1>2 DEF EraseEnds
  <2>2. task = "write" => \A a \in RangesOf(hexView) : flash[a] = Blank
    BY <1>2, <2>1, ErasedEnough DEF Cleared
  <2> QED
    BY <1>1, <2>1, <2>2 DEF Cleared, Transferring
<1>3. CASE EraseDevice
  <2>1. pc' = "erase" /\ erasePage' = StartPage /\ flash' = flash
        /\ Outstanding("ERASE_DEVICE")'
    BY <1>3 DEF EraseDevice, Dispatched, Outstanding, Running
  <2>2. UserStart .. StartPage * PageWords - 1 = {}
    BY RangeFacts DEF UserStart
  <2> QED
    BY <1>1, <2>1, <2>2 DEF Cleared, Transferring
<1>4. CASE flash' = flash /\ ~EraseEnds /\ ~EraseDevice /\ ~EraseFlash
  <2>1. pc' = "erase" => pc = "erase" /\ erasePage' = erasePage
    BY <1>4 DEF DeviceSteps, Receive, QueryDevice, UnlockConfig, EraseFlash, ProgramDevice, BufferWord,
       ProgramEnds, ProgramComplete, WriteInstruction, FlushEnds, GetData
  <2>2. Outstanding("ERASE_DEVICE") => Outstanding("ERASE_DEVICE")'
    BY <1>4 DEF Outstanding, Running, SystemInv, DeviceInv, Position, DeviceSteps, Receive, QueryDevice,
       UnlockConfig, EraseFlash, ProgramDevice, BufferWord, ProgramEnds, ProgramComplete,
       WriteInstruction, FlushEnds, GetData, Dispatched, link
  <2> QED
    BY <1>1, <1>4, <2>1, <2>2 DEF Cleared, Transferring
<1> QED
  BY <1>2, <1>3, <1>4, FlashNext, ClearedErase, ClearedWrite

LEMMA ClearedTasks ==
  ASSUME SystemInv, Attached, Tasked, Cleared, Tasks, ~TransferFails, UNCHANGED deviceVars
  PROVE  Cleared'
<1>1. UNCHANGED <<task, hexView, image>> /\ RangesOf(hexView)' = RangesOf(hexView)
  BY TaskOpen, RangesKept DEF SystemInv
<1>2. UNCHANGED <<pc, packet, flash, erasePage>>
  BY DEF deviceVars
<1>3. CASE LockUnlockConfig \/ GetQuery
  BY <1>1, <1>2, <1>3 DEF LockUnlockConfig, GetQuery, Tasked, Learning, Cleared, Transferring
<1>4. CASE SendQuery
  <2>1. hpc = "query" /\ hpc' = "answer" /\ outPacket'.cmd = "QUERY_DEVICE" /\ ~Full(outPacket)
    BY <1>4, PlainFacts DEF SendQuery, Send, Commands
  <2>2. Outstanding("ERASE_DEVICE")' = Outstanding("ERASE_DEVICE")
    BY <1>2, <2>1 DEF Outstanding, Running, Full
  <2> QED
    BY <1>1, <1>2, <2>1, <2>2 DEF Cleared, Transferring
<1>5. CASE Erase
  <2>1. hpc' = "query" /\ Outstanding("ERASE_DEVICE")'
    BY <1>5, PlainFacts DEF Erase, Send, Commands, Outstanding
  <2> QED
    BY <1>1, <1>2, <2>1 DEF Cleared, Transferring
<1>6. CASE EraseAnswered
  <2>1. Still /\ hpc = "answer" /\ hpc' \notin {"query", "answer"}
    BY <1>6, AnswerStill DEF EraseAnswered, SystemInv
  <2>2. ~Outstanding("ERASE_DEVICE")
    BY <2>1, StillFacts DEF Commands
  <2> QED
    BY <1>1, <1>2, <2>1, <2>2 DEF Cleared
<1>7. CASE ProgramIterates \/ ProgramCompletes \/ NextRange \/ SendRead \/ ReceiveRead \/ RangeRead
  <2>1. Transferring /\ hpc' \notin {"query", "answer"}
    BY <1>7 DEF ProgramIterates, AfterLoop, ProgramCompletes, NextRange, SendRead, ReceiveRead,
                RangeRead, Transferring
  <2> QED
    BY <1>1, <1>2, <2>1 DEF Cleared
<1> QED
  BY <1>3, <1>4, <1>5, <1>6, <1>7 DEF Tasks

LEMMA ClearedUser ==
  ASSUME SystemInv, Attached, Tasked, User, ~Disconnection, UNCHANGED deviceVars
  PROVE  Cleared'
<1>1. pc' = "idle"
  BY UserStays DEF Still, deviceVars, SystemInv
<1>2. task' = "write" => hpc' = "erase"
  BY DEF User, Connection, ChangeSettings, LoadFile, LoadFails, Start, EraseButton, WriteButton,
         VerifyButton, BlankCheckButton, Relaunch
<1> QED
  BY <1>1, <1>2 DEF Cleared, Transferring

LEMMA ClearedNext ==
  ASSUME SystemInv, Attached, Tasked, Known, Cleared, Stays
  PROVE  Cleared'
BY ClearedDevice, ClearedTasks, ClearedUser DEF Stays

-----------------------------------------------------------------------------
(* The invariant holds.                                                    *)

LEMMA UpdateInvInit == Init => UpdateInv
<1> SUFFICES ASSUME Init PROVE UpdateInv
  OBVIOUS
<1> USE DEF Init, Launched, DeviceInit
<1>1. outPacket.cmd = "none" /\ inPacket.cmd = "none" /\ pc = "idle" /\ pointer = InvalidAddress
      /\ index = 0
  BY PlainFacts DEF Empty
<1>2. Attached
  BY <1>1 DEF Attached
<1>3. Tasked
  BY <1>1 DEF Tasked, Still, Full, Outstanding, Running
<1>4. Known
  BY <1>1 DEF Known
<1>5. Cleared
  BY <1>1 DEF Cleared, Transferring
<1>6. InRange
  BY <1>1, NothingBuffered DEF InRange, Running
<1> QED
  BY <1>2, <1>3, <1>4, <1>5, <1>6, SystemInvInit DEF UpdateInv

LEMMA UpdateInvStutter ==
  ASSUME UpdateInv, UNCHANGED vars
  PROVE  UpdateInv'
<1> USE DEF UpdateInv, vars, deviceVars, progVars, hostVars, windowVars, transferVars, link
<1>1. SystemInv'
  BY SystemInvStutter
<1>2. Attached'
  BY DEF Attached
<1>3. ReadBack' = ReadBack /\ RangesOf(hexView)' = RangesOf(hexView)
  BY RangesKept DEF ReadBack, Range, RegionStart, RegionEnd
<1>4. \A cmd : Outstanding(cmd)' = Outstanding(cmd)
  BY DEF Outstanding, Running
<1>5. Tasked' /\ Known'
  BY <1>3, <1>4 DEF Tasked, Known, Learning, Still, Transferring
<1>6. Cleared'
  BY <1>3, <1>4 DEF Cleared, Transferring
<1>7. Buffered' = Buffered
  BY BufferedStays DEF First
<1>8. InRange'
  BY <1>3, <1>7 DEF InRange, InFile, Running
<1> QED
  BY <1>1, <1>2, <1>5, <1>6, <1>8

LEMMA UpdateInvNext ==
  ASSUME MaxFaults = 0, FilesComplete, UpdateInv, [Next]_vars
  PROVE  UpdateInv'
<1>1. CASE Next
  <2>1. Stays
    BY <1>1, AllStay DEF UpdateInv
  <2>2. SystemInv'
    BY <1>1, SystemInvNext DEF UpdateInv
  <2>3. Attached' /\ Tasked' /\ Known' /\ Cleared' /\ InRange'
    BY <2>1, AttachedNext, TaskedNext, KnownNext, ClearedNext, InRangeNext DEF UpdateInv
  <2> QED
    BY <2>2, <2>3 DEF UpdateInv
<1> QED
  BY <1>1, UpdateInvStutter

-----------------------------------------------------------------------------
(* The refinement.                                                         *)

\* Every user address is on one of the user pages.
LEMMA PageExists ==
  ASSUME NEW a \in Address, UserStart <= a
  PROVE  \E p \in StartPage .. EndPageConfigs : a \in PageOf(p)
<1> DEFINE Paged == {n \in Nat : \E p \in Nat : n \in PageOf(p)}
<1>1. PageWords \in Nat /\ PageWords > 0 /\ \A p \in Nat : p * PageWords \in Nat
      /\ (p + 1) * PageWords = p * PageWords + PageWords
  BY PageFacts
<1>2. 0 \in Paged
  <2>1. 0 * PageWords = 0 /\ (0 + 1) * PageWords = PageWords
    BY <1>1
  <2> QED
    BY <1>1, <2>1 DEF PageOf
<1>3. ASSUME NEW n \in Nat, n \in Paged PROVE n + 1 \in Paged
  <2>1. PICK p \in Nat : n \in PageOf(p)
    BY <1>3
  <2>2. p + 1 \in Nat /\ p * PageWords \in Nat /\ (p + 1) * PageWords = p * PageWords + PageWords
        /\ (p + 1 + 1) * PageWords = p * PageWords + PageWords + PageWords
    BY <1>1
  <2>3. n + 1 \in PageOf(p) \/ n + 1 \in PageOf(p + 1)
    BY <1>1, <2>1, <2>2 DEF PageOf
  <2> QED
    BY <2>2, <2>3
<1> HIDE DEF Paged
<1>4. Nat \subseteq Paged
  BY <1>2, <1>3, SetInduction
<1>5. PICK p \in Nat : a \in PageOf(p)
  BY <1>4 DEF Paged, Address
<1>6. /\ p * PageWords <= a /\ a < p * PageWords + PageWords /\ p * PageWords \in Nat
      /\ StartPage * PageWords <= a /\ a < (EndPageConfigs + 1) * PageWords /\ a \in Int
  <2>1. /\ p * PageWords \in Nat /\ (p + 1) * PageWords = p * PageWords + PageWords
        /\ ConfigEnd \in Nat /\ UserStart \in Nat
    BY <1>1, RangeFacts
  <2> QED
    BY <1>1, <1>5, <2>1 DEF PageOf, UserStart, Address, ConfigEnd
<1>7. StartPage \in Nat /\ EndPageConfigs \in Nat
  BY LayoutFacts
<1>8. p + 1 \in Nat /\ (p + 1) * PageWords = p * PageWords + PageWords
      /\ EndPageConfigs + 1 \in Nat
  BY <1>1, <1>7
<1>9. StartPage <= p
  <2>1. SUFFICES ASSUME p + 1 <= StartPage PROVE FALSE
    BY <1>7
  <2>2. (p + 1) * PageWords <= StartPage * PageWords
    BY <1>7, <2>1, PageFacts
  <2>3. StartPage * PageWords \in Nat
    BY <1>1, <1>7
  <2> QED
    BY <1>1, <1>6, <1>8, <2>2, <2>3
<1>10. p <= EndPageConfigs
  <2>1. SUFFICES ASSUME EndPageConfigs + 1 <= p PROVE FALSE
    BY <1>7
  <2>2. (EndPageConfigs + 1) * PageWords <= p * PageWords
    BY <1>8, <2>1, PageFacts
  <2>3. (EndPageConfigs + 1) * PageWords \in Nat
    BY <1>1, <1>8
  <2> QED
    BY <1>6, <2>2, <2>3
<1> QED
  BY <1>5, <1>7, <1>9, <1>10

Mapped == <<flash, image, report = "success" /\ task \in {"write", "verify"}>>

\* A step of the erase loop, or of WriteFlashSubBlock.
LEMMA MapsDevice ==
  ASSUME UpdateInv, DeviceSteps, UNCHANGED hostVars
  PROVE  [Update!Next]_Mapped
<1> USE DEF UpdateInv
<1>1. UNCHANGED <<hpc, task, report, image, hexView>>
  BY DEF hostVars, windowVars
<1>2. CASE Stands \/ flash' = flash
  <2>1. flash' = flash
    BY <1>2, CalmNext DEF SystemInv, Verified
  <2> QED
    BY <1>1, <2>1 DEF Mapped
<1>3. CASE ~Stands /\ EraseFlash
  <2>1. erasePage \in StartPage .. EndPageConfigs
    BY <1>3, LayoutFacts
    DEF SystemInv, DeviceInv, DeviceTypeOK, EraseFlash, EraseStop, MaxPageToErase
  <2>2. Update!ErasePage(PageOf(erasePage))
    BY <1>1, <1>3 DEF Update!ErasePage, EraseFlash, Stands
  <2> QED
    BY <2>1, <2>2 DEF Update!Next
<1>4. CASE ~Stands /\ WriteInstruction
  <2>1. /\ FlushAddress \in Address /\ FlushAddress + 1 \in Address
        /\ FlushAddress # FlushAddress + 1 /\ UserStart <= FlushAddress
        /\ flash' = [flash EXCEPT
                       ![FlushAddress]     = Burn(flash[FlushAddress], image[FlushAddress]),
                       ![FlushAddress + 1] = Burn(flash[FlushAddress + 1], image[FlushAddress + 1])]
        /\ {<<FlushAddress, buffer[latch]>>, <<FlushAddress + 1, buffer[latch + 1]>>} \subseteq Buffered
    BY <1>4, WriteFacts
  <2>2. FlushAddress \in RangesOf(hexView) /\ FlushAddress + 1 \in RangesOf(hexView)
    BY <2>1 DEF InRange
  <2>3. task = "write" /\ Transferring
    BY <1>4 DEF WriteInstruction, SystemInv, DeviceInv, Position, Tasked, Outstanding, Running
  <2>4. \A b \in {FlushAddress, FlushAddress + 1} : flash[b] \in {Blank, image[b]}
    BY <2>2, <2>3 DEF Cleared
  <2>5. \A b \in {FlushAddress, FlushAddress + 1} : Burn(flash[b], image[b]) = image[b]
    BY <2>4 DEF Burn
  <2>6. UserStart <= FlushAddress + 1
    BY <2>1, RangeFacts DEF Address
  <2>7. \A b \in {FlushAddress, FlushAddress + 1} :
          b \in UNION {PageOf(p) : p \in StartPage .. EndPageConfigs}
    BY <2>1, <2>6, PageExists
  <2>8. Update!Burn(FlushAddress)
    BY <1>1, <1>4, <2>1, <2>4, <2>5, <2>7 DEF Update!Burn, Stands
  <2> QED
    BY <2>1, <2>8 DEF Update!Next
<1> QED
  BY <1>2, <1>3, <1>4, FlashNext

\* The memory is the file when that is said.
LEMMA MapsTasks ==
  ASSUME UpdateInv, UpdateInv', Tasks, ~TransferFails, UNCHANGED deviceVars
  PROVE  [Update!Next]_Mapped
<1> USE DEF UpdateInv
<1>1. flash' = flash /\ UNCHANGED <<task, image>> /\ hpc # "idle" /\ report = "none"
  BY TaskOpen DEF deviceVars, SystemInv, Progress
<1>2. CASE report' = "success" /\ task' \in {"write", "verify"}
  <2>1. hexView' = view' /\ view' \in {"locked", "unlocked"}
    BY <1>2 DEF Known, SystemInv, HostTypeOK, Views
  <2>2. Claimed' = RangesOf(view')
    BY <1>2, <2>1 DEF Claimed, RangesOf, Range, RegionStart, RegionEnd
  <2>3. ASSUME NEW a \in UserStart .. EndNoConfigs - 1 PROVE flash[a] = image[a]
    <3>1. a \in Range(view', "program") /\ a \notin Range(view', "config")
      BY <2>1, <2>3, RangeFacts DEF Range, RegionStart, RegionEnd
    <3>2. a \in Claimed'
      BY <2>1, <2>2, <3>1 DEF RangesOf
    <3>3. VerifiedImage'
      BY DEF SystemInv, Verified
    <3>4. Range(view, "config")' = Range(view', "config")
      BY DEF Range, RegionStart, RegionEnd
    <3> QED
      BY <1>1, <3>1, <3>2, <3>3, <3>4 DEF VerifiedImage
  <2>4. Update!Declare
    BY <1>1, <1>2, <2>3 DEF Update!Declare
  <2> QED
    BY <2>4 DEF Update!Next
<1>3. CASE ~(report' = "success" /\ task' \in {"write", "verify"})
  BY <1>1, <1>3 DEF Mapped
<1> QED
  BY <1>2, <1>3

\* Another file is opened, or the outcome is taken off the display.
LEMMA MapsUser ==
  ASSUME UpdateInv, User, ~Disconnection, UNCHANGED deviceVars
  PROVE  [Update!Next]_Mapped
<1>1. flash' = flash
  BY DEF deviceVars
<1>2. report' = "none"
  BY DEF User, Connection, ChangeSettings, LoadFile, LoadFails, Start, EraseButton, WriteButton,
         VerifyButton, BlankCheckButton, Relaunch
<1>3. image' \in Asked \cup {BlankImage} \cup {image}
  <2>1. ASSUME NEW file \in Files PROVE Imported(file).image \in Asked
    <3>1. file \in Seq(Record) /\ RangesOf(view) \in SUBSET Address /\ view \in Views
      BY FilesAssumption, RangesInMemory DEF FilesAssumption, UpdateInv, SystemInv, HostTypeOK
    <3>2. Imported(file).image =
            [a \in Address |-> IF a \in RangesOf(view) THEN Says(file, a) ELSE Blank]
      <4> DEFINE ranges == RangesOf(view)
      <4>1. ranges \in SUBSET Address
        BY <3>1
      <4> HIDE DEF ranges
      <4>2. ImportHexFile(file, ranges, Range(view, "config")).image =
              [a \in Address |-> IF a \in ranges THEN Says(file, a) ELSE Blank]
        BY <3>1, <4>1, ImportedImage
      <4> QED
        BY <4>2 DEF Imported, ranges
    <3> QED
      BY <3>1, <3>2 DEF Asked
  <2>2. ASSUME NEW file \in Files, LoadFile(file) \/ LoadFails(file)
        PROVE  image' \in Asked \cup {BlankImage}
    BY <2>1, <2>2 DEF LoadFile, LoadFails, Import
  <2>3. CASE Relaunch
    BY <2>3 DEF Relaunch
  <2>4. CASE Connection \/ ChangeSettings \/ EraseButton \/ WriteButton \/ VerifyButton
             \/ BlankCheckButton
    BY <2>4 DEF Connection, ChangeSettings, EraseButton, WriteButton, VerifyButton,
       BlankCheckButton, windowVars
  <2> QED
    BY <2>2, <2>3, <2>4 DEF User
<1>4. Update!Choose
  BY <1>1, <1>2, <1>3 DEF Update!Choose
<1> QED
  BY <1>4 DEF Update!Next

LEMMA MapsNext ==
  ASSUME MaxFaults = 0, FilesComplete, UpdateInv, [Next]_vars
  PROVE  [Update!Next]_Mapped
<1>1. UpdateInv'
  BY UpdateInvNext
<1>2. CASE Next
  <2>1. Stays
    BY <1>2, AllStay DEF UpdateInv
  <2> QED
    BY <1>1, <2>1, MapsDevice, MapsTasks, MapsUser DEF Stays
<1>3. CASE UNCHANGED vars
  BY <1>3 DEF vars, deviceVars, hostVars, windowVars, Mapped
<1> QED
  BY <1>2, <1>3

LEMMA MapsInit == Init => Update!Init
BY DEF Init, Launched, BlankImage, Update!Init

\* Updating the firmware over USB keeps FlashImage's promise for every layout
\* and every file, as long as the device stays on the bus and the files hold
\* configuration words: the bootloader is out of reach, no word is programmed
\* that is not erased, and what is declared complete is the file
\* (app_hid_boot_loader.c:214-419, Comm.cpp:388-663, MainWindow.cpp:560-760).
THEOREM UpdateImplemented ==
  ASSUME MaxFaults = 0, FilesComplete
  PROVE  Spec => UpdateSpec
<1>1. Init => UpdateInv
  BY UpdateInvInit
<1>2. UpdateInv /\ [Next]_vars => UpdateInv'
  BY UpdateInvNext
<1>3. Init => Update!Init
  BY MapsInit
<1>4. UpdateInv /\ [Next]_vars => [Update!Next]_Mapped
  BY MapsNext
<1> QED
  BY <1>1, <1>2, <1>3, <1>4, PTL DEF Spec, UpdateSpec, Update!Spec, Mapped

-----------------------------------------------------------------------------
(* The lock.                                                               *)

\* Whichever step changes a word, the words from EndNoConfigs on are only
\* changed in an unlocked device: the erase looks at the lock, and the
\* application has ranges that reach so far only if it knows it unlocked.
LEMMA LockHeeded ==
  ASSUME UpdateInv, DeviceSteps, UNCHANGED hostVars,
         NEW a \in Address, a >= EndNoConfigs, flash'[a] # flash[a]
  PROVE  /\ ~configsProtected
         /\ EraseFlash \/ flash'[a] # Blank
<1> USE DEF UpdateInv
<1>1. CASE EraseFlash
  <2>1. a \in PageOf(erasePage)
    BY <1>1 DEF EraseFlash
  <2>2. /\ erasePage \in Nat /\ erasePage <= MaxPageToErase /\ a \in Nat /\ MaxPageToErase \in Nat
    BY <1>1, LayoutFacts
    DEF EraseFlash, EraseStop, SystemInv, DeviceInv, DeviceTypeOK, MaxPageToErase, Address
  <2>3. a < (erasePage + 1) * PageWords
    BY <2>1, <2>2, PageFacts DEF PageOf
  <2>4. SUFFICES ASSUME configsProtected PROVE FALSE
    BY <1>1
  <2>5. erasePage <= EndPageNoConfigs
    BY <2>2, <2>4 DEF MaxPageToErase
  <2>6. (erasePage + 1) * PageWords <= (EndPageNoConfigs + 1) * PageWords
    BY <2>2, <2>5, LayoutFacts, PageFacts
  <2> QED
    BY <2>2, <2>3, <2>6, LayoutFacts, PageFacts DEF EndNoConfigs
<1>2. CASE WriteInstruction
  <2>1. /\ flash'[a] = Burn(flash[a], image[a])
        /\ \E w \in Buffered : w[1] = a
    <3>1. flash \in [Address -> Contents]
      BY DEF SystemInv, DeviceInv, DeviceTypeOK
    <3> QED
      BY <1>2, <3>1, WriteFacts
  <2>2. a \in RangesOf(hexView)
    BY <2>1 DEF InRange
  <2>3. hexView = "unlocked"
    <3>1. hexView \in {"none", "locked", "unlocked"}
      BY DEF SystemInv, HostTypeOK, Views
    <3>2. hexView # "none"
      BY <2>2 DEF RangesOf
    <3>3. SUFFICES ASSUME hexView = "locked" PROVE FALSE
      BY <3>1, <3>2
    <3>4. a \in UserStart .. EndNoConfigs - 1
      BY <2>2, <3>3 DEF RangesOf, Range, RegionStart, RegionEnd
    <3> QED
      BY <3>4, RangeFacts
  <2>4. task = "write" /\ Transferring
    BY <1>2 DEF WriteInstruction, SystemInv, DeviceInv, Position, Tasked, Outstanding, Running
  <2>5. view = "unlocked" /\ ~Learning
    BY <2>3, <2>4 DEF Known, Learning, Transferring
  <2>6. Blank # Spoiled
    BY LayoutAssumption DEF LayoutAssumption
  <2> QED
    BY <2>1, <2>5, <2>6 DEF Known, Burn
<1> QED
  BY <1>1, <1>2, FlashNext

\* Locking the configuration words keeps the last page as it is, for every
\* layout and every set of files that hold configuration words
\* (app_hid_boot_loader.c:214-419, Comm.cpp:470-500).
THEOREM LockedPageStays ==
  ASSUME MaxFaults = 0, FilesComplete
  PROVE  Spec => LockedPageKept
<1> DEFINE Kept == \A a \in EndNoConfigs .. ConfigEnd - 1 : flash'[a] # flash[a] => ~configsProtected
<1>1. Init => UpdateInv
  BY UpdateInvInit
<1>2. UpdateInv /\ [Next]_vars => UpdateInv'
  BY UpdateInvNext
<1>3. UpdateInv /\ [Next]_vars => [Kept]_vars
  <2> SUFFICES ASSUME UpdateInv, Next, NEW a \in EndNoConfigs .. ConfigEnd - 1, flash'[a] # flash[a]
               PROVE  ~configsProtected
    OBVIOUS
  <2>1. a \in Address /\ a >= EndNoConfigs
    BY RangeFacts DEF Address
  <2>2. DeviceSteps /\ UNCHANGED hostVars
    BY AllStay DEF UpdateInv, Stays, deviceVars
  <2> QED
    BY <2>1, <2>2, LockHeeded
<1> QED
  BY <1>1, <1>2, <1>3, PTL DEF Spec, LockedPageKept

\* What the device's lock is, or is about to become, is what the check box
\* says, and the erase button is only there while it is not set.
Permitted ==
  /\ outPacket.cmd = "UNLOCK_CONFIG" => outPacket.unlock = writeConfig
  /\ Running("UNLOCK_CONFIG") => packet.unlock = writeConfig
  /\ (hpc # "lock" /\ ~Outstanding("UNLOCK_CONFIG") /\ ~configsProtected) => writeConfig
  /\ (task = "erase" /\ hpc # "idle") => ~writeConfig

LEMMA PermittedDevice ==
  ASSUME SystemInv, Permitted, DeviceSteps, UNCHANGED hostVars
  PROVE  Permitted'
<1>1. UNCHANGED <<hpc, task, writeConfig>> /\ writeConfig \in BOOLEAN
  BY DEF hostVars, windowVars, SystemInv, HostTypeOK
<1>2. Empty.cmd = "none"
  BY PlainFacts DEF Empty
<1>3. CASE UnlockConfig
  <2>1. /\ Running("UNLOCK_CONFIG") /\ ~Running("UNLOCK_CONFIG")' /\ outPacket' = outPacket
        /\ configsProtected' = ~packet.unlock
    BY <1>3 DEF UnlockConfig, Dispatched, Running, link
  <2> QED
    BY <1>1, <2>1 DEF Permitted
<1>4. CASE ~UnlockConfig
  <2>1. configsProtected' = configsProtected
    BY <1>4 DEF DeviceSteps, Receive, QueryDevice, EraseDevice, EraseFlash, EraseEnds, ProgramDevice,
           BufferWord, ProgramEnds, ProgramComplete, WriteInstruction, FlushEnds, GetData
  <2>2. CASE Receive
    BY <1>1, <1>2, <2>1, <2>2 DEF Receive, Permitted, Outstanding, Running
  <2>3. CASE ~Receive
    <3>1. pc # "idle" /\ packet' = packet /\ outPacket' = outPacket
      BY <2>3 DEF DeviceSteps, QueryDevice, UnlockConfig, EraseDevice, EraseFlash, EraseEnds, ProgramDevice,
             BufferWord, ProgramEnds, ProgramComplete, WriteInstruction, FlushEnds, GetData, Dispatched, link
    <3>2. Running("UNLOCK_CONFIG")' = Running("UNLOCK_CONFIG")
      <4>1. Running("UNLOCK_CONFIG") => pc = "dispatch"
        BY DEF Running, SystemInv, DeviceInv, DeviceTypeOK, Position
      <4>2. packet.cmd = "UNLOCK_CONFIG" => pc = "dispatch"
        BY <3>1, <4>1 DEF Running
      <4>3. SUFFICES ASSUME packet.cmd = "UNLOCK_CONFIG" PROVE FALSE
        BY <3>1 DEF Running
      <4> QED
        BY <1>4, <2>3, <3>1, <4>2, <4>3
        DEF DeviceSteps, QueryDevice, EraseDevice, EraseFlash, EraseEnds, ProgramDevice,
            BufferWord, ProgramEnds, ProgramComplete, WriteInstruction, FlushEnds, GetData, Dispatched
    <3> QED
      BY <1>1, <2>1, <3>1, <3>2 DEF Permitted, Outstanding, Running
  <2> QED
    BY <2>2, <2>3
<1> QED
  BY <1>3, <1>4

LEMMA PermittedTasks ==
  ASSUME SystemInv, Attached, Tasked, Permitted, Tasks, ~TransferFails, UNCHANGED deviceVars
  PROVE  Permitted'
<1>1. /\ UNCHANGED <<task, writeConfig>> /\ hpc # "idle"
      /\ UNCHANGED <<pc, packet, configsProtected>>
  BY TaskOpen DEF SystemInv, deviceVars
<1>2. CASE LockUnlockConfig
  <2>1. outPacket'.cmd = "UNLOCK_CONFIG" /\ outPacket'.unlock = writeConfig
    BY <1>2, LockWellFormed DEF LockUnlockConfig, Send, SystemInv, Plain
  <2> QED
    BY <1>1, <2>1 DEF Permitted, Outstanding, Running
<1>3. CASE ~LockUnlockConfig
  <2>1. hpc # "lock" /\ hpc' # "lock"
    BY <1>3 DEF Tasks, SendQuery, GetQuery, Erase, EraseAnswered, ProgramIterates, AfterLoop,
           ProgramCompletes, NextRange, SendRead, ReceiveRead, RangeRead
  <2>2. outPacket' = outPacket \/ outPacket'.cmd # "UNLOCK_CONFIG"
    BY <2>1, TaskSends DEF SystemInv
  <2>3. Still \/ (outPacket.cmd = "UNLOCK_CONFIG" => outPacket' = outPacket)
    BY <1>3 DEF Tasks, SendQuery, GetQuery, Erase, EraseAnswered, ProgramIterates,
           ProgramCompletes, NextRange, SendRead, ReceiveRead, RangeRead, Send, Take, link, Full
  <2>4. outPacket'.cmd = "UNLOCK_CONFIG" => outPacket'.unlock = writeConfig
    BY <2>2 DEF Permitted
  <2>5. Running("UNLOCK_CONFIG")' = Running("UNLOCK_CONFIG")
    BY <1>1 DEF Running
  <2>6. ~Outstanding("UNLOCK_CONFIG")' => ~Outstanding("UNLOCK_CONFIG")
    BY <2>3, <2>5 DEF Outstanding, Still, Full, Running
  <2> QED
    BY <1>1, <2>1, <2>4, <2>5, <2>6 DEF Permitted
<1> QED
  BY <1>2, <1>3

LEMMA PermittedUser ==
  ASSUME MayRelaunch = FALSE, FilesComplete, SystemInv, Attached, Tasked, Permitted, User,
         ~Disconnection, UNCHANGED deviceVars
  PROVE  Permitted'
<1>1. /\ hpc = "idle" /\ Still /\ UNCHANGED <<link, pc, packet, configsProtected>>
  BY UserStays DEF SystemInv, deviceVars
<1>2. ~Outstanding("UNLOCK_CONFIG") /\ ~Outstanding("UNLOCK_CONFIG")'
  BY <1>1 DEF Still, Full, Outstanding, Running, link
<1>3. writeConfig' = writeConfig \/ (hpc' = "lock" /\ task' = "settings")
  <2>1. ASSUME NEW file \in Files, LoadFile(file) \/ LoadFails(file) PROVE writeConfig' = writeConfig
    BY <2>1, NothingLacks DEF LoadFile, LoadFails, SystemInv, HostTypeOK
  <2> QED
    BY <2>1 DEF User, Connection, ChangeSettings, Start, EraseButton, WriteButton, VerifyButton,
           BlankCheckButton, windowVars
<1>4. (task' = "erase" /\ hpc' # "idle") => ~writeConfig'
  BY DEF User, Connection, ChangeSettings, Start, LoadFile, LoadFails, EraseButton, WriteButton, VerifyButton,
         BlankCheckButton, windowVars
<1> QED
  BY <1>1, <1>2, <1>3, <1>4 DEF Permitted, Outstanding, Running

LEMMA PermittedNext ==
  ASSUME MaxFaults = 0, MayRelaunch = FALSE, FilesComplete, UpdateInv, Permitted, [Next]_vars
  PROVE  Permitted'
<1>1. CASE Next
  BY <1>1, AllStay, PermittedDevice, PermittedTasks, PermittedUser DEF UpdateInv, Stays
<1>2. CASE UNCHANGED vars
  BY <1>2 DEF Permitted, Outstanding, Running, vars, deviceVars, hostVars, windowVars, link
<1> QED
  BY <1>1, <1>2

\* As long as the application is not started again, whoever erases the
\* configuration words is going to program them (MainWindow.cpp:91,1277).
THEOREM ErasedToBeWritten ==
  ASSUME MaxFaults = 0, MayRelaunch = FALSE, FilesComplete
  PROVE  Spec => ConfigErasedToBeWritten
<1> DEFINE ToBeWritten ==
      \A a \in ConfigStart .. ConfigEnd - 1 :
        (flash'[a] = Blank /\ flash[a] # Blank) => task = "write" /\ writeConfig
<1>1. Init => UpdateInv /\ Permitted
  BY UpdateInvInit, PlainFacts DEF Init, Launched, DeviceInit, Empty, Permitted, Running
<1>2. UpdateInv /\ Permitted /\ [Next]_vars => (UpdateInv /\ Permitted)'
  BY UpdateInvNext, PermittedNext
<1>3. UpdateInv /\ Permitted /\ [Next]_vars => [ToBeWritten]_vars
  <2> SUFFICES ASSUME UpdateInv, Permitted, Next, NEW a \in ConfigStart .. ConfigEnd - 1,
                      flash'[a] = Blank, flash[a] # Blank
               PROVE  task = "write" /\ writeConfig
    OBVIOUS
  <2>1. a \in Address /\ a >= EndNoConfigs
    BY RangeFacts DEF Address
  <2>2. DeviceSteps /\ UNCHANGED hostVars
    BY AllStay DEF UpdateInv, Stays, deviceVars
  <2>3. EraseFlash /\ ~configsProtected
    BY <2>1, <2>2, LockHeeded
  <2>4. task \in {"erase", "write"} /\ hpc \in {"query", "answer"}
    BY <2>3 DEF EraseFlash, UpdateInv, SystemInv, DeviceInv, Position, Tasked, Outstanding, Running
  <2>5. ~Outstanding("UNLOCK_CONFIG")
    BY <2>4 DEF UpdateInv, Tasked, Learning
  <2> QED
    BY <2>3, <2>4, <2>5 DEF Permitted
<1> QED
  BY <1>1, <1>2, <1>3, PTL DEF Spec, ConfigErasedToBeWritten
=============================================================================
