# Aeon Lite in TLA+

A verification development kept beside the Aeon Lite sources: TLA+ modules
translated from the code, TLC runs over small instances, and TLAPS proofs.
Paths below are relative to `src/`.

Aeon Lite is an FPGA board. A PIC24 microcontroller loads the FPGA from a
DataFlash or an SD card, serves the computer the FPGA emulates, and talks to a
PC over USB. Its own firmware is replaced over USB by a resident bootloader.

## 1. Inventory

| Component | State it keeps | Operations | Interaction |
|---|---|---|---|
| **Bootloader, device side** (`bootloader/app_hid_boot_loader.c`, `main.c`, `boot.h`) | one packet in, one out; `ProgrammingBuffer` with `BufferedDataIndex` and `ProgrammedPointer`; the configuration lock; program memory | QUERY, UNLOCK_CONFIG, ERASE, PROGRAM, PROGRAM_COMPLETE, GET_DATA, RESET; `EVENT_CONFIGURED` in the USB interrupt | HID reports with the PC application |
| **Bootloader, PC side** (`tools/usb bootloader pc application`) | connection, lock check box, ranges reported by the device, ranges and buffers of the hex file, busy/enabled buttons | poll timer, open file, settings, erase, write, verify, blank check, reset | a worker thread per task; HID reports |
| **Hex import** (`ImportExportHex.cpp`, `Device.cpp`) | image of each range; the segment address while it reads | import | called by the window |
| **Firmware v2** (`firmware_v2`) | main loop, UI state machine, SPI multiplexer, FPGA configuration lines, USB generic endpoint | USB commands, load core from DataFlash or SD card, menu | Aeon loader over USB; FPGA over SPI; SD card |
| **USB stack** (Microchip, `bootloader/usb`) | device state, address, configuration; buffer descriptors and the pointers to them; the control transfer and its status stage; halts | serve a reset, start of frame, stall, transaction; send, receive and arm on behalf of the application | called by the USB interrupt; calls the bootloader back |
| **HIDAPI** (`tools/.../HIDAPI/linux`) | per handle: the interrupt transfer, the list of reports, the flags under the mutex | open, read, write, close; the read thread and its callback | libusb; the PC application |
| **SD card and FatFs** (`firmware_v2/fat`) | `Stat`; the mounted volume and its sector window; the file's cluster, position and buffer | timer, initialise, read a sector; open, read, seek | the socket; INI parser, loaders |
| **Configuration files** (`firmware_v2/iniparser.c`) | nothing between two questions | browse sections, browse keys, look a key up | FatFs; user interface |
| **Configuration menu and loaders** (`firmware_v2/ui.c`, `fpga.c`, `bitstream.c`) | tab, list of configurations, choice; FPGA, its RAM | start automatically, list, choose, load ROMs, clear RAM, configure | the files above; keys; FPGA |
| **Firmware v1** (`firmware`) | the same as firmware v2 in an older form | | |
| **Aeon loader** (`tools/aeon loader`) | none between operations | configure FPGA, write/erase DataFlash, RTC | bulk transfers with 5 s timeouts |
| **FPGA firmware loader** (`tools/fpga firmware loader`) | none | command line configuration | bulk transfers |
| The vendored copies no program runs, HDL cores, drivers, hardware | – | – | only through the interfaces above |

What is hard in each, and what must hold:

* *Bootloader, device side.* Packets of different sizes fill one buffer that is
  flushed at an exact index; the flush counts an `unsigned char` down by two;
  a section is a convention between two programs; an interrupt relocks the
  configuration words in the middle of an erase; power fails anywhere. Correct
  means: each word is written once, at its own address, whole instructions at a
  time; nothing accepted is forgotten when a section closes; the lock is honoured.
* *Bootloader, PC side.* The device can leave the bus at every transfer; replies
  carry no identity that is checked; ranges are copied at one time and used at
  another; blank packets are skipped. Correct means: success is only claimed of
  a device that holds the file, and every task comes to an end.
* *Firmware v2 and Aeon loader.* One main loop interleaves the host's FPGA
  bitstream with the UI's own use of the same SPI; a reconfiguration arrives in
  the middle of a command; transfers time out while the board is busy. Correct
  means: what the loader calls done is done.
* *USB stack and HIDAPI.* The host gives a control transfer up at any packet, resets
  the bus or halts an endpoint; firmware and hardware each keep a pointer into
  the same ring of descriptors; `main` is interrupted between its check and its task; a thread is joined
  while its transfer is being cancelled by both sides, of which only one can succeed. Correct means: the two ends agree on address, configuration and
  toggles, the next request can always be taken, nothing hangs, and between them they are a pipe of reports.
* *SD card, FatFs, menu.* A hand pulls the card between any two sectors, or in the middle of one;
  nothing is kept between two questions, so that a list or a load is hundreds of
  passes over one file; the loaders' results are ignored. Correct means: the status vouches only for
  a card that was initialised, a file is delivered in order or not at all, and the core
  that starts is the one chosen, with its ROMs.
* *Hex import.* Records come in any order, overlap, and are placed by an extended address
  given earlier. Correct means: every word of the file inside a range lands at its address, the last
  one given wins, and nothing else changes.

`PROJECT.json` lists the hazards that matter most at their lines, with the property that guards each
or the reason that none does yet. Met as well, and under no property of their own:

* A hex file cut off before its end of file record is imported without complaint
  (`ImportExportHex.cpp:67`: `hasEndOfFileRecord` is not looked at). The model imports such a file too.
* `read_callback` ends the thread of a device that is gone without signalling (`hid-libusb.c:462`), and
  `hid_read` takes one wake-up for one report (`:762`): a blocking read could wait for ever, or
  after a spurious wake-up read an empty list. The PC application does not block.
* `usbHandler` returns `lock`, which is set to 0 at `usb_handler.c:30` and assigned nowhere, so the user interface
  runs between any two packets and may load a core from the card in the middle of the host's bitstream. `main.c:44-47` says
  that it is only called at `lock=0` and that `lock` is 1 while the FPGA is configured. The model does what the code does;
  `ConfiguredWhenSaid` excuses an FPGA whose core the user interface has loaded (`loaded`).
* A second look at the tab whose reading fails leaves `config_is_readed` set (`ui.c:459`): the keys work under
  the error message. The result of the look-up of `spimaster` is not looked at (`ui.c:350`). Both are in the
  model as they are.
* A card pulled and put back while a configuration is loaded lets some look-ups fail and others succeed
  (`ui.c:315`). Cards are put in only while the list is up.
* Every `FATFS` lies on its caller's stack and stays registered (`ff.c:2381`): the next `f_mount` writes into a
  frame that is gone.

## 2. Modules

| Module | Models | Proved about |
|---|---|---|
| `BootLayout` | program memory, pages, packets, the two HID mailboxes | layout lemmas |
| `BootDevice` | the command interpreter of the device, one action per command and per loop iteration | |
| `BootCommands` | `BootDevice` under an arbitrary host, with a history of the words owed | yes |
| `BootDeviceProofs` | the device's inductive invariant, kept by each of its actions whoever the host is | |
| `BootCommandsProofs` | the theorems about `BootCommands` | |
| `HexImport` | the hex importer: a file of records read into the image of the ranges; what the file says of a word | yes |
| `BootHost` | the PC application, one action per transfer and per button | |
| `BootSystem` | `BootDevice` and `BootHost` joined, with faults and restarts | yes |
| `BootSystemProofs` | the importer puts into each word what the file says of it; the inductive invariant of the two ends together, and the theorems | |
| `BootUpdateProofs` | the refinement of `FlashImage`, step by step | |
| `FlashImage` | what an update promises, with no packets in it | |
| `UsbEndpoint` | the board's generic USB endpoint: two OUT descriptors that take turns over one packet memory, one answer | lemmas |
| `Board` | the main loop of firmware v2: command interpreter, user interface, FPGA, DataFlash, power button | |
| `AeonLoader` | the PC's three main buttons, one action per bulk transfer | |
| `LoaderSystem` | `Board` and `AeonLoader` joined, with the cable, the power button and a killed loader | yes |
| `LoaderProofs` | lemmas on the endpoint, the inductive invariants and the theorems | |
| `UsbStack` | the bootloader's USB device stack, each function an operator from devices to devices, and the serial interface engine under it | |
| `HidApi` | one handle of HIDAPI: the caller, the read thread, the transfer | |
| `UsbLink` | `UsbStack` under the bootloader's main loop and `HidApi` joined by a host and a cable | yes |
| `ReportPipe` | what the link promises: a pipe of reports with a depth of one downwards and of a queue upwards | |
| `UsbStackProofs` | what each function of `UsbStack` does to a device, and the device's inductive invariant, kept by each event | |
| `LinkProofs` | the invariants of `HidApi`, of the device and of both ends inside `UsbLink`, the refinement of `ReportPipe`, and the theorems | |
| `SdCard` | the socket, the driver's status, the timer interrupt, reading a sector | |
| `FatFile` | FatFs: one file opened, read and sought in, one step per sector | |
| `FileStream` | what `FatFile` promises, with no clusters in it | |
| `IniFile` | the INI parser's passes and look-ups | |
| `CardMenu` | automatic start, list of configurations, loading of one | yes |
| `CardLayout` | what is on a card that was formatted and written as FAT has it | |
| `CardSystem` | the properties of `CardMenu` | |
| `CardProofs` | the driver's inductive invariant; the refinement of `FileStream`, with the invariant of a file being read; the theorems | |
| `MCBootCommands`, `MCBootSystem`, `MCLoaderSystem`, `MCUsbLink`, `MCCard` | instances for TLC | |

`BootSystem` EXTENDS `BootDevice` and `BootHost`, which share the two mailboxes
of `BootLayout`; `BootCommands` EXTENDS `BootDevice` alone. `BootSystem`
instantiates `FlashImage` as the abstract specification it refines.
`LoaderSystem` EXTENDS `AeonLoader`, which EXTENDS `Board`, which EXTENDS
`UsbEndpoint`: the loader writes into the board's endpoint record `ep`.

## 3. State and actions against the code

### Bootloader, device side (`BootDevice`)

| Variable | Code |
|---|---|
| `flash` | program memory; a word is a member of `Word`, `Blank` (0xFFFF) or `Spoiled` (programmed twice) |
| `pc`, `packet` | `BootState`, `PacketFromPC`; `pc` also says in which loop the handler is |
| `done`, `buffer`, `index`, `pointer`, `latch` | `i` of PROGRAM_DEVICE, `ProgrammingBuffer`, `BufferedDataIndex`, `ProgrammedPointer`, `i` of `WriteFlashSubBlock` |
| `erasePage`, `configsProtected` | `ErasePageTracker`, `ConfigsProtected`; `MaxPageToErase` is always assigned with it, so it is an operator |
| `outPacket`, `inPacket` | `PacketFromPCBuffer` and `PacketToPC` with their handles: `Empty` while nothing is in them |

`Receive` is IdleState; each command of NotIdleState is an action; the loops of
ERASE_DEVICE (`EraseFlash`, `EraseEnds`), PROGRAM_DEVICE (`BufferWord`,
`ProgramEnds`) and `WriteFlashSubBlock` (`WriteInstruction`, `FlushEnds`) are one
step per iteration, so that a reset or a callback can fall between two.
`EventConfigured` is `APP_HIDBootLoaderInitialize` called by
`USER_USB_CALLBACK_EVENT_HANDLER`; `PowerCycle` is the C start-up code followed by
the same. `BootCommands` adds the history `owed`: accepted and not stored.

### Bootloader, PC side (`BootHost`, `BootSystem`)

`hpc` is the place of the worker, or of the window when no task runs; `task` the
task. `view` is what the last query reported, `hexView` the copy `LoadFile` made
of it, `image` the buffers of the ranges, `writeConfig` the check box, `report`
what the status area says. A transfer is one step: `Send` puts a report into the
device's mailbox, `Take` gets one, `Lost` is the failure of either. Opening a file is
`HexImport`'s `ImportHexFile`: `Lines` is the state after each line, a recursive function of `Line`, which is one turn of the importer's loop; what it
has read stays in the ranges when it gives up, which `LoadFails` keeps. The functions of `Comm` that loop
(`Program`, `GetData`) keep their local variables. `handle` becomes `stale` when
the device leaves the bus: every later transfer fails, as HIDAPI's do.

### Board (`UsbEndpoint`, `Board`)

| Variable | Code |
|---|---|
| `pc` | the place of `main`: about to call `usbHandler` (`main`), in the wait of `usbGenericFlush` (`reply`) or of `dataflashFlushBuffer` (`busy`), about to call `uiHandler` (`ui`) |
| `ui` | `state` of `ui.c` (`menu` is `st_ui`) |
| `fpga` | the core that runs, or how many packets of the host's bitstream it has taken |
| `mux` | `pinSpiMux` |
| `store`, `buffer`, `job` | the DataFlash: pages, SRAM buffer, what it is busy with |
| `ep.owned`, `ep.sie`, `ep.cpu`, `ep.out` | `UOWN` of the two OUT descriptors, the USB module's turn, `pBDTEntryOut`, `USBGenericOutHandle` |
| `ep.packet`, `ep.reply` | `USBGenericOutPacket`; what the IN descriptor holds |
| `ep.fresh`, `ep.current` | histories: a packet has come since the last was taken and since the session began; the answer was given in this session |
| `bus` | `USBDeviceState`: away, not configured, configured |

Each `case` of `usbGenericHandler` that the loader uses is an action which
includes the "Refresh USB" at the end (`Refresh`), or everything up to the wait it runs
into (`Answer`, `DataflashFlushBuffer`); the wait's end (`ReplyTaken`,
`FlushEnds`) includes the refresh. Each state of `uiHandler` is an action; a whole
load of a core from the card is one step, its length being represented by the transfers
that may time out meanwhile (`Loading`). `lock` has no variable: nothing assigns it.

### Aeon loader (`AeonLoader`, `LoaderSystem`)

`op` is the button being served, `step` its next bulk transfer, `n` and `page` the loop
counters (`a`, `buff_pos`, `page`), `input` the two bytes of `InputPacket` that
are looked at without checking that the read succeeded, `said` the message, `handle` the
libusb device, `failed` a history of failed transfers. Each `usb_bulk_write` and
`usb_bulk_read` is one action with its success and its failure as disjuncts,
together with everything the code does up to the next transfer. `faults` counts
cable pulls, power button resets and ends of the loader; `loaded` is a history of
the user interface having loaded a core.

### The link (`UsbStack`, `HidApi`, `UsbLink`)

`dev` is one record that holds the stack's variables under short names, which the head of
`UsbStack` lists against the code; a handler is the composition of the functions it
calls, in their order (`SetupHandler` is `USBCtrlTrfSetupHandler`: cancel, the standard request, the
class request, complete). `Interrupt` is `USBDeviceTasks` with the one condition it finds
pending, `StartOfFrame` the condition of the timer that matters; `MainChecks`, `TakeCommand` and
`AnswerCommand` are `main` and the two halves of `APP_HIDBootLoaderTasks`, between which the
interrupt may come. A bus transaction is one action and is external: `Setup`, `DataIn`,
`DataOut`, `StatusIn`, `StatusOut`, `Refused`, `ReportOut`, `ReportIn`.

| Variable | Code |
|---|---|
| `user`, `thread` | where the caller and `read_thread` are |
| `urb`, `arrived` | `dev->transfer`: idle, flying, or with a result that `read_callback` has not seen; its buffer |
| `shutdown`, `reports`, `blocking`, `signalled` | `shutdown_thread`, `input_reports`, `blocking`, the condition |
| `attached` | the handle's device has not gone |
| `hc`, `host` | the control transfer in progress; what the host believes of the device |

### The card (`SdCard`, `FatFile`, `IniFile`, `CardMenu`)

| Variable | Code |
|---|---|
| `card`, `awake` | what is in the socket, and whether it has been sent the commands that wake it |
| `Stat` | `Stat` of `mmc.c` |
| `fs`, `fil` | `FATFS` with its window, `FIL` with its buffer; `fil.card`, `fil.name` are histories |
| `call` | the call of FatFs in progress with its locals, and what the last one returned |
| `scan`, `get` | the locals of `iniBrowseSections` or `iniBrowseKeys`, and of `iniGetKey` |
| `ui` | `state`, `tab_changed`, `sdcard_in_socket`, `config_is_readed`, `conf`, `selected_section`; what is on the screen |
| `load` | the locals and statics of `uiConfig` and of the loader it calls, with the 512 byte `buffer` |
| `fpga`, `ram`, `mux` | the FPGA, the RAM behind its service core, `pinSpiMux` |

A sector that may have to come from the card is one step; what needs none belongs to the
step before. `DiskRead` has three outcomes: the sector, an error, and a sector that
ends in `Junk` because the card was pulled on the way. `Line` is a line of the file, `Gets` a character or
the end of a line. Each read of a loader and each look-up of `uiConfig` is an action.

## 4. Runs

| Run | Instance | States | Shows |
|---|---|---|---|
| `commands` | `BootCommands`, any order of 12 packets | 277 thousand | The device alone: whole instructions at their own addresses, nothing accepted is forgotten when a section closes, an erase stays where the lock allows even if the lock returns in the middle, every command ends |
| `update` | `BootSystem`, no faults, three files, one damaged | 58 thousand | The update refines `FlashImage`, whose images are what the hex files say, locked pages are kept, configuration words are only erased by who programs them again, every write ends in success |
| `faults` | `BootSystem`, one fault, application restarted at will | 323 thousand | Success is only claimed of a device that holds the file; no reply is taken for another's; no packet is silently dropped; a write ends |
| `auto_lock` | three files, one without configuration words | violation | Opening such a file while unlocked locks the device but keeps the unlocked ranges: the locked page is programmed (`MainWindow.cpp:969`) |
| `relaunch` | application started again | violation | The new instance does not know that the device is unlocked and erases the configuration words (`MainWindow.cpp:91,185`) |
| `unplugged` | one fault | violation | After a failed `Program` the window never polls again (`MainWindow.cpp:747`) |
| `loader` | `LoaderSystem`, no faults | 8 thousand | What the loader says of the FPGA and of an erase is true, no packet is stored over an unread one, every operation ends |
| `loader_faults` | one fault, slow transfers, cores that take the SPI | 278 thousand | No packet is run twice or in a later session, no answer is another session's, a write without a failed transfer has stored the file, configure and write end |
| `programmed` | one fault | violation | "DataFlash Programming is Done" after a failed transfer (`mainwindow.cpp:292,332`) |
| `link` | `UsbLink`, one fault | 925 thousand | Both ends agree on address, configuration and toggles; the next SETUP can always be taken; a control read brings what was asked; neither a control transfer nor `hid_close` nor a reader gets stuck; nothing arrives once the read thread has ended; no packet is taken twice but for two holes the property names; the link refines `ReportPipe` and loses nothing |
| `hid_close` | the instance of `link` | violation | The read thread can end, and `hid_close` free the transfer, before the transfer's callback was made (`hid-libusb.c:521-534`) |
| `card` | `CardMenu` and `CardSystem`, two cards, one pull | 255 thousand | The status only vouches for an initialised card; FatFs refines `FileStream`; look-ups and list are the card's; the core that runs is the one chosen, with its ROMs and cleared RAM; the list goes with the card and every load ends |

### Bounds

* `MaxFaults` bounds how often the device leaves the bus, is reset, or (loader)
  the application is killed. The hazards are about what one disturbance leaves
  behind; the theorems of section 6 hold for any number.
* Program memory is three pages: the bootloader's own, one user page, and the
  one with the configuration words. Pages of 8 words make a locked range two
  full packets and an unlocked one end in a short packet; pages of 6 (`faults`)
  make both end in a short packet; pages of 4 (`commands`) let packets of one and
  two instructions be mixed. A packet is two instructions: the least that can be short.
* The files contain blank packets, data in the first and in the last packet, and configuration
  words or none: the cases `Program` and `LoadFile` distinguish.
* The bitstream is two packets, the least that has a first and a last; the
  DataFlash one or two pages of two parts, each part of the file different from
  all the others, so that a wrong place is a wrong content.
* `Polls` is 2 instead of 15: a repeated poll and a last one.
* Hex files: an extended linear address counts pages and an extended segment address instructions, instead of 64 KB
  and 16 bytes. The files have both kinds, records in descending order, of a word given twice, outside the ranges, across
  the end of a range, after the end of file record; one has no such record, one a damaged line after its configuration
  words, which are blank.

* `link`: control packets of 2 bytes, so that a descriptor takes one packet, an exact number of them, or a short last one;
  a status stage timeout of one frame; an input queue of one report behind the first (`MaxQueued` 0 instead of 30), so that it overflows. A
  halt, a transfer given up, a bus reset and a pulled plug are the faults. Requests
  that do not concern endpoint 1 come before the configuration, and none while a
  handle is open; an open follows the report descriptor, as the host's HID driver's
  enumeration does, with the device at rest. A halt is ended only after it was set. A SET_ADDRESS that was given up is tried
  again. The interrupt handler comes before the main loop (`Quiet`).
* `card`: sectors of two items, so that every file has boundaries; a card with a master boot record, a
  directory of two clusters and a fragmented `config.ini`, whose first section is empty and whose second has two ROMs, a region to
  clear and a bit file; and one without a partition table, with an automatic start, a raw bitstream
  and the SPI for the FPGA. One pull at any step, the middle of a sector included. Cards are put in only while the
  list is up and once the interrupt has seen the socket empty, and not in the moment between
  the last command of `disk_initialize` and its end; Enter is not
  pressed in the millisecond before the interrupt notices a new card. Two list entries at most
  (`CONFIG_MAX`), ROMs in ascending order.

Deadlock is checked in every run but `unplugged`, whose subject is a window that
has stopped, and `link`, whose user may have nothing more to ask.

### Fairness

* Bootloader: weak fairness of the device's step (`main` loops for ever) and of the
  worker (a thread that was started). `commands` also assumes that the host reads
  answers, as the operating system does for an interrupt endpoint.
* Board: weak fairness of the main loop's step, of the chip (an erase or a
  page program takes a bounded time) and of the loader's next transfer, which either
  succeeds or times out.
* Card: weak fairness of the program (the main loop and the calls it makes) and of
  the timer interrupt. Keys and cards are free: nobody has to press, pull or insert.
* Link: none. What would be liveness there, `ControlNeverStuck`, `CloseNeverStuck`, `NoLostWakeup`
  and `SetupReady`, is stated as safety: whoever waits has something on
  its way, without assuming how the host schedules its transactions.
* Nothing is assumed of the user, the bus or the faults. In `loader` a device
  that stays connected is part of the instance (`MaxFaults = 0`).

## 5. Modelling decisions

*Hex import.* `Says` of `HexImport` is the reference: of a word it asks which record is the last on it and
which extended address the last before that, without reading the file in order. `FlashImage` may only choose images
made with it. Records are of whole words, as a compiler for the PIC24 writes them. `InsufficientMemory` is left out.
A damaged line is either one whose start, length or checksum is wrong or one cut short with a checksum that is
right by chance; the importer tells them apart only for records with a payload.

*Bootloader.* Handlers other than erase last less than a millisecond and a
re-enumeration tens of them, so `EventConfigured` finds the interpreter idle, about
to dispatch or erasing. The microseconds between copying a packet and arming the
endpoint again are not a state. A transfer only fails when the handle is closed
or stale: the retries of `Comm` (3 to 5 times 40 s) outlast every command. The phantom
byte is not represented because both ends ignore it. `writeFlash` is TRUE; there is no device in
the repository whose version enables the extended query and `SignFlash`. Window and worker are one
sequential control: what can happen between queued signals is left to a module
of the plan.

*Board and loader.* The FPGA ignores data until the sync word, a gap in a
bitstream is never made good, and other bytes on the same SPI spoil a bitstream that has
begun. The DataFlash ignores commands while it is busy, except the filling of its
buffer. The power button resets the microcontroller and leaves the chips as they are.
Enumeration takes longer than the first pass through the main loop (`Plug`), and
a new session of the host does not begin in the instant between the end of a wait
and the refresh after it (`Settled`). A transfer times out only when the board loads
from the card, waits for an erase, waits for the host to read, or nothing is due.
`InputPacket` is not initialised: its bytes are any. Questions are answered
with Yes. When `on_pushButtonWriteDataflash_clicked` returns without `usb_close` (:265), the device is
nevertheless treated as closed: what a second claim does then is libusb's affair.

A session that begins while the board still waits in `usbGenericFlush` for a host
that is gone arms both descriptors at once, and the first two packets of that session
share the packet memory. `NothingOverwritten` is therefore a property of the
undisturbed bus; with faults it would not hold.

`FileAssumption`: no part of the file looks like what is read from a chip that does not
answer. Such a part would pass the loader's comparison whatever the DataFlash
holds, and `StoredUnlessFailed` would be false of it.

*Link.* libusb is modelled by its contract: `libusb_cancel_transfer` succeeds on a transfer in progress only. On one
that is complete or already cancelled it returns `LIBUSB_ERROR_NOT_FOUND` and changes nothing, whether or not the callback
has been made (`CancelTransfer`). Whoever handles events runs the callback, the caller in a synchronous write included. Hence the run
`hid_close`: `hid_close` sets the flag and cancels (`:851`) while the read thread is between two calls of
`libusb_handle_events_timeout`. The thread sees the flag, its own cancellation (`:523`) fails, it takes this for "no transfers are
pending" and ends without waiting. The join returns and `:857` frees a transfer whose callback is outstanding. A
transfer that completed in the same gap ends in the same way. The model follows it no further: `CloseJoins` forgets the transfer, as
the kernel discards the URBs of the descriptor `libusb_close` closes, and what libusb does with the freed memory is undefined.
What the second cancellation does achieve is `NothingArrives`: when `read_callback` has submitted a transfer again after
`hid_close` found nothing to cancel, the thread cancels that one.

The SETUP handler takes descriptors back by clearing `UOWN` (`usb_device.c:2488-2492`) and leaves the ping-pong pointers where they
are. A comment in `USBCancelIO` (`:1140-1142`), which nothing calls, says that clearing `UOWN` makes the hardware's pointer
advance. The model follows the handler that runs: `Cancelled` moves neither the firmware's pointer nor the SIE's. If
the comment is right about the chip, `SetupReady` and what rests on it need not hold after an abandoned IN data stage.
A descriptor the firmware has back keeps only its
toggle, which is all that is read of it. `CommandsFresh` excuses two situations it was found violated in:
`main.c:127` ignores `EVENT_TRANSFER_TERMINATED`, so after a halt of the OUT endpoint the old packet is taken again; and
a bus reset or SET_CONFIGURATION between `main`'s look at the state and the task frees the
descriptor the handle names. A packet armed on a halted endpoint ends the halt (`USBTransferOnePacket`
writes the whole status byte); the model does so too. A report that was armed before a handle
was opened is read by the new handle: `ReportPipe` connects with what is there.

*Card.* Single bit changes of `Stat` are atomic; the read and write of the whole byte is in the
interrupt. Several things the code does are kept as they are: an error in the middle of a line
ends it; a 0xFF from a torn sector counts as a space (`char` is signed, `iniparser.c:67`), so that what stood before it is taken
for the whole value; a line without "=" empties the value of the key before it (`:104`); the pass that has found its
key reads one more line (`:147`); the last buffer of a file is written whole, and once more at the end; static variables of
`uiConfig` keep what a cut off line omits; the keys work while an error is on the screen. FAT12 and FAT16 differ
from FAT32 in the width of an entry and in the root directory's place only; the memory mode, the
long names and the writing half of FatFs are left out. A read is of at most a sector, as all of the
firmware's are. The `config.ini` in `bin/` gives raw `.bin` files under `bitstream`, which
firmware v2 takes for a bit file and refuses (`bitstream.c:38`); it is written for firmware v1, and `MCCard`
gives its raw file under `rawbitstream`.

*All.* Data are abstracted to what the properties tell apart: a word or a part of a page is a
member of a small set.

## 6. Proofs

`BootDeviceProofs`, `BootCommandsProofs`, `BootSystemProofs`, `BootUpdateProofs`,
`LoaderProofs`, `UsbStackProofs`, `LinkProofs` and `CardProofs` are checked by TLAPS. They assume the
named assumptions on the constants (`LayoutAssumption`, `OfferedAssumption`, `UnitsAssumption`, `FilesAssumption`,
`BoardAssumption`, `FileAssumption`, `LoaderAssumption`, `FaultsAssumption`, `HidAssumption`,
`StackAssumption`, `LinkAssumption`, `RequestAssumption`, `CardAssumption`, `SectorAssumption`, `VolumeAssumption`, `NumberAssumption`) and nothing else but the hypotheses named below, of the theorems on `FlashImage` and on the undisturbed loader: memory layout, packet size, set of packets,
hex files, files, cards, queue length, number of polls, pulls and faults are arbitrary.

*Bootloader, device.* `BootCommands`' invariant is `DeviceInv` with `owed = Buffered`, and
`DeviceInv == DeviceTypeOK /\ Position`; `BootDeviceProofs` proves the latter for each action of the device, so
that `BootCommands` and `BootSystem` share it. The
properties speak of states between commands or in the flush loop, and are not
inductive: a step of `BufferWord` or `WriteInstruction` in the middle of a packet has to know where
the loops stand. `Position` says so (`pointer = packet.addr + done` while a
packet is unpacked, the parities, and that the buffer is never full outside the flush), and `Buffered`
says which words at which addresses the part of the buffer from `latch` on stands for, in
every state. One lemma per action shows that `Inv` is kept. From it follow
`TypeCorrect`, `InstructionsWhole`, `BufferFaithful`, `ClosedSectionsStored` and
`ErasesConfined`.

*Hex import.* `ImportedAsSaid`: after an import that succeeds each word inside the ranges is what `Says` says of it
for the last line, and Blank where it says nothing. The importer keeps one segment address and overwrites; `Says`
looks, for one word, for the last record on it and for the last address record before that one. What holds after
`n` lines (`ReadSoFar`) ties the two: the importer's segment is the one given last, and each word is that of the
last heeded record among the first `n`. It is an induction over the lines. The library's
induction theorems take an operator as a parameter and cannot be used here; `SetInduction` states
induction for a set of naturals instead, from the minimum of its complement, and `LinesDef` justifies the recursive
function `Lines` with it.

*Bootloader, both ends.* `SystemInv` holds with any number of faults, with and without
restarts, and for any set of files. None of the four safety properties is inductive:
`OwnReply` needs to know that there is at most one question on its way, and that it is the one the running task
waits for (`Exchange`, which also says that an answer to GET_DATA is what the memory still holds);
`ContiguousSections` needs to know where the section will stand once the commands on their way have been
carried out, and that the host's `addr` and `skipping` agree with that (`Sections`, `AfterSent`);
`VerifiedImage` needs what has been read back so far, and that nothing on its way will change it (`Verified`,
`Calm`, `ReadBack`); `WritesImage` needs every packet and every buffered word to come from the image that is still
there (`FromImage`). `DeviceInv`, `HostTypeOK` and `Progress` carry the loop counters. A report lost, an unplugged cable
or a device reset in the middle of a flush is a case of each proof.

*Refinement of* `FlashImage` (`UpdateImplemented`). `UpdateInv` adds what is only true on a device that stays on the
bus: `Attached` (no handle is stale), `Tasked` (each command on its way belongs to the
running task), `Known` (the application knows the lock, and the file was opened knowing it),
`Cleared` (the words a write has still to program are blank) and `InRange` (what is programmed is in the file's ranges). Under it the initial states map
to initial states and every step to a step or a stutter. The theorem has two hypotheses: `MaxFaults = 0`, and
`FilesComplete`, that every file that is accepted has a word for the configuration. Both are
needed: without either TLC finds `UpdateSpec` violated, in the way the run `auto_lock` shows (a device
locked behind the application's back keeps its configuration words from the erase, and they are programmed twice).
Two properties that are false without them for the same reason are proved under them: `LockedPageStays` from
the invariant as it is, and `ErasedToBeWritten` with `MayRelaunch = FALSE` and one invariant more, `Permitted`: the
lock that the device has, or is about to be given, is the one the check box asks for, so that an erase of the
configuration page is always one of the write whose file was opened for it. An application that is started anew
has the check box unset and finds the device unlocked, which is what the run `relaunch` shows.

*Board and loader.* The lemmas on `UsbEndpoint` say what arming, clearing,
configuring, storing and taking do to the record. `TypeInv` adds to the types
the ranges of what a packet carries (`PacketOK`) and of the loader's counters at each
step (`StepOK`), without which neither a page write nor a page read is well typed.
`Exchange` adds `Served` (while configured, the handle looks at a descriptor, and when
`main` is about to look, that descriptor has come back only because the host
filled it) and `Current` (an answer that waits was given in this session).
From them follow `LoaderTypeCorrect`, `CommandsAreFresh` and `AnswersAreCurrent`.

`Stored` is the argument for `WritesAreStored`. As long as no transfer of a write has
failed, the packet that waits for the handler is the one the loader sent last
(`Orders`), so no command can start an erase or program another page; an
answer other than `Junk` shows that the chip is ready and holds what was read
(`Answered`); and once a part has been compared the chip is ready, or busy with the
page that is about to be compared (`Quiet`): an erase that an earlier session left
behind has then ended. Hence what was compared stays as it was (`Written`), and
after the last page the whole DataFlash is the file. That the board's reset, the cable
and the user interface change nothing of this is a case of the proof each.

*Board and loader, undisturbed.* What the loader says of the FPGA and of an erased chip rests on transfers
whose results it does not look at. TLC finds `ConfiguredWhenSaid`, `ErasedWhenSaid` and `NothingOverwritten` violated as
soon as one fault or one timeout is allowed, also in an earlier session, so `DoneMeansConfigured`,
`DoneMeansErased` and `PacketsAreTaken` have the hypotheses `MaxFaults = 0` and `Slow = FALSE`, those of the run that
checks them. `Undisturbed` says that the two sides then take turns: one descriptor is armed and no packet
has come, or one packet waits, or the handler has it and nothing is armed (`Turns`); and which packet, or which answer, follows
from the loader's step (`Alternation`). Two invariants are added to it: `Loads`, that from the reset on the FPGA has
no core or the file's unless the user interface loaded one; and `Erases`, that the chip is ready before the erase command is
taken, and busy with it or blank from then on. The latter needs `Masters = {"mcu"}`: with a core that
has taken the SPI, command and status go to nobody (`mainwindow.cpp:372`).

*HIDAPI.* `LibraryInv` says what each place of the caller and of the read thread implies for the transfer:
a thread that has cancelled waits for a transfer with a result; a thread that has ended left nothing to the kernel, and a
result nobody was told of only if `hid_close` cancelled; a caller
that joins has set the flag and cancelled. That there is no such result is what the run `hid_close` refutes, and
is not claimed. None of the three properties is inductive without it: a step of
`Reap` or `LoopEnds` has to know who has cancelled already. `LinkStep` reduces a step of the whole link to one of
the library or a stutter, whatever the bus and the device do.

*Device stack.* The functions of `UsbStack` are operators from devices to devices, so the invariant is a predicate
of one device, `DevInv`, and most of the proof is about operators. `SetupReady` is not inductive: whether a
descriptor is armed for the next SETUP depends on what every earlier control transfer left behind, at whatever
point it was given up. Its strengthening says, for endpoint 0,

* `OneWaits`, `SetupLast`: what may be waiting in the SIE's FIFO. At most one IN transaction; two OUT ones only when a read's
  status stage and the SETUP after it have both arrived. Packets are disabled exactly while a SETUP waits, behind all else;
* `OutTurn`, `InTurn`: the firmware's ping-pong pointers are the SIE's, but for what waits;
* `Stage`: `BothEP0OutUAOwned` goes with a read, a status stage is open before data are armed, and a deferred
  one has its timer running;
* `OutReady`: the SIE owns the OUT descriptor it will use next; if it owns both, the older one is stalled for anything
  but a SETUP, which is what the stack does during a read because it cannot know whether a status stage or a SETUP comes next.

For endpoint 1 `Ep1Inv` says that the application's handle names a descriptor it has given away, unless the packet in it is
fresh or a halt has taken it. `UsbStackProofs` has one lemma for each function that says which fields it leaves
alone and what becomes of the descriptors, and one for each event, SETUP, data and status packets, the timer,
a stalled handshake, bus reset, the reports, that says `DevInv` is kept. `LinkProofs` matches the steps of the link with those
events (`DevStep`). `SetupIsReady` and `CommandsAreFresh` follow, from `StackAssumption` and `LinkAssumption` alone: for every
set of requests, also those a well-behaved host does not send, and any number of faults.

*Both ends of the cable.* `Agreed` speaks of moments at which nothing is under way, and is not inductive: a host that has
given a transfer up, reset the bus or halted an endpoint goes on from whatever the device made of it. `Sides`
is what holds at every moment:

* `TransferInv`: the request of a control transfer is the one the device has stored;
* `AddressInv`: the two have the same address, but between the end of SET_ADDRESS on the bus and the interrupt that makes
  it so, and then the device is about to take the host's;
* `ConfigInv`, `ToggleInv`: so with the configuration and, on a pipe the host does not hold halted, the next toggle;
* `StageInv`: once the firmware has seen the request, what the host waits for is with the SIE, or a timer is running;
* `AttachedInv`: while an application has the device, endpoint 0 has nothing to finish.

`Turns` adds for endpoint 1 which of the two descriptors of a pipe is the SIE's next and that the other is not armed
before it. With `DevInv` and `LibraryInv` this is `LinkInv`, and `SidesAgree` and `ControlIsFree` follow. The proof
needs one assumption more, `RequestAssumption`: a request that has no data stage does not
ask for data, and no device is given the address 0, as USB 2.0 has it (9.4). A host that breaks it can leave the two waiting for each other,
and `Requests` of the instance keeps it.

*Refinement of* `ReportPipe` (`CableIsPipe`). The pipe's `down` is the packet the application has not taken (`fresh`), its
`up` the library's queue, the report in a transfer that is complete but not reaped, and the one armed on `in1`, in this order.
`PipeStep` lists, for each step of the link, what the pipe sees of it; most see nothing, because they
leave `fresh`, `rx`, `tx` and the descriptors of `in1` alone (`SameEnds`). What remains are the report that is delivered, taken, answered, sent,
reaped (the queue and the reaped report change places and `up` is the same) and read, the overflow, and the breaks: a halt or a
reset takes away what is armed, and a handle that is closed what is queued, which is a part of `up` without its beginning or its end
(`Left`). `Turns` is what makes a halt harmless for the order. `ConnectedKeeps` follows from the same classification.

*Data of a control read* (`ControlReads`). `ReadInv` says that what the host has got is the beginning of what it asked for;
`PacketInv` that the device stands where the host does: the packet with the SIE follows what the host has and has the
toggle the host expects, and if it has just moved, the device's position is behind it. Transfers that were given up and requests that
were refused change `dev.both` or the phase, which is what the two are conditional on.

*Card.* `StatHonest` fails to be inductive in the last moment of `disk_initialize`, where the flag is
about to be cleared for a card that may be gone: `HonestInv` adds that a call which is there has
woken the card or has none. The proof follows who can touch the driver: a step of the
menu, the parser or the loader only asks FatFs for something (`Asks`), a step of FatFs reads or
initialises (`Serves`), and only the hand and the timer are left.

*Refinement of* `FileStream` (`FilesStream`). FatFs sees sectors and links, a caller sees a file. `VolumeAssumption`
says how the two hang together on a card that was formatted and written as FAT has it: the geometry
is in the boot sector and in every sector that could be taken for one, each cluster is linked to the next one of
its file and the last to none, item `p` is at `Place(c, f, p)`, and the entries of the root directory give each file's size
and first cluster. It says nothing of a file's clusters being in order or of its size filling them, and it lets a file be empty. The cards of
`MCCard` meet it, TLC evaluates it on every run. `NumberAssumption` says that the lengths in the header of a bit file are numbers.

`CardInv` has three parts. `FatInv` is about the file: once a volume is mounted it is the card's (`VolumeInv`, with the
sector in the window); the search is in the root directory (`DirectoryInv`); the entry found is the file's (`FileInv`);
the current cluster is that of the item before the pointer (`ClusterInv`), or the next one between `get_fat` and the
read of the sector; and the sector in the buffer is one the file has begun, in the middle of a sector the one the pointer is in (`BufferInv`). The last
two are what makes `f_read` right at a cluster's end, where `csect` is 0 and the link is followed from `fil.clust`, and why it may
compare `dsect` with the sector alone. `Copy` weakens all of them once the card has been pulled: what was read may end in `Junk`, and
a link or an entry of `Junk` ends the call. `SocketInv` says that no other card takes the file's place, because the
status has to be cleared by `disk_initialize` first.

`FatInv` alone is not inductive: a seek back would leave a later sector in the buffer, and a card that is then pulled would
still deliver it from there, a block that `FileStream` says is not read any more. The firmware never seeks back, and that is
what `HeaderInv` says. It follows `readBitFileHeader`: each field is read byte by byte and skipped from where it ends, so that the
pointer is never beyond the place the next seek goes to (`Reach`), even if reads came up short. And that holds
only if nobody else moves the pointer meanwhile: `TurnInv` says that of the parser, the menu and the loader one has
the file at any time. There is one lemma per action of `FatFile` (`...Step`) and per caller (`...Keeps`).

Only model-checked: `LookUpRight`, `ListTrue` and `CoreReady`, which speak of what the parser makes of a whole file, line by line, and
need an induction over its text for every pass; and every liveness property, since
liveness under fairness and ENABLED are out of this prover's reach.

## 7. Not modelled

The jump to the user application and the LED; the extended query and `SignFlash`;
the loader's status, prepare and RTC buttons
and the firmware commands behind them (RTC, MCU_READY, COMM transfers, soft reset,
power of two); curses, EEPROM and RTC; suspend and remote wake-up; the writing half of FatFs;
firmware v1, which firmware v2 supersedes, and whose WD1793 emulation is called from nowhere; the FPGA
firmware loader (a command line tool without state); cores and hardware. `PROJECT.json` gives the reason for each.

Most of the C sources by lines are vendored: three copies of Microchip's stack and two of FatFs, with class
drivers, other platforms and conditional code that no program here compiles. The modules
map the copies that run.

## 8. Plan

1. The remaining buttons of the loader and commands of the firmware, in `Board` and `AeonLoader`.
2. The window and the worker of the bootloader's application as two processes with queued
   signals (`MainWindow.cpp:168-306`).
3. Proofs: what is left of the menu (`LookUpRight`, `ListTrue`, `CoreReady`), where it does not need induction
   over a file's text; `FilesStream` is what such a proof would start from.
