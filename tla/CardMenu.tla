------------------------------ MODULE CardMenu ------------------------------
(***************************************************************************)
(* What firmware v2 does with the card (ui.c, fpga.c, bitstream.c): it     *)
(* looks for a configuration to start by itself, shows the list of them    *)
(* and, when one is chosen, loads its ROMs, clears its RAM and configures  *)
(* the FPGA, while a hand may pull the card at any moment.                 *)
(***************************************************************************)
EXTENDS IniFile

CONSTANTS
  Number,       \* what a number in config.ini or in a bit file stands for
  Address,      \* the FPGA board's RAM
  Blank,        \* what ramclear writes
  Fields,       \* named fields in the header of a bit file
  Cores,        \* the bitstreams there are
  CONFIG_MAX    \* names the list has room for

ASSUME MenuAssumption == Fields \in Nat /\ CONFIG_MAX \in Nat \ {0}

VARIABLES
  ui,     \* the user interface's state, and its list of configurations; listed
          \* and since are history: the card it was read from, and when
  load,   \* the configuration being loaded; card is history
  fpga,   \* "service", "none" or "card", and what it has been fed
  ram,    \* the RAM and the FPGA's address counter
  mux     \* pinSpiMux

menuVars == <<ui, load, fpga, ram, mux>>
vars == <<sdVars, fatVars, iniVars, menuVars>>

NoName == ""

MenuInit ==
  /\ ui = [at |-> "autostart", tab |-> 0, changed |-> TRUE, socket |-> FALSE, readed |-> FALSE,
           names |-> [i \in 1 .. CONFIG_MAX |-> NoName], count |-> 0, item |-> 0, i |-> 0,
           screen |-> "none", listed |-> NoCard, since |-> 0, selected |-> NoName]
  /\ load = [at |-> "off", index |-> 0, file |-> "", addr |-> 0, length |-> 0, pos |-> 0,
             card |-> NoCard, buffer |-> [i \in 1 .. SectorSize |-> Junk]]
  /\ fpga = [core |-> "service", fed |-> <<>>]
  /\ ram = [cell |-> [a \in Address |-> Junk], addr |-> 0]
  /\ mux = "mcu"

Init == SdInit /\ FatInit /\ IniInit /\ MenuInit

UiAt(at) == ui.at = at
LoadAt(at) == load.at = at
fpgaVars == <<fpga, ram, mux>>
Quiet == UNCHANGED <<sdVars, fatVars, scan, get>>

-----------------------------------------------------------------------------
(* uiAutoStart.                                                            *)

AutoStart ==
  /\ UiAt("autostart")
  /\ ui' = [ui EXCEPT !.at = "autosection", !.i = 0]
  /\ BrowseSections(0) /\ UNCHANGED <<get, load, fpgaVars>>

AutoSection ==
  /\ UiAt("autosection") /\ Scanned
  /\ IF scan.found
     THEN /\ ui' = [ui EXCEPT !.at = "autokey", !.selected = scan.name]
          /\ GetKey(scan.name, "autostart", 0)
     ELSE ui' = [ui EXCEPT !.at = "menu"] /\ Quiet
  /\ UNCHANGED <<load, fpgaVars>>

\* iniBool.  A torn line has lost its 0xFF in RemoveSpaces.
True(value) == Len(value) = 1 /\ Kind(value[1]) = "true"

AutoKey ==
  /\ UiAt("autokey") /\ LookedUp
  /\ IF get.found /\ True(scan.value)
     THEN ui' = [ui EXCEPT !.at = "config"] /\ Quiet
     ELSE /\ ui' = [ui EXCEPT !.at = "autosection", !.i = @ + 1]
          /\ BrowseSections(ui.i + 1) /\ UNCHANGED get
  /\ UNCHANGED <<load, fpgaVars>>

-----------------------------------------------------------------------------
(* uiMainLoop and the tab "Configurations".  The service core that shows   *)
(* them runs as long as they do.                                           *)

OnlyUi == Quiet /\ UNCHANGED <<load, fpgaVars>>

\* The five other tabs do nothing.
Tab ==
  /\ UiAt("menu")
  /\ ui' = [ui EXCEPT !.tab = 1 - @, !.changed = ui.tab = 1, !.at = IF ui.tab = 1 THEN "tab" ELSE "menu"]
  /\ OnlyUi

Poll == UiAt("menu") /\ ui.tab = 0 /\ ui' = [ui EXCEPT !.at = "tab"] /\ OnlyUi

\* The first lines of tabHandlerConfigurations: a new card, or a new look at
\* the tab, starts with a delay of 200 ms.
LookForCard ==
  /\ UiAt("tab")
  /\ LET socket == IF ui.changed THEN card = NoCard ELSE ui.socket
         screen == IF ui.changed THEN "none" ELSE ui.screen
         there  == ~socket /\ card # NoCard
     IN ui' = [ui EXCEPT !.changed = FALSE, !.screen = screen, !.socket = there \/ socket,
                         !.at = IF there THEN "delay" ELSE "check"]
  /\ OnlyUi

ReadConfigurationFile ==
  /\ UiAt("delay") /\ Seen
  /\ ui' = [ui EXCEPT !.at = "list", !.i = 0, !.listed = card, !.since = pulls]
  /\ BrowseSections(0) /\ UNCHANGED <<get, load, fpgaVars>>

\* The name is written into the list wherever a section opens, counted or not.
ListSection ==
  /\ UiAt("list") /\ Scanned
  /\ LET names == IF scan.name = NoName THEN ui.names ELSE [ui.names EXCEPT ![ui.i + 1] = scan.name]
         n     == ui.i + IF scan.found THEN 1 ELSE 0
     IN IF scan.found /\ n < CONFIG_MAX
        THEN /\ ui' = [ui EXCEPT !.names = names, !.i = n]
             /\ BrowseSections(n) /\ UNCHANGED get
        ELSE /\ ui' = [ui EXCEPT !.names = names, !.count = n, !.item = 0, !.at = "check",
                                 !.readed = @ \/ n > 0,
                                 !.screen = IF n > 0 THEN "list" ELSE "error"]
             /\ Quiet
  /\ UNCHANGED <<load, fpgaVars>>

\* Mutant: the list stays usable without its card.
Forgotten_Kept(u) == [u EXCEPT !.socket = FALSE, !.screen = "insert"]

Forgotten(u) == [u EXCEPT !.socket = FALSE, !.readed = FALSE, !.screen = "insert"]

CheckRemoved ==
  /\ UiAt("check")
  /\ LET gone == ui.socket /\ card = NoCard
     IN ui' = [(IF gone THEN Forgotten(ui) ELSE ui) EXCEPT !.at = "keys"]
  /\ OnlyUi

\* The list's keys; the screen is not looked at.
NoKey == UiAt("keys") /\ ui' = [ui EXCEPT !.at = "menu"] /\ OnlyUi

Down ==
  /\ UiAt("keys") /\ ui.readed /\ ui.item < ui.count - 1
  /\ ui' = [ui EXCEPT !.at = "menu", !.item = @ + 1] /\ OnlyUi

Up ==
  /\ UiAt("keys") /\ ui.readed /\ ui.item > 0
  /\ ui' = [ui EXCEPT !.at = "menu", !.item = @ - 1] /\ OnlyUi

\* A bound: not in the millisecond before the interrupt notices a card.
Enter ==
  /\ UiAt("keys") /\ ui.readed /\ Seen
  /\ ui' = [ui EXCEPT !.at = "config", !.selected = ui.names[ui.item + 1],
                         !.listed = NoCard, !.since = 0] /\ OnlyUi

-----------------------------------------------------------------------------
(* fpga.c.                                                                 *)

\* Mutant: the address is counted up before the write.
Write_Preincremented(cells, from, items) ==
  [a \in Address |-> IF fpga.core = "service" /\ a > from /\ a <= from + Len(items)
                     THEN items[a - from] ELSE cells[a]]

\* Memory writes need the service core.
Write(cells, from, items) ==
  [a \in Address |-> IF fpga.core = "service" /\ a >= from /\ a < from + Len(items)
                     THEN items[a - from + 1] ELSE cells[a]]

\* The FPGA starts when it has been fed a whole bitstream.
Feed(items) ==
  LET fed == fpga.fed \o items
      whole == {c \in Cores : Len(c) <= Len(fed) /\ SubSeq(fed, 1, Len(c)) = c}
  IN IF fpga.core # "none" THEN fpga
     ELSE IF whole = {} THEN [fpga EXCEPT !.fed = fed]
     ELSE [core |-> "card", fed |-> CHOOSE c \in whole : TRUE]

\* f_read fills the buffer from its start and leaves the rest.
Filled == [i \in 1 .. SectorSize |-> IF i <= Len(call.got) THEN call.got[i] ELSE load.buffer[i]]

\* Mutant: only the end of the file ends the loop.
LastRead_Eof == call.res = "OK" /\ call.got = <<>>

LastRead == call.res # "OK" \/ call.got = <<>>

Load(at) == load' = [load EXCEPT !.at = at]

\* fpgaReset succeeds.
fpgaReset == fpga' = [core |-> "none", fed |-> <<>>]

-----------------------------------------------------------------------------
(* uiConfig: the ROMs, the RAM, the FPGA, the SPI.                         *)

OnlyLoad == UNCHANGED <<ui, fpgaVars>>

AskFor(key, index) ==
  /\ load' = [load EXCEPT !.at = key, !.index = index, !.buffer = IF LoadAt("ramread") \/ LoadAt("feed") THEN Filled ELSE @]
  /\ GetKey(ui.selected, key, index)

Config ==
  /\ UiAt("config") /\ LoadAt("off")
  /\ load' = [load EXCEPT !.at = "rom", !.index = 0, !.card = card]
  /\ GetKey(ui.selected, "rom", 0) /\ OnlyLoad

\* iniResolveROM, iniResolveRAM: what ends in a comma; a line cut off leaves
\* the last value's number n.
Resolved(n, old) == IF Len(scan.value) < n THEN old ELSE Number[scan.value[n].text]

\* A name of which nothing is missing.
FileName(value) == IF Len(value) = 1 /\ Kind(value[1]) = "file" THEN value[1].text ELSE "?"

\* The static filename, addr and length keep what an incomplete line omits.
RomKey ==
  /\ LoadAt("rom") /\ LookedUp /\ OnlyLoad
  /\ LET file == IF scan.value # <<>> THEN scan.value[1].text ELSE load.file
     IN IF get.found
        THEN /\ load' = [load EXCEPT !.at = "ramopen", !.file = file, !.addr = Resolved(2, @)]
             /\ StartOpen(file) /\ UNCHANGED iniVars
        ELSE AskFor("ramclear", 0)

\* fpgaInitRamFromFile.
RamOpened ==
  /\ LoadAt("ramopen") /\ Finished
  /\ IF call.res = "OK"
     THEN /\ ram' = [ram EXCEPT !.addr = load.addr]
          /\ Load("ramread") /\ StartRead(SectorSize) /\ UNCHANGED iniVars
     ELSE AskFor("rom", load.index + 1) /\ UNCHANGED ram
  /\ UNCHANGED <<ui, fpga, mux>>

\* The whole buffer is written, however much was read.
RamRead ==
  /\ LoadAt("ramread") /\ Finished
  /\ ram' = [cell |-> Write(ram.cell, ram.addr, Filled), addr |-> ram.addr + SectorSize]
  /\ IF LastRead THEN AskFor("rom", load.index + 1)
     ELSE load' = [load EXCEPT !.buffer = Filled] /\ StartRead(SectorSize) /\ UNCHANGED iniVars
  /\ UNCHANGED <<ui, fpga, mux>>

ClearKey ==
  /\ LoadAt("ramclear") /\ LookedUp /\ UNCHANGED <<ui, fpga, mux>>
  /\ LET addr   == Resolved(1, load.addr)
         length == Resolved(2, load.length)
     IN IF get.found
        THEN /\ ram' = [cell |-> Write(ram.cell, addr, [i \in 1 .. length |-> Blank]),
                        addr |-> addr + length]
             /\ load' = [load EXCEPT !.addr = addr, !.length = length, !.index = @ + 1]
             /\ GetKey(ui.selected, "ramclear", load.index + 1)
        ELSE AskFor("bitstream", 0) /\ UNCHANGED ram

\* fpgaConfigureFromFile and fpgaConfigureFromRawFile, up to f_open.
ConfigureFrom(key, at) ==
  /\ LoadAt(key) /\ LookedUp /\ get.found
  /\ Load(at) /\ fpgaReset /\ StartOpen(FileName(scan.value))
  /\ UNCHANGED <<ui, iniVars, ram, mux>>

BitKey ==
  \/ ConfigureFrom("bitstream", "bitopen")
  \/ LoadAt("bitstream") /\ LookedUp /\ ~get.found /\ AskFor("rawbitstream", 0) /\ OnlyLoad

\* Without either the configuration fails, and the service core goes on.
RawKey ==
  \/ ConfigureFrom("rawbitstream", "rawopen")
  \/ /\ LoadAt("rawbitstream") /\ LookedUp /\ ~get.found
     /\ Load("off") /\ ui' = [ui EXCEPT !.at = "loop"] /\ Quiet /\ UNCHANGED fpgaVars

\* What the loaders return is ignored.
Step(at, good, then, Start) ==
  /\ LoadAt(at) /\ Finished /\ OnlyLoad
  /\ IF good THEN then /\ Start /\ UNCHANGED iniVars ELSE AskFor("spimaster", 0)

BitOpened == Step("bitopen", call.res = "OK", Load("magic"), StartRead(1))
RawOpened == Step("rawopen", call.res = "OK", Load("feed"), StartRead(SectorSize))

\* readBitFileHeader: the header proper, named fields to be skipped, the data.
Got(kind) == call.got # <<>> /\ Kind(call.got[1]) = kind

Magic ==
  Step("magic", Got("magic"), load' = [load EXCEPT !.at = "field", !.pos = 1, !.index = 1],
       StartRead(1))

Field ==
  LET pos == load.pos + 1 + Number[call.got[1].text]
  IN Step("field", Got("length"), load' = [load EXCEPT !.at = "skip", !.pos = pos], StartSeek(pos))

Skip ==
  Step("skip", call.res = "OK",
       load' = [load EXCEPT !.at = IF load.index < Fields THEN "field" ELSE "data",
                            !.index = @ + 1],
       StartRead(1))

Data ==
  LET pos == load.pos + 1
  IN Step("data", Got("data"), load' = [load EXCEPT !.at = "sought", !.pos = pos], StartSeek(pos))

Sought == Step("sought", call.res = "OK", Load("feed"), StartRead(SectorSize))

FeedFpga ==
  /\ LoadAt("feed") /\ Finished
  /\ fpga' = Feed(Filled)
  /\ IF LastRead THEN AskFor("spimaster", 0)
     ELSE load' = [load EXCEPT !.buffer = Filled] /\ StartRead(SectorSize) /\ UNCHANGED iniVars
  /\ UNCHANGED <<ui, ram, mux>>

\* Without the key the string still holds the value of the last key seen.
SpiMaster ==
  /\ LoadAt("spimaster") /\ LookedUp
  /\ mux' = IF scan.value # <<>> /\ Kind(scan.value[1]) = "fpga" THEN "fpga" ELSE "mcu"
  /\ Load("off") /\ ui' = [ui EXCEPT !.at = "loop"]
  /\ Quiet /\ UNCHANGED <<fpga, ram>>

LoadStep ==
  \/ Config \/ RomKey \/ RamOpened \/ RamRead \/ ClearKey
  \/ BitKey \/ RawKey \/ BitOpened \/ RawOpened
  \/ Magic \/ Field \/ Skip \/ Data \/ Sought \/ FeedFpga
  \/ SpiMaster

-----------------------------------------------------------------------------
UiStep ==
  \/ AutoStart \/ AutoSection \/ AutoKey
  \/ Poll \/ LookForCard \/ ReadConfigurationFile \/ ListSection \/ CheckRemoved \/ NoKey

Program ==
  \/ FatStep /\ UNCHANGED <<iniVars, menuVars>>
  \/ IniStep /\ UNCHANGED menuVars
  \/ UiStep \/ LoadStep

User == Tab \/ Down \/ Up \/ Enter

NotCard == UNCHANGED <<fatVars, iniVars, menuVars>>

\* A bound: cards are put in while the list is up, not while one is loaded.
\* Nor does one get in in the moment between the last command of
\* disk_initialize and its end.
Listing == ui.at \in {"menu", "tab", "delay", "list", "check", "keys"}

Hand ==
  /\ NotCard
  /\ \/ Pulled
     \/ Listing /\ ~InCall("conclude") /\ \E c \in Card : PutIn(c)

Next == Program \/ User \/ Hand \/ (Tick /\ NotCard)

\* The main loop and the interrupt run; nobody has to press a key.
Fairness == WF_vars(Program) /\ WF_vars(Tick /\ NotCard)

Spec == Init /\ [][Next]_vars /\ Fairness
=============================================================================
