----------------------------- MODULE CardSystem -----------------------------
(***************************************************************************)
(* What the firmware promises to whoever puts a card in: the properties of *)
(* CardMenu, and that FatFile implements FileStream.                       *)
(***************************************************************************)
EXTENDS CardLayout

CONSTANT
  Sections    \* Sections[c]: its configurations in order, with their keys

\* A status without NOINIT (mmc.c) never vouches for a card that was put in
\* after the last disk_initialize.
StatHonest == "NOINIT" \notin Stat => awake \/ card = NoCard

-----------------------------------------------------------------------------
(* Files.                                                                  *)

\* The file that is open.
Text == IF fil.name = "" THEN <<>> ELSE Files[fil.card][fil.name]

\* The card it comes from has gone, whatever is in the socket now.
Lost == fil.card = NoCard \/ card # fil.card \/ ~awake

Stream == INSTANCE FileStream WITH
  Block <- SectorSize, content <- Text, pos <- fil.fptr, out <- call.got, lost <- Lost

\* f_open, f_read and f_lseek (ff.c) deliver a file of one card in order,
\* whatever its clusters and the caller's portions, and stop within a sector
\* when the card is pulled.
StreamSpec == Stream!Spec

-----------------------------------------------------------------------------
(* Look-ups.                                                               *)

SectionOf(c, name) == CHOOSE s \in {Sections[c][i] : i \in DOMAIN Sections[c]} : s.name = name
Named(c, name) == \E i \in DOMAIN Sections[c] : Sections[c][i].name = name
Values(c, name, key) ==
  IF Named(c, name)
  THEN LET all == SelectSeq(SectionOf(c, name).keys, LAMBDA k : k.key = key)
       IN [i \in DOMAIN all |-> all[i].value]
  ELSE <<>>

\* iniGetKey's nested passes (iniparser.c) find the value asked for if there
\* is one, and nothing else, as long as the card stays in its socket.
LookUpRight ==
  LookedUp /\ pulls = 0 /\ card # NoCard =>
    LET values == Values(card, get.section, get.key)
    IN IF get.index < Len(values) THEN get.found /\ scan.value = values[get.index + 1]
       ELSE ~get.found

\* The list on the screen (ui.c) is that of the card it was read from, and
\* whole if the card has not been pulled since the reading began; Enter
\* chooses one of its names.
ListTrue ==
  ui.screen = "list" /\ ui.listed # NoCard /\ ui.since = pulls =>
    /\ ui.count = Smaller(Len(Sections[ui.listed]), CONFIG_MAX)
    /\ \A i \in 1 .. ui.count : ui.names[i] = Sections[ui.listed][i].name
    /\ ui.item <= (IF ui.count = 0 THEN 0 ELSE ui.count - 1)

\* Once the card is out the list goes (tabHandlerConfigurations), unless a
\* choice made in time goes through, the user leaves the tab, or another card
\* is in.
ListCleared ==
  card = NoCard /\ ui.tab = 0 ~>
    ~ui.readed \/ card # NoCard \/ ui.tab # 0 \/ ui.at = "loop"

-----------------------------------------------------------------------------
(* Loading.                                                                *)

Payload(items) ==
  LET marks == {i \in DOMAIN items : Kind(items[i]) = "data"}
  IN IF marks = {} THEN items
     ELSE SubSeq(items, (CHOOSE i \in marks : TRUE) + 1, Len(items))

Loads(key) == Values(load.card, ui.selected, key)
Bitstream == Head(Loads("bitstream") \o Loads("rawbitstream"))
RomData(rom) == Files[load.card][rom[1].text]
Within(a, addr, length) == a >= addr /\ a < addr + length

Cleared(a) ==
  \E i \in DOMAIN Loads("ramclear") :
    LET clear == Loads("ramclear")[i]
    IN Within(a, Number[clear[1].text], Number[clear[2].text])

\* A core of the card that runs (uiConfig) is the one that was chosen, and
\* finds the ROMs and the cleared RAM its section asks for: neither the tail
\* of a short read nor a card pulled on the way has left anything else.
CoreReady ==
  fpga.core = "card" =>
    /\ fpga.fed = Payload(Files[load.card][FileName(Bitstream)])
    /\ \A a \in Address : Cleared(a) => ram.cell[a] = Blank
    /\ \A i \in DOMAIN Loads("rom") :
         LET rom == Loads("rom")[i]
             addr == Number[rom[2].text]
         IN \A a \in Address :
              Within(a, addr, Len(RomData(rom))) /\ ~Cleared(a) =>
                ram.cell[a] = RomData(rom)[a - addr + 1]

\* uiConfig returns, whatever happens to the card meanwhile.
ConfigEnds == ui.at = "config" ~> ui.at = "loop"
=============================================================================
