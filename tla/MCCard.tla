------------------------------- MODULE MCCard -------------------------------
(***************************************************************************)
(* Two cards.  "full" has a master boot record, a fragmented config.ini    *)
(* with two sections, two ROMs of which the first is not a whole number of *)
(* sectors and ends where the second begins, and a bit file.  "small" has  *)
(* no partitions, a directory of one cluster, and one section.             *)
(***************************************************************************)
EXTENDS CardSystem, SequencesExt

\* "\o <<>>" and "@@ <<>>" have TLC evaluate a table as a whole; and it keeps
\* the value of a definition, but not of what a constant is replaced with,
\* so that MCDisk and the like are the names of tables.
Table(f) == f @@ <<>>

Piece(kind, text) == [kind |-> kind, text |-> text]
Bytes(texts) == [i \in DOMAIN texts |-> Piece("byte", texts[i])] \o <<>>
File(name) == Piece("file", name)
Num(text) == Piece("num", text)
Nl == Piece("nl", "")

Key(key, value) == [key |-> key, value |-> value]

Configurations == [
  full |-> <<
    [name |-> "empty", keys |-> <<>>],
    [name |-> "game",
     keys |-> <<Key("rom", <<File("a.rom"), Num("0")>>),
                Key("ramclear", <<Num("4"), Num("2")>>),
                Key("rom", <<File("b.rom"), Num("3")>>),
                Key("bitstream", <<File("game.bit")>>)>>]>>,
  small |-> <<
    [name |-> "demo",
     keys |-> <<Key("autostart", <<Piece("true", "")>>),
                Key("rawbitstream", <<File("raw.bin")>>),
                Key("spimaster", <<Piece("fpga", "")>>)>>]>>]

TextOf(k) == <<Piece("key", k.key)>> \o k.value \o <<Nl>>

IniOf(sections) ==
  FlattenSeq([i \in DOMAIN sections |->
    <<Piece("[", sections[i].name), Piece("]", ""), Nl>>
      \o FlattenSeq([j \in DOMAIN sections[i].keys |-> TextOf(sections[i].keys[j])])])

Game == Bytes(<<"g1", "g2", "g3">>)
Raw  == Bytes(<<"r1", "r2", "r3">>)

Content == [
  full |-> Table([f \in {"readme", "config.ini", "a.rom", "b.rom", "game.bit"} |->
    CASE f = "readme"     -> <<>>
      [] f = "config.ini" -> IniOf(Configurations.full)
      [] f = "a.rom"      -> Bytes(<<"a1", "a2", "a3">>)
      [] f = "b.rom"      -> Bytes(<<"b1", "b2">>)
      [] f = "game.bit"   -> <<Piece("magic", ""), Piece("length", "1"), Piece("byte", "n"),
                               Piece("length", "2"), Piece("byte", "n"), Piece("byte", "n"),
                               Piece("data", "")>> \o Game]),
  small |-> Table([f \in {"config.ini", "raw.bin"} |->
    IF f = "raw.bin" THEN Raw ELSE IniOf(Configurations.small)])]

Numbers == Table([n \in {"0", "1", "2", "3", "4"} |->
  CASE n = "0" -> 0 [] n = "1" -> 1 [] n = "2" -> 2 [] n = "3" -> 3 [] n = "4" -> 4])

-----------------------------------------------------------------------------
(* The cards' sectors.                                                     *)

Start == [full |-> 1, small |-> 0]

Geometry == [
  full  |-> [fatbase |-> 3, database |-> 11, dirbase |-> 2, csize |-> 2, n_fatent |-> 15],
  small |-> [fatbase |-> 2, database |-> 6, dirbase |-> 2, csize |-> 2, n_fatent |-> 7]]

Chains == [
  full |-> Table([f \in DOMAIN Content.full \cup {Root} |->
    CASE f = Root         -> <<2, 9>>
      [] f = "readme"     -> <<>>
      [] f = "config.ini" -> <<3, 5, 7, 4, 8, 6>>
      [] f = "a.rom"      -> <<10>>
      [] f = "b.rom"      -> <<11>>
      [] f = "game.bit"   -> <<12, 14, 13>>]),
  small |-> Table([f \in DOMAIN Content.small \cup {Root} |->
    CASE f = Root         -> <<2>>
      [] f = "config.ini" -> <<4, 3, 5>>
      [] f = "raw.bin"    -> <<6>>])]

EndOfChain == 99

Entry(c, f) ==
  [name |-> f, size |-> Len(Content[c][f]),
   clust |-> IF Content[c][f] = <<>> THEN 0 ELSE Chains[c][f][1]]
Listed == [full |-> <<"readme", "b.rom", "a.rom", "game.bit", "config.ini">>,
           small |-> <<"config.ini", "raw.bin">>]

Padded(c, f) ==
  IF f = Root
  THEN [i \in 1 .. 4 * Len(Chains[c][f]) |->
          IF i <= Len(Listed[c]) THEN Entry(c, Listed[c][i])
          ELSE [name |-> "", clust |-> 0, size |-> 0]]
  ELSE [i \in 1 .. 4 * Len(Chains[c][f]) |->
          IF i <= Len(Content[c][f]) THEN Content[c][f][i] ELSE Piece("pad", "")]

Holder(c, k) == CHOOSE p \in {<<f, j>> : f \in DOMAIN Chains[c], j \in 1 .. 6} :
                 p[2] \in DOMAIN Chains[c][p[1]] /\ Chains[c][p[1]][p[2]] = k

NextCluster(c, k) ==
  IF k \notin 2 .. Geometry[c].n_fatent - 1 THEN EndOfChain
  ELSE LET p == Holder(c, k) IN
       IF p[2] < Len(Chains[c][p[1]]) THEN Chains[c][p[1]][p[2] + 1] ELSE EndOfChain

Sector(c, n) ==
  LET v == Geometry[c]
      p == Holder(c, 2 + (n - v.database) \div 2)
      from == 4 * (p[2] - 1) + 2 * ((n - v.database) % 2)
  IN CASE n < Start[c]  -> <<[kind |-> "partitions", partitions |-> <<Start[c]>>]>>
       [] n = Start[c]  -> <<[kind |-> "volume", vol |-> v]>>
       [] n > Start[c] /\ n < v.fatbase -> <<Piece("fsinfo", "")>>
       [] n >= v.fatbase /\ n < v.database ->
            [i \in 1 .. 2 |-> NextCluster(c, 2 * (n - v.fatbase) + i - 1)] \o <<>>
       [] OTHER -> SubSeq(Padded(c, p[1]), from + 1, from + 2)

Disks == Table([c \in {"full", "small"} |->
  Table([n \in 0 .. Geometry[c].database + 2 * (Geometry[c].n_fatent - 2) - 1 |-> Sector(c, n)])])

MCDisk == Disks
MCVolume == Geometry
MCChain == Chains

Cards == {"full", "small"}
MCCards == Cards

MCSections == Configurations
MCFiles == Content
MCNumber == Numbers

Bitstreams == {Game, Raw}
MCCores == Bitstreams
MCAddress == 0 .. 7
=============================================================================
