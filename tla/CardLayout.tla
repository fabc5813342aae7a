----------------------------- MODULE CardLayout -----------------------------
(***************************************************************************)
(* What is on a card that was formatted and written as FAT has it: where   *)
(* the boot sector, the links of the clusters, the entries of the root     *)
(* directory and the content of the files are.  FatFile only follows what  *)
(* it reads; that this leads to the files is a property of the card.       *)
(***************************************************************************)
EXTENDS CardMenu

CONSTANTS
  Files,      \* Files[c]: the content of the files of card c, by name
  Volume,     \* Volume[c]: the geometry of its volume
  Chain       \* Chain[c]: the clusters of its files and of its root directory

Root == "/"

SequenceOf(s) == s \in Seq({s[i] : i \in DOMAIN s})

\* Where a partition may begin.
BootSectors(c) ==
  LET first == Disk[c][0][1]
  IN {0} \cup IF first.kind = "volume" THEN {}
              ELSE {first.partitions[i] : i \in DOMAIN first.partitions}

Clusters(c) == 2 .. Volume[c].n_fatent - 1
SectorOf(c, k) == (k - 2) * Volume[c].csize + Volume[c].database
FatSector(c, k) == Volume[c].fatbase + (k \div SectorSize)

\* The sector of item p + 1 of file f.
Place(c, f, p) ==
  SectorOf(c, Chain[c][f][p \div (Volume[c].csize * SectorSize) + 1])
    + ((p \div SectorSize) % Volume[c].csize)

Formatted(c) ==
  /\ Volume[c].fatbase \in Nat \ {0} /\ Volume[c].database \in Nat \ {0}
  /\ Volume[c].csize \in Nat \ {0} /\ Volume[c].n_fatent \in Nat
  /\ Volume[c].dirbase \in {Chain[c][Root][j] : j \in DOMAIN Chain[c][Root]}
  /\ \A n \in DOMAIN Disk[c] : SequenceOf(Disk[c][n]) /\ Disk[c][n] # <<>>
  /\ 0 \in DOMAIN Disk[c] /\ Disk[c][0][1].kind \in {"volume", "partitions"}
  /\ Disk[c][0][1].kind = "partitions" => Disk[c][0][1].partitions \in Seq(Nat)
  /\ \A n \in BootSectors(c) \cap DOMAIN Disk[c] :
       Disk[c][n][1].kind = "volume" => Disk[c][n][1].vol = Volume[c]

\* Each cluster is linked to the next one of its file, the last to none.
Linked(c, f) ==
  LET chain == Chain[c][f]
  IN /\ chain \in Seq(Clusters(c))
     /\ \A i, j \in DOMAIN chain : chain[i] = chain[j] => i = j
     /\ \A j \in DOMAIN chain :
          /\ FatSector(c, chain[j]) \in DOMAIN Disk[c]
          /\ LET fat  == Disk[c][FatSector(c, chain[j])]
                 next == fat[(chain[j] % SectorSize) + 1]
             IN /\ Len(fat) = SectorSize
                /\ IF j < Len(chain) THEN next = chain[j + 1] ELSE next \notin Clusters(c)

Written(c, f) ==
  /\ SequenceOf(Files[c][f])
  /\ \A p \in 0 .. Len(Files[c][f]) - 1 :
       /\ p \div (Volume[c].csize * SectorSize) + 1 \in DOMAIN Chain[c][f]
       /\ Place(c, f, p) \in DOMAIN Disk[c]
       /\ Len(Disk[c][Place(c, f, p)]) = SectorSize
       /\ Disk[c][Place(c, f, p)][(p % SectorSize) + 1] = Files[c][f][p + 1]

\* The entries of the root directory are those of the files.
Entered(c, entry) ==
  entry.name # "" =>
    /\ entry.name \in DOMAIN Files[c]
    /\ entry.size = Len(Files[c][entry.name])
    /\ entry.size > 0 => entry.clust = Chain[c][entry.name][1]

ASSUME VolumeAssumption ==
  \A c \in Card :
    /\ Formatted(c)
    /\ DOMAIN Chain[c] = DOMAIN Files[c] \cup {Root}
    /\ \A f \in DOMAIN Chain[c] : Linked(c, f)
    /\ \A f \in DOMAIN Files[c] : Written(c, f)
    /\ \A j \in DOMAIN Chain[c][Root], s \in 0 .. Volume[c].csize - 1 :
         LET n == SectorOf(c, Chain[c][Root][j]) + s
         IN n \in DOMAIN Disk[c] =>
              \A i \in DOMAIN Disk[c][n] : Entered(c, Disk[c][n][i])

\* The numbers in the headers of bit files are numbers.
ASSUME NumberAssumption ==
  \A c \in Card : \A f \in DOMAIN Files[c] : \A i \in DOMAIN Files[c][f] :
    Kind(Files[c][f][i]) = "length" => Number[Files[c][f][i].text] \in Nat
=============================================================================
