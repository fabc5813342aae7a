------------------------------ MODULE FatFile ------------------------------
(***************************************************************************)
(* FatFs (fat/ff.c) as firmware v2 uses it: one file at a time is opened   *)
(* for reading in the root directory, read, skipped in, and closed.        *)
(*                                                                         *)
(* A call is a sequence of steps, one per sector that may have to come     *)
(* from the card, so that the card can be pulled between any two of them.  *)
(* Every caller mounts the volume anew before it opens a file: fs_type is  *)
(* 0, and f_open always goes through disk_initialize.                      *)
(***************************************************************************)
EXTENDS SdCard

CONSTANT SectorSize   \* SS(fs), in items: bytes, directory entries, FAT entries

ASSUME SectorAssumption == SectorSize \in Nat \ {0}

VARIABLES
  fs,     \* the volume: its geometry and its sector window
  fil,    \* the file object
  call    \* the call in progress, and what the last one returned

fatVars == <<fs, fil, call>>

NoSector == 0   \* the boot sector is never looked for in the window

NoVolume == [fatbase |-> 0, database |-> 0, dirbase |-> 0, csize |-> 1, n_fatent |-> 0]

\* fil.card and fil.name are history: where the file comes from.
NoFile == [card |-> NoCard, name |-> "", err |-> FALSE, sclust |-> 0, fsize |-> 0,
           fptr |-> 0, clust |-> 0, dsect |-> NoSector, buf |-> <<>>]

Idle == [at |-> "none", res |-> "OK", got |-> <<>>, btr |-> 0, name |-> "",
         todo |-> <<>>, clust |-> 0, idx |-> 0, linked |-> FALSE]

FatInit ==
  /\ fs = [vol |-> NoVolume, winsect |-> NoSector, win |-> <<>>]
  /\ fil = NoFile /\ call = Idle

InCall(at) == call.at = at
Finished == InCall("none")
Return(res) == call' = [Idle EXCEPT !.res = res, !.got = call.got]
Goto(at) == call' = [call EXCEPT !.at = at]

\* A call that fails before there is a file.
NotOpened == Return("ERR") /\ UNCHANGED fil

\* ABORT: no later call gets past fp->err.
Abort == Return("ERR") /\ fil' = [fil EXCEPT !.err = TRUE]

-----------------------------------------------------------------------------
(* Sectors.                                                                *)

\* clust2sect: 0 for a cluster that is none.
Sect(c) == IF c \in 2 .. fs.vol.n_fatent - 1
           THEN (c - 2) * fs.vol.csize + fs.vol.database ELSE 0

InWindow(n) == fs.winsect = n

\* move_window.
MoveWindow(n, Then(_), Failed) ==
  \/ InWindow(n) /\ Then(fs.win) /\ UNCHANGED <<fs, sdVars>>
  \/ /\ ~InWindow(n)
     /\ DiskRead(n,
          LAMBDA items : Then(items) /\ fs' = [fs EXCEPT !.winsect = n, !.win = items],
          Failed /\ fs' = [fs EXCEPT !.winsect = NoSector])

\* The link of cluster c in its sector; Junk is 0x0FFFFFFF, past every cluster.
Link(items, c) ==
  LET next == items[(c % SectorSize) + 1] IN IF next = Junk THEN fs.vol.n_fatent ELSE next

\* get_fat.
GetFat(c, Then(_), Failed) ==
  MoveWindow(fs.vol.fatbase + c \div SectorSize, LAMBDA items : Then(Link(items, c)), Failed)

-----------------------------------------------------------------------------
(* f_mount and f_open.                                                     *)

StartOpen(name) ==
  /\ call' = [Idle EXCEPT !.at = "identify", !.name = name]
  /\ fil' = NoFile /\ UNCHANGED <<fs, sdVars>>

DiskInitialize ==
  /\ InCall("identify")
  /\ Identify(Goto("conclude") /\ fil' = [fil EXCEPT !.card = card], NotOpened)
  /\ UNCHANGED fs

Initialized ==
  /\ InCall("conclude") /\ Conclude
  /\ call' = [call EXCEPT !.at = "boot", !.todo = <<0>>]
  /\ UNCHANGED <<fs, fil>>

\* check_fs has found no volume in this sector: is there another partition?
TryNext(sectors) ==
  /\ IF sectors = <<>> THEN Return("ERR") ELSE call' = [call EXCEPT !.todo = sectors]
  /\ UNCHANGED fs

\* find_volume: a boot sector, or the master boot record before it.
CheckFs ==
  /\ InCall("boot") /\ UNCHANGED fil
  /\ DiskRead(Head(call.todo),
       LAMBDA items :
         IF items[1] = Junk THEN TryNext(Tail(call.todo))
         ELSE IF items[1].kind = "volume"
         THEN /\ fs' = [vol |-> items[1].vol, winsect |-> Head(call.todo), win |-> items]
              /\ Goto("fsinfo")
         ELSE TryNext(IF call.todo = <<0>> THEN items[1].partitions ELSE Tail(call.todo)),
       TryNext(Tail(call.todo)))

\* What the FSInfo sector says is not needed for reading.
FsInfo ==
  /\ InCall("fsinfo") /\ UNCHANGED fil
  /\ LET Search == call' = [call EXCEPT !.at = "dir", !.clust = fs.vol.dirbase]
     IN MoveWindow(Head(call.todo) + 1, LAMBDA items : Search, Search)

\* dir_find in one sector of the directory: an entry without a name ends it.
DirFind ==
  /\ InCall("dir")
  /\ MoveWindow(Sect(call.clust) + call.idx,
       LAMBDA items :
         LET stops == {i \in DOMAIN items : items[i] # Junk /\ items[i].name \in {call.name, ""}}
         IN \/ /\ stops = {} /\ UNCHANGED fil
               /\ IF call.idx + 1 < fs.vol.csize THEN call' = [call EXCEPT !.idx = @ + 1]
                  ELSE Goto("dirnext")
            \/ \E i \in stops :
                 /\ \A j \in stops : i <= j
                 /\ IF items[i].name = "" THEN NotOpened
                    ELSE /\ fil' = [NoFile EXCEPT !.card = fil.card, !.name = call.name,
                                                  !.sclust = items[i].clust,
                                                  !.fsize = items[i].size]
                         /\ Return("OK"),
       NotOpened)

DirNext ==
  /\ InCall("dirnext") /\ UNCHANGED fil
  /\ GetFat(call.clust,
       LAMBDA next : IF Sect(next) = 0 THEN Return("ERR")
                     ELSE call' = [call EXCEPT !.at = "dir", !.clust = next, !.idx = 0],
       Return("ERR"))

-----------------------------------------------------------------------------
(* f_read.                                                                 *)

Smaller(a, b) == IF a <= b THEN a ELSE b

\* validate, and the error of an earlier call.
Invalid == "NOINIT" \in Stat \/ fil.err

Bcs == fs.vol.csize * SectorSize   \* items in a cluster

Offset == fil.fptr % SectorSize
Buffered(n) == SubSeq(fil.buf, Offset + 1, Offset + n)

\* A read that the file's buffer can serve is one step.
StartRead(n) ==
  /\ LET btr    == Smaller(n, fil.fsize - fil.fptr)
         served == Offset # 0 /\ Offset + btr <= SectorSize
     IN IF Invalid THEN call' = [Idle EXCEPT !.res = "ERR"] /\ UNCHANGED fil
        ELSE IF btr = 0 THEN call' = Idle /\ UNCHANGED fil
        ELSE IF served THEN /\ call' = [Idle EXCEPT !.got = Buffered(btr)]
                            /\ fil' = [fil EXCEPT !.fptr = @ + btr]
        ELSE call' = [Idle EXCEPT !.at = "read", !.btr = btr] /\ UNCHANGED fil
  /\ UNCHANGED <<fs, sdVars>>

\* Mutant: the first cluster's end is missed.
Unlinked_First == fil.fptr > Bcs /\ fil.fptr % Bcs = 0 /\ ~call.linked

\* The next cluster has to be looked up.
Unlinked == fil.fptr > 0 /\ fil.fptr % Bcs = 0 /\ ~call.linked

Cluster == IF fil.fptr = 0 THEN fil.sclust ELSE fil.clust

ReadLink ==
  /\ InCall("read") /\ Unlinked
  /\ GetFat(fil.clust,
       LAMBDA next : /\ call' = [call EXCEPT !.linked = TRUE]
                     /\ fil' = [fil EXCEPT !.clust = next],
       Abort)

Delivered(items, dsect, buf) ==
  /\ fil' = [fil EXCEPT !.clust = Cluster, !.fptr = @ + Len(items), !.dsect = dsect, !.buf = buf]
  /\ LET rest == call.btr - Len(items)
     IN call' = [call EXCEPT !.at = IF rest = 0 THEN "none" ELSE "read", !.btr = rest,
                             !.got = @ \o items, !.linked = FALSE]

\* At the start of a sector: a whole one goes to the caller, a part of one
\* comes from the file's buffer.
ReadSector ==
  /\ InCall("read") /\ ~Unlinked /\ Offset = 0
  /\ LET sect == Sect(Cluster) + ((fil.fptr \div SectorSize) % fs.vol.csize)
     IN IF Sect(Cluster) = 0 THEN Abort /\ UNCHANGED sdVars
        ELSE IF call.btr >= SectorSize
        THEN DiskRead(sect, LAMBDA items : Delivered(items, fil.dsect, fil.buf), Abort)
        ELSE IF fil.dsect = sect
        THEN Delivered(SubSeq(fil.buf, 1, call.btr), sect, fil.buf) /\ UNCHANGED sdVars
        ELSE DiskRead(sect, LAMBDA items : Delivered(SubSeq(items, 1, call.btr), sect, items), Abort)
  /\ UNCHANGED fs

\* The rest of a sector, before the next one.
ReadBuffer ==
  /\ InCall("read") /\ Offset # 0
  /\ Delivered(Buffered(Smaller(SectorSize - Offset, call.btr)), fil.dsect, fil.buf)
  /\ UNCHANGED <<fs, sdVars>>

-----------------------------------------------------------------------------
(* f_lseek.  Until it ends call.idx is the position it has reached and     *)
(* call.btr what is left: nobody sees fptr in between.                     *)

\* Whether the chain can be followed from the current cluster on.
Onward(ofs) == fil.fptr > 0 /\ (ofs - 1) \div Bcs >= (fil.fptr - 1) \div Bcs

StartSeek(offset) ==
  /\ LET ofs  == Smaller(offset, fil.fsize)
         base == IF Onward(ofs) THEN Bcs * ((fil.fptr - 1) \div Bcs) ELSE 0
     IN IF Invalid THEN call' = [Idle EXCEPT !.res = "ERR"] /\ UNCHANGED fil
        ELSE IF ofs = 0 THEN call' = Idle /\ fil' = [fil EXCEPT !.fptr = 0]
        ELSE /\ call' = [Idle EXCEPT !.at = "seek", !.idx = base, !.btr = ofs - base]
             /\ fil' = [fil EXCEPT !.clust = IF Onward(ofs) THEN @ ELSE fil.sclust]
  /\ UNCHANGED <<fs, sdVars>>

SeekLink ==
  /\ InCall("seek") /\ call.btr > Bcs
  /\ GetFat(fil.clust,
       LAMBDA next :
         IF Sect(next) = 0 THEN Abort
         ELSE /\ fil' = [fil EXCEPT !.clust = next]
              /\ call' = [call EXCEPT !.idx = @ + Bcs, !.btr = @ - Bcs],
       Abort)

SeekEnd ==
  /\ InCall("seek") /\ call.btr <= Bcs
  /\ LET fptr  == call.idx + call.btr
         nsect == Sect(fil.clust) + call.btr \div SectorSize
     IN IF call.btr % SectorSize # 0 /\ nsect # fil.dsect
        THEN DiskRead(nsect,
               LAMBDA items :
                 /\ fil' = [fil EXCEPT !.fptr = fptr, !.dsect = nsect, !.buf = items]
                 /\ Return("OK"),
               Abort)
        ELSE fil' = [fil EXCEPT !.fptr = fptr] /\ Return("OK") /\ UNCHANGED sdVars
  /\ UNCHANGED fs

FatStep ==
  \/ DiskInitialize \/ Initialized \/ CheckFs \/ FsInfo \/ DirFind \/ DirNext
  \/ ReadLink \/ ReadSector \/ ReadBuffer
  \/ SeekLink \/ SeekEnd
=============================================================================
