----------------------------- MODULE CardProofs -----------------------------
(***************************************************************************)
(* The driver's status is honest: StatHonest for every card, every file    *)
(* system on it and any number of cards pulled out.  And FatFile implements*)
(* FileStream: what is read of a file is the card's file, or Junk.         *)
(*                                                                         *)
(* The status is written by two threads of control, the interrupt that     *)
(* watches the socket and disk_initialize.  The latter clears NOINIT       *)
(* without looking at the card again, so that the invariant must also say  *)
(* what holds while it is about to.                                        *)
(*                                                                         *)
(* For the stream (CardInv, further down) the buffer and the current       *)
(* cluster of the file have to be those of the items before its pointer;   *)
(* f_lseek keeps that because the header of a bit file is only ever skipped*)
(* forward, and nobody else reads a file meanwhile.                        *)
(***************************************************************************)
EXTENDS CardSystem, TLAPS

Vouched == awake \/ card = NoCard

HonestInv ==
  /\ "at" \in DOMAIN call
  /\ InCall("conclude") => Vouched
  /\ "NOINIT" \notin Stat => Vouched

\* A step that leaves the driver alone, and does not get into the end of
\* disk_initialize.
Asks ==
  /\ "at" \in DOMAIN call'
  /\ call'.at # "conclude" \/ UNCHANGED call
  /\ UNCHANGED sdVars

-----------------------------------------------------------------------------
(* What starts a call leaves the driver alone.                             *)

\* f_open.
LEMMA OpenAsks == ASSUME NEW name, StartOpen(name) PROVE Asks
BY DEF StartOpen, Asks, Idle, sdVars

\* f_read.
LEMMA ReadAsks == ASSUME NEW n, StartRead(n) PROVE Asks
<1> DEFINE btr == Smaller(n, fil.fsize - fil.fptr)
<1>1. \/ call' = [Idle EXCEPT !.res = "ERR"]
      \/ call' = Idle
      \/ call' = [Idle EXCEPT !.got = Buffered(btr)]
      \/ call' = [Idle EXCEPT !.at = "read", !.btr = btr]
  BY Zenon DEF StartRead
<1>2. UNCHANGED sdVars
  BY DEF StartRead, sdVars
<1> HIDE DEF btr
<1>3. CASE call' = [Idle EXCEPT !.res = "ERR"]
  BY <1>2, <1>3 DEF Asks, Idle
<1>4. CASE call' = Idle
  BY <1>2, <1>4 DEF Asks, Idle
<1>5. CASE call' = [Idle EXCEPT !.got = Buffered(btr)]
  BY <1>2, <1>5 DEF Asks, Idle
<1>6. CASE call' = [Idle EXCEPT !.at = "read", !.btr = btr]
  BY <1>2, <1>6 DEF Asks, Idle
<1> QED
  BY <1>1, <1>3, <1>4, <1>5, <1>6

\* f_lseek.
LEMMA SeekAsks == ASSUME NEW n, StartSeek(n) PROVE Asks
<1> DEFINE ofs  == Smaller(n, fil.fsize)
           base == IF Onward(ofs) THEN Bcs * ((fil.fptr - 1) \div Bcs) ELSE 0
<1>1. \/ call' = [Idle EXCEPT !.res = "ERR"]
      \/ call' = Idle
      \/ call' = [Idle EXCEPT !.at = "seek", !.idx = base, !.btr = ofs - base]
  BY Zenon DEF StartSeek
<1>2. UNCHANGED sdVars
  BY DEF StartSeek, sdVars
<1> HIDE DEF ofs, base
<1>3. CASE call' = [Idle EXCEPT !.res = "ERR"]
  BY <1>2, <1>3 DEF Asks, Idle
<1>4. CASE call' = Idle
  BY <1>2, <1>4 DEF Asks, Idle
<1>5. CASE call' = [Idle EXCEPT !.at = "seek", !.idx = base, !.btr = ofs - base]
  BY <1>2, <1>5 DEF Asks, Idle
<1> QED
  BY <1>1, <1>3, <1>4, <1>5

\* No call.
LEMMA NothingAsks ==
  ASSUME "at" \in DOMAIN call, UNCHANGED <<sdVars, call>> PROVE Asks
BY DEF Asks, sdVars

-----------------------------------------------------------------------------
(* One step at a time.                                                     *)

\* iniparser.c reads the file, and nothing else.
LEMMA ScanAsks ==
  ASSUME NEW what, NEW section, NEW index, StartScan(what, section, index) PROVE Asks
BY OpenAsks DEF StartScan

LEMMA KeyAsks ==
  ASSUME NEW section, NEW key, NEW index, GetKey(section, key, index) PROVE Asks
BY ScanAsks DEF GetKey, BrowseSections

LEMMA IniAsks == ASSUME "at" \in DOMAIN call, IniStep PROVE Asks
<1>1. ASSUME NEW sc, EndScan(sc) PROVE Asks
  BY <1>1, NothingAsks DEF EndScan, fatVars
<1>2. CASE Opened
  BY <1>1, <1>2, ReadAsks DEF Opened
<1>3. CASE Gets
  BY <1>1, <1>3, ReadAsks DEF Gets
<1>4. ASSUME NextSection PROVE Asks
  BY <1>4, ScanAsks DEF NextSection, BrowseSections
<1>5. CASE GetSection
  BY <1>4, <1>5, ScanAsks, NothingAsks DEF GetSection, BrowseKeys, fatVars
<1>6. CASE GetValue
  BY <1>4, <1>6, ScanAsks, NothingAsks DEF GetValue, BrowseKeys, fatVars
<1> QED
  BY <1>2, <1>3, <1>5, <1>6 DEF IniStep

\* ui.c but for uiConfig.
LEMMA UiAsks == ASSUME "at" \in DOMAIN call, UiStep PROVE Asks
<1>1. ASSUME Quiet PROVE Asks
  BY <1>1, NothingAsks DEF Quiet, fatVars
<1>2. ASSUME NEW index, BrowseSections(index) PROVE Asks
  BY <1>2, ScanAsks DEF BrowseSections
<1>3. CASE AutoStart \/ ReadConfigurationFile
  BY <1>2, <1>3 DEF AutoStart, ReadConfigurationFile
<1>4. CASE AutoSection
  BY <1>1, <1>4, KeyAsks DEF AutoSection
<1>5. CASE AutoKey
  BY <1>1, <1>2, <1>5 DEF AutoKey
<1>6. CASE ListSection
  BY <1>1, <1>2, <1>6 DEF ListSection
<1>7. CASE Poll \/ LookForCard \/ CheckRemoved \/ NoKey
  BY <1>1, <1>7 DEF Poll, LookForCard, CheckRemoved, NoKey, OnlyUi
<1> QED
  BY <1>3, <1>4, <1>5, <1>6, <1>7 DEF UiStep

\* uiConfig, fpga.c and bitstream.c.
LEMMA LoadAsks == ASSUME "at" \in DOMAIN call, LoadStep PROVE Asks
<1>1. ASSUME Quiet PROVE Asks
  BY <1>1, NothingAsks DEF Quiet, fatVars
<1>2. ASSUME NEW key, NEW index, AskFor(key, index) PROVE Asks
  BY <1>2, KeyAsks DEF AskFor
<1>3. CASE Config
  BY <1>3, KeyAsks DEF Config
<1>4. CASE RomKey
  BY <1>2, <1>4, OpenAsks DEF RomKey
<1>5. CASE RamOpened
  BY <1>2, <1>5, ReadAsks DEF RamOpened
<1>6. CASE RamRead
  BY <1>2, <1>6, ReadAsks DEF RamRead
<1>7. CASE ClearKey
  BY <1>2, <1>7, KeyAsks DEF ClearKey
<1>8. CASE BitKey
  BY <1>2, <1>8, OpenAsks DEF BitKey, ConfigureFrom
<1>9. CASE RawKey
  BY <1>1, <1>9, OpenAsks DEF RawKey, ConfigureFrom
<1>10. CASE BitOpened \/ RawOpened
  BY <1>2, <1>10, ReadAsks DEF BitOpened, RawOpened, Step
<1>11. CASE Magic \/ Skip \/ Sought
  BY <1>2, <1>11, ReadAsks DEF Magic, Skip, Sought, Step
<1>12. CASE Field \/ Data
  BY <1>2, <1>12, SeekAsks DEF Field, Data, Step
<1>13. CASE FeedFpga
  BY <1>2, <1>13, ReadAsks DEF FeedFpga
<1>14. CASE SpiMaster
  BY <1>1, <1>14 DEF SpiMaster
<1> QED
  BY <1>3, <1>4, <1>5, <1>6, <1>7, <1>8, <1>9, <1>10, <1>11, <1>12, <1>13, <1>14 DEF LoadStep

-----------------------------------------------------------------------------
(* The driver's own steps.                                                 *)

\* A step of a call that is past disk_initialize: a read that may be torn.
Serves ==
  /\ "at" \in DOMAIN call'
  /\ call'.at # "conclude"
  /\ UNCHANGED sdVars \/ Pulled

LEMMA FatServes ==
  ASSUME "at" \in DOMAIN call, FatStep
  PROVE  DiskInitialize \/ Initialized \/ Serves
<1>1. CASE CheckFs
  BY <1>1 DEF CheckFs, DiskRead, TryNext, Return, Goto, Idle, InCall, Serves
<1>2. CASE FsInfo
  BY <1>2 DEF FsInfo, MoveWindow, DiskRead, InCall, Serves
<1>3. CASE DirFind
  BY <1>3 DEF DirFind, MoveWindow, DiskRead, NotOpened, Return, Goto, Idle, InCall, Serves
<1>4. CASE DirNext
  BY <1>4 DEF DirNext, GetFat, MoveWindow, DiskRead, Return, Idle, InCall, Serves
<1>5. CASE ReadLink
  BY <1>5 DEF ReadLink, GetFat, MoveWindow, DiskRead, Abort, Return, Idle, InCall, Serves
<1>6. CASE ReadSector
  BY <1>6 DEF ReadSector, DiskRead, Delivered, Abort, Return, Idle, InCall, Serves
<1>7. CASE ReadBuffer
  BY <1>7 DEF ReadBuffer, Delivered, sdVars, InCall, Serves
<1>8. CASE SeekLink
  BY <1>8 DEF SeekLink, GetFat, MoveWindow, DiskRead, Abort, Return, Idle, InCall, Serves
<1>9. CASE SeekEnd
  BY <1>9 DEF SeekEnd, DiskRead, Abort, Return, Idle, InCall, Serves
<1> QED
  BY <1>1, <1>2, <1>3, <1>4, <1>5, <1>6, <1>7, <1>8, <1>9 DEF FatStep

-----------------------------------------------------------------------------
(* The invariant.                                                          *)

LEMMA AsksKeeps == ASSUME HonestInv, Asks PROVE HonestInv'
BY DEF HonestInv, Asks, Vouched, InCall, sdVars

LEMMA ServesKeeps == ASSUME HonestInv, Serves PROVE HonestInv'
BY DEF HonestInv, Serves, Vouched, InCall, sdVars, Pulled

\* disk_initialize: what its last command has found may be gone at its end,
\* and is then not there.
LEMMA InitializeKeeps ==
  ASSUME HonestInv, DiskInitialize \/ Initialized PROVE HonestInv'
<1>1. CASE DiskInitialize
  BY <1>1 DEF DiskInitialize, Identify, NotOpened, Return, Goto, Idle, InCall, HonestInv,
              Vouched, sdVars
<1>2. CASE Initialized
  BY <1>2 DEF Initialized, Conclude, InCall, HonestInv, Vouched
<1> QED
  BY <1>1, <1>2

\* The hand: a card gets in only when the interrupt has seen the socket empty.
LEMMA HandKeeps == ASSUME HonestInv, Hand PROVE HonestInv'
<1>1. UNCHANGED call
  BY DEF Hand, NotCard, fatVars
<1>2. CASE Pulled
  BY <1>1, <1>2 DEF Pulled, HonestInv, Vouched, InCall
<1>3. ASSUME NEW c \in Card, PutIn(c), ~InCall("conclude") PROVE HonestInv'
  BY <1>1, <1>3 DEF PutIn, Seen, SeenBy, HonestInv, Vouched, InCall
<1> QED
  BY <1>2, <1>3 DEF Hand

\* The interrupt.
LEMMA TickKeeps == ASSUME HonestInv, Tick, NotCard PROVE HonestInv'
BY DEF Tick, SeenBy, NotCard, fatVars, HonestInv, Vouched, InCall

\* A key.
LEMMA UserAsks == ASSUME "at" \in DOMAIN call, User PROVE Asks
BY NothingAsks DEF User, Tab, Down, Up, Enter, OnlyUi, Quiet, fatVars

LEMMA StepKeeps == ASSUME HonestInv, [Next]_vars PROVE HonestInv'
<1>1. "at" \in DOMAIN call
  BY DEF HonestInv
<1>2. CASE FatStep
  BY <1>1, <1>2, FatServes, InitializeKeeps, ServesKeeps
<1>3. CASE IniStep \/ UiStep \/ LoadStep \/ User
  BY <1>1, <1>3, IniAsks, UiAsks, LoadAsks, UserAsks, AsksKeeps
<1>4. CASE Hand \/ (Tick /\ NotCard)
  BY <1>4, HandKeeps, TickKeeps
<1>5. CASE UNCHANGED vars
  BY <1>5 DEF vars, sdVars, fatVars, HonestInv, Vouched, InCall
<1> QED
  BY <1>2, <1>3, <1>4, <1>5 DEF Next, Program

\* At every moment: a card about to be declared initialised has been woken or
\* is gone, and so has every card that is.
THEOREM DriverInvariant == Spec => []HonestInv
<1>1. ASSUME Init PROVE HonestInv
  <2>1. "NOINIT" \in Stat
    BY <1>1 DEF Init, SdInit, SeenBy
  <2>2. "at" \in DOMAIN call /\ ~InCall("conclude")
    BY <1>1 DEF Init, FatInit, Idle, InCall
  <2> QED
    BY <2>1, <2>2 DEF HonestInv
<1> QED
  BY <1>1, StepKeeps, PTL DEF Spec

\* A status without NOINIT (mmc.c) never vouches for a card that was put in
\* after the last disk_initialize.
THEOREM HonestStatus == Spec => []StatHonest
<1>1. HonestInv => StatHonest
  BY DEF HonestInv, StatHonest, Vouched
<1> QED
  BY <1>1, DriverInvariant, PTL

\* Division with remainder.
LEMMA DivFacts ==
  ASSUME NEW n \in Nat, NEW d \in Nat \ {0}
  PROVE  n \div d \in Nat /\ n % d \in 0 .. d - 1 /\ n = d * (n \div d) + (n % d)
OBVIOUS

\* A product grows with its factors.
LEMMA Times ==
  ASSUME NEW d \in Nat \ {0}, NEW q \in Nat, NEW p \in Nat, q < p
  PROVE  d * q + d <= d * p
<1>1. PICK k \in Nat : p = q + 1 + k
  <2>1. p - q - 1 \in Nat /\ p = q + 1 + (p - q - 1)
    OBVIOUS
  <2>. QED BY <2>1
<1>2. d * p = d * q + d + d * k
  BY <1>1
<1>3. d * k >= 0
  OBVIOUS
<1>. QED BY <1>2, <1>3

\* There is only one.
LEMMA DivUnique ==
  ASSUME NEW d \in Nat \ {0}, NEW q \in Nat, NEW r \in 0 .. d - 1
  PROVE  (d * q + r) \div d = q /\ (d * q + r) % d = r
<1> DEFINE n == d * q + r
           p == n \div d
           s == n % d
<1>1. n \in Nat
  OBVIOUS
<1>2. p \in Nat /\ s \in 0 .. d - 1 /\ n = d * p + s
  BY <1>1, DivFacts
<1>3. ASSUME q < p PROVE FALSE
  <2>1. d * q + d <= d * p
    BY <1>2, <1>3, Times
  <2>2. d * q \in Nat /\ d * p \in Nat
    BY <1>2
  <2> HIDE DEF n, p, s
  <2>. QED BY <1>2, <2>1, <2>2 DEF n
<1>4. ASSUME p < q PROVE FALSE
  <2>1. d * p + d <= d * q
    BY <1>2, <1>4, Times
  <2>2. d * q \in Nat /\ d * p \in Nat
    BY <1>2
  <2> HIDE DEF p, s
  <2>. QED BY <1>2, <2>1, <2>2
<1>5. p = q
  BY <1>2, <1>3, <1>4
<1>6. s = r
  BY <1>2, <1>5
<1>. QED BY <1>5, <1>6

\* Sectors of S items, clusters of C sectors: the cluster and the sector in it
\* of an item.
LEMMA ClusterOf ==
  ASSUME NEW S \in Nat \ {0}, NEW C \in Nat \ {0}, NEW p \in Nat
  PROVE  /\ C * S \in Nat \ {0}
         /\ (p \div S) \div C = p \div (C * S)
         /\ p % (C * S) = S * ((p \div S) % C) + (p % S)
<1> DEFINE q == p \div S
           o == p % S
           k == q \div C
           s == q % C
<1>1. q \in Nat /\ o \in 0 .. S - 1 /\ p = S * q + o
  BY DivFacts
<1>2. k \in Nat /\ s \in 0 .. C - 1 /\ q = C * k + s
  BY <1>1, DivFacts
<1> HIDE DEF q, o, k, s
<1>3. C * S \in Nat \ {0} /\ S * s \in Nat /\ C * k \in Nat /\ S * (C * k) \in Nat
  BY <1>2
<1>4. S * s + o < C * S
  <2>1. S * s + S <= S * C
    BY <1>2, Times
  <2>. QED BY <1>1, <1>3, <2>1
<1>5. p = (C * S) * k + (S * s + o)
  <2>1. S * q = S * (C * k) + S * s
    BY <1>2, <1>3
  <2>2. S * (C * k) = (C * S) * k
    BY <1>2
  <2>3. S * q = (C * S) * k + S * s
    BY <2>1, <2>2
  <2>. QED BY <1>1, <1>3, <2>2, <2>3
<1>6. S * s + o \in 0 .. (C * S) - 1
  BY <1>1, <1>3, <1>4
<1>7. p \div (C * S) = k /\ p % (C * S) = S * s + o
  BY <1>2, <1>3, <1>5, <1>6, DivUnique
<1>. QED BY <1>3, <1>7 DEF q, o, k, s

\* Items of the same sector.
LEMMA SameSector ==
  ASSUME NEW S \in Nat \ {0}, NEW p \in Nat, NEW m \in Nat, (p % S) + m < S
  PROVE  (p + m) \div S = p \div S /\ (p + m) % S = (p % S) + m
<1> DEFINE q == p \div S
           o == p % S
<1>1. q \in Nat /\ o \in 0 .. S - 1 /\ p = S * q + o
  BY DivFacts
<1>2. o + m \in 0 .. S - 1
  BY <1>1
<1> HIDE DEF q, o
<1>3. p + m = S * q + (o + m)
  <2>1. S * q \in Nat
    BY <1>1
  <2>. QED BY <1>1, <2>1
<1>4. (p + m) \div S = q /\ (p + m) % S = o + m
  BY <1>1, <1>2, <1>3, DivUnique
<1>. QED BY <1>4 DEF q, o

\* The end of a sector is the start of the next.
LEMMA SectorEnd ==
  ASSUME NEW S \in Nat \ {0}, NEW p \in Nat, NEW m \in Nat, (p % S) + m = S
  PROVE  (p + m) \div S = (p \div S) + 1 /\ (p + m) % S = 0
<1> DEFINE q == p \div S
           o == p % S
<1>1. q \in Nat /\ o \in 0 .. S - 1 /\ p = S * q + o /\ o + m = S
  BY DivFacts
<1> HIDE DEF q, o
<1>3. p + m = S * (q + 1) + 0 /\ q + 1 \in Nat /\ 0 \in 0 .. S - 1
  <2>1. S * q \in Nat /\ S * (q + 1) = S * q + S
    BY <1>1
  <2>. QED BY <1>1, <2>1
<1>4. (S * (q + 1) + 0) \div S = q + 1 /\ (S * (q + 1) + 0) % S = 0
  BY <1>3, DivUnique
<1>5. (p + m) \div S = q + 1 /\ (p + m) % S = 0
  BY <1>3, <1>4
<1>. QED BY <1>5 DEF q, o

\* The item before another.
LEMMA Before ==
  ASSUME NEW S \in Nat \ {0}, NEW p \in Nat \ {0}
  PROVE  (p - 1) \div S = IF p % S = 0 THEN (p \div S) - 1 ELSE p \div S
<1> DEFINE q == p \div S
           o == p % S
<1>1. q \in Nat /\ o \in 0 .. S - 1 /\ p = S * q + o
  BY DivFacts
<1> HIDE DEF q, o
<1>2. CASE o # 0
  <2>1. p - 1 = S * q + (o - 1) /\ o - 1 \in 0 .. S - 1
    <3>1. S * q \in Nat
      BY <1>1
    <3>. QED BY <1>1, <1>2, <3>1
  <2>2. (p - 1) \div S = q
    BY <1>1, <2>1, DivUnique
  <2>. QED BY <1>2, <2>2 DEF q, o
<1>3. CASE o = 0
  <2>1. q # 0
    BY <1>1, <1>3
  <2>2. p - 1 = S * (q - 1) + (S - 1) /\ q - 1 \in Nat /\ S - 1 \in 0 .. S - 1
    <3>1. S * q \in Nat /\ S * (q - 1) = S * q - S
      BY <1>1, <2>1
    <3>. QED BY <1>1, <1>3, <2>1, <3>1
  <2>3. (p - 1) \div S = q - 1
    BY <2>2, DivUnique
  <2>. QED BY <1>3, <2>3 DEF q, o
<1>. QED BY <1>1, <1>2, <1>3 DEF q, o

\* The place p is r items beyond the start of cluster a; d items are a cluster.
Sits(S, C, d, a, r, p) ==
  /\ p \in Nat \ {0} /\ p % S = r % S /\ (p - 1) \div d = a
  /\ r % S # 0 => p \div d = a /\ (p \div S) % C = r \div S

\* What Sits says follows from what the place is.
LEMMA Beyond ==
  ASSUME NEW S \in Nat \ {0}, NEW C \in Nat \ {0}, NEW d \in Nat \ {0}, d = C * S,
         NEW a \in Nat, NEW r \in Nat \ {0}, r <= d, NEW p, p = d * a + r
  PROVE  Sits(S, C, d, a, r, p)
<1>1. d * a \in Nat /\ C * a \in Nat /\ S * (C * a) = d * a
  BY ClusterOf
<1> DEFINE q == r \div S
           o == r % S
<1>2. q \in Nat /\ o \in 0 .. S - 1 /\ r = S * q + o
  BY DivFacts
<1> HIDE DEF q, o
<1>3. p = S * (C * a + q) + o /\ C * a + q \in Nat
  <2>1. S * (C * a + q) = S * (C * a) + S * q /\ S * q \in Nat
    BY <1>1, <1>2
  <2>. QED BY <1>1, <1>2, <2>1
<1>4. p \div S = C * a + q /\ p % S = o
  BY <1>2, <1>3, DivUnique
<1>5. ASSUME r < d
      PROVE  p \div d = a /\ (p \div S) % C = q
  <2>1. r \in 0 .. d - 1
    BY <1>5
  <2>2. p \div d = a
    BY <2>1, DivUnique
  <2>3. q < C
    <3>1. ASSUME C <= q PROVE FALSE
      <4>1. S * C <= S * q
        <5>1. CASE C = q
          BY <5>1, <1>1, <1>2
        <5>2. CASE C < q
          <6>1. S * C + S <= S * q
            BY <5>2, <1>2, Times
          <6>2. S * C \in Nat /\ S * q \in Nat
            BY <1>2
          <6>. QED BY <6>1, <6>2
        <5>. QED BY <1>2, <3>1, <5>1, <5>2
      <4>2. S * C = d /\ S * q \in Nat
        BY <1>2
      <4>. QED BY <1>1, <1>2, <1>5, <4>1, <4>2
    <3>. QED BY <1>2, <3>1
  <2>4. (C * a + q) % C = q
    BY <1>2, <2>3, DivUnique
  <2>. QED BY <1>4, <2>2, <2>4
<1>6. (p - 1) \div d = a
  <2>1. r - 1 \in 0 .. d - 1 /\ p - 1 = d * a + (r - 1)
    BY <1>1
  <2>. QED BY <2>1, DivUnique
<1>7. p \in Nat \ {0}
  BY <1>1
<1>8. ASSUME o # 0 PROVE r < d
  <2>1. ASSUME r = d PROVE FALSE
    <3>1. S * C + 0 = d /\ 0 \in 0 .. S - 1
      BY <1>1
    <3>2. (S * C + 0) % S = 0
      BY <3>1, DivUnique
    <3>. QED BY <1>8, <2>1, <3>1, <3>2 DEF o
  <2>. QED BY <2>1
<1>. QED BY <1>4, <1>5, <1>6, <1>7, <1>8, Zenon DEF q, o, Sits

-----------------------------------------------------------------------------
(* A file that is read is the card's file: FatFile implements FileStream.  *)

\* What was read of sector n while the card was pulled.
Partly(items, c, n) ==
  /\ items = [i \in DOMAIN items |-> items[i]] /\ DOMAIN items = DOMAIN Disk[c][n]
  /\ \A i \in DOMAIN items : items[i] = Disk[c][n][i] \/ items[i] = Junk

\* A sector of the file's card that was read.
Copy(items, n) == items = Disk[fil.card][n] \/ (Lost /\ Partly(items, fil.card, n))

SocketInv ==
  /\ card \in Card \cup {NoCard} /\ awake \in BOOLEAN
  /\ card = NoCard => ~awake
  /\ fil.card \in Card \cup {NoCard}
  /\ awake /\ fil.card # NoCard => card = fil.card

\* The records are whole.
FieldsInv ==
  /\ DOMAIN fil = {"card", "name", "err", "sclust", "fsize", "fptr", "clust", "dsect", "buf"}
  /\ DOMAIN call = {"at", "res", "got", "btr", "name", "todo", "clust", "idx", "linked"}
  /\ DOMAIN fs = {"vol", "winsect", "win"}
  /\ fil.err \in BOOLEAN /\ call.linked \in BOOLEAN

Opening == {"identify", "conclude", "boot", "fsinfo", "dir", "dirnext"}
Mounted == fil.name # "" \/ call.at \in {"fsinfo", "dir", "dirnext"}

FileOpen == fil.name # ""

\* No file is open before f_open has found one.
OpenInv ==
  /\ call.at \in Opening \cup {"read", "seek", "none"}
  /\ call.at \in Opening => fil.name = ""
  /\ call.at \in Opening \ {"identify"} \/ fil.name # "" => fil.card \in Card
  /\ fil.name = "" => fil.fptr = 0 /\ fil.fsize = 0 /\ call.at \notin {"read", "seek"}
  /\ call.at = "boot" => call.todo \in Seq(BootSectors(fil.card)) /\ call.todo # <<>>

\* The volume is the card's, and the window shows what it says it shows.
VolumeInv ==
  Mounted =>
    /\ fs.vol = Volume[fil.card]
    /\ fs.winsect # NoSector =>
         fs.winsect \in DOMAIN Disk[fil.card] /\ Copy(fs.win, fs.winsect)

\* f_open looks for the name in the root directory.
DirectoryInv ==
  /\ call.at \in Opening \ {"dir", "dirnext"} => call.idx = 0
  /\ call.at \in {"dir", "dirnext"} =>
       /\ call.clust \in {Chain[fil.card][Root][j] : j \in DOMAIN Chain[fil.card][Root]}
       /\ call.idx \in 0 .. Volume[fil.card].csize - 1

\* Items in a cluster, and the sector of item p + 1 of the file.
Size == Volume[fil.card].csize * SectorSize
Here(p) == Place(fil.card, fil.name, p)

\* The file that is open.
FileInv ==
  FileOpen =>
    /\ fil.name \in DOMAIN Files[fil.card]
    /\ fil.fsize = Len(Files[fil.card][fil.name])
    /\ fil.fsize > 0 => fil.sclust = Chain[fil.card][fil.name][1]
    /\ fil.fptr \in 0 .. fil.fsize

\* It has been read up to item p: its current cluster is that of this item.
Reached(p) == p > 0 => fil.clust = Chain[fil.card][fil.name][((p - 1) \div Size) + 1]

\* Its current cluster is the next one, or none if the card was pulled.
Ahead(p) ==
  /\ p > 0 /\ p % Size = 0
  /\ \/ fil.clust = Chain[fil.card][fil.name][(p \div Size) + 1]
     \/ fil.clust = Volume[fil.card].n_fatent

ClusterInv ==
  FileOpen /\ ~fil.err =>
    /\ call.at # "seek" /\ ~(call.at = "read" /\ call.linked) => Reached(fil.fptr)
    /\ call.at = "read" /\ call.linked => Ahead(fil.fptr)

\* Its buffer is a sector it has begun; in the middle of a sector, that one.
Behind(p) ==
  /\ fil.dsect # NoSector =>
       Copy(fil.buf, fil.dsect) /\ \E q \in 0 .. p - 1 : fil.dsect = Here(q)
  /\ p % SectorSize # 0 => fil.dsect = Here(p)

BufferInv == FileOpen /\ ~fil.err => Behind(fil.fptr)

\* A read gets no further than the file.
ToRead(p, n) == n \in Nat \ {0} /\ p + n <= fil.fsize
ReadingInv == call.at = "read" => ~fil.err /\ ToRead(fil.fptr, call.btr)

\* f_lseek goes forward along the chain; it is at the start of cluster a.
Seeks(a, n) ==
  /\ n \in Nat \ {0} /\ Size * a + n <= fil.fsize /\ fil.fptr <= Size * a + n
  /\ fil.clust = Chain[fil.card][fil.name][a + 1]

SeekingInv ==
  call.at = "seek" =>
    /\ ~fil.err /\ call.got = <<>>
    /\ \E a \in Nat : call.idx = Size * a /\ Seeks(a, call.btr)

\* What a call returns is of a file, or Junk.
FileItems ==
  UNION {UNION {{Files[c][f][i] : i \in DOMAIN Files[c][f]} : f \in DOMAIN Files[c]} : c \in Card}
GotInv == call.got \in Seq(FileItems \cup {Junk})

FatInv ==
  /\ SocketInv /\ FieldsInv /\ OpenInv /\ VolumeInv /\ DirectoryInv /\ FileInv
  /\ ClusterInv /\ BufferInv /\ ReadingInv /\ SeekingInv /\ GotInv

\* What a step of the stream is to the calls.
StreamStep == Stream!Next \/ UNCHANGED <<Text, fil.fptr, call.got, Lost>>

\* Where the call in progress leaves the file, and that a step leaves it there.
Reach ==
  IF call.at = "read" THEN fil.fptr + call.btr
  ELSE IF call.at = "seek" THEN call.idx + call.btr ELSE fil.fptr

Sooner == call'.at \in {call.at, "none"} /\ Reach' <= Reach

\* readBitFileHeader reads byte by byte and skips only forward.
Header == {"bitopen", "magic", "field", "skip", "data", "sought"}

HeaderInv ==
  /\ load.at = "bitopen" => fil.fptr = 0 /\ call.at \in Opening \cup {"none"}
  /\ load.at = "magic" => call.at \in {"read", "none"} /\ Reach <= 1
  /\ load.at \in {"field", "data"} =>
       load.pos \in Nat /\ call.at \in {"read", "none"} /\ Reach <= load.pos + 1
  /\ load.at \in {"skip", "sought"} =>
       load.pos \in Nat /\ call.at \in {"seek", "none"} /\ Reach <= load.pos

\* Nobody else reads a file meanwhile.
TurnInv ==
  /\ "at" \in DOMAIN scan /\ "at" \in DOMAIN get /\ "at" \in DOMAIN ui
  /\ "at" \in DOMAIN load /\ "pos" \in DOMAIN load
  /\ scan.at \in {"open", "gets"} =>
       ui.at \in {"autosection", "list"} \/ get.at \in {"sections", "keys"}
  /\ get.at \in {"sections", "keys"} => ui.at \in {"autokey", "config"}
  /\ load.at # "off" => ui.at = "config"
  /\ load.at \in Header => get.at = "done"

-----------------------------------------------------------------------------
(* What the layout of a card says, file by file.                           *)

\* The numbers.
LEMMA Geometry ==
  ASSUME NEW c \in Card
  PROVE  /\ SectorSize \in Nat \ {0} /\ Volume[c].csize \in Nat \ {0}
         /\ Volume[c].csize * SectorSize \in Nat \ {0}
         /\ Volume[c].fatbase \in Nat \ {0} /\ Volume[c].database \in Nat \ {0}
         /\ Volume[c].n_fatent \in Nat
<1>1. /\ SectorSize \in Nat \ {0} /\ Volume[c].csize \in Nat \ {0}
      /\ Volume[c].fatbase \in Nat \ {0} /\ Volume[c].database \in Nat \ {0}
      /\ Volume[c].n_fatent \in Nat
  BY VolumeAssumption, SectorAssumption DEF Formatted
<1>2. Volume[c].csize * SectorSize \in Nat \ {0}
  BY <1>1, ClusterOf
<1>. QED BY <1>1, <1>2

\* A chain.
LEMMA ChainFacts ==
  ASSUME NEW c \in Card, NEW f \in DOMAIN Files[c] \cup {Root}
  PROVE  Chain[c][f] \in Seq(Clusters(c)) /\ Linked(c, f)
BY VolumeAssumption DEF Linked

\* A file.
LEMMA FileFacts ==
  ASSUME NEW c \in Card, NEW f \in DOMAIN Files[c]
  PROVE  /\ Files[c][f] \in Seq({Files[c][f][i] : i \in DOMAIN Files[c][f]})
         /\ Len(Files[c][f]) \in Nat /\ DOMAIN Files[c][f] = 1 .. Len(Files[c][f])
<1> DEFINE s == Files[c][f]
<1>1. s \in Seq({s[i] : i \in DOMAIN s})
  <2>1. Written(c, f)
    BY VolumeAssumption
  <2>. QED BY <2>1 DEF Written, SequenceOf
<1>2. Len(s) \in Nat /\ DOMAIN s = 1 .. Len(s)
  <2> HIDE DEF s
  <2>. QED BY <1>1
<1>. QED BY <1>1, <1>2

\* The start of a file.
LEMMA ZeroFacts == 0 % SectorSize = 0 /\ 0 \in 0 .. SectorSize - 1
<1>1. 0 \in 0 .. SectorSize - 1 /\ SectorSize \in Nat \ {0}
  BY SectorAssumption
<1>2. (SectorSize * 0 + 0) % SectorSize = 0
  BY <1>1, DivUnique
<1>3. SectorSize * 0 + 0 = 0
  BY <1>1
<1>. QED BY <1>1, <1>2, <1>3

\* The sector a cluster starts with.
LEMMA SectorOfFacts ==
  ASSUME NEW c \in Card, NEW k \in Clusters(c), NEW s \in 0 .. Volume[c].csize - 1
  PROVE  /\ SectorOf(c, k) \in Nat \ {0} /\ SectorOf(c, k) + s \in Nat \ {0}
         /\ k \in Nat
<1>1. /\ Volume[c].csize \in Nat \ {0} /\ Volume[c].database \in Nat \ {0} /\ k \in Nat /\ k - 2 \in Nat
  BY Geometry DEF Clusters
<1>2. (k - 2) * Volume[c].csize \in Nat
  BY <1>1
<1>3. s \in Nat
  BY <1>1
<1> DEFINE m == (k - 2) * Volume[c].csize
<1>4. SectorOf(c, k) = m + Volume[c].database /\ m \in Nat
  BY <1>2 DEF SectorOf
<1> HIDE DEF m
<1>. QED BY <1>1, <1>3, <1>4

\* Two sectors of clusters are the same only if the clusters are.
LEMMA SectorOfUnique ==
  ASSUME NEW c \in Card, NEW k \in Clusters(c), NEW l \in Clusters(c),
         NEW s \in 0 .. Volume[c].csize - 1, NEW t \in 0 .. Volume[c].csize - 1,
         SectorOf(c, k) + s = SectorOf(c, l) + t
  PROVE  k = l /\ s = t
<1> DEFINE d == Volume[c].csize
<1>1. d \in Nat \ {0} /\ Volume[c].database \in Nat /\ k - 2 \in Nat /\ l - 2 \in Nat /\ k \in Nat /\ l \in Nat
  BY Geometry DEF Clusters
<1>2. /\ (d * (k - 2) + s) \div d = k - 2 /\ (d * (k - 2) + s) % d = s
      /\ (d * (l - 2) + t) \div d = l - 2 /\ (d * (l - 2) + t) % d = t
  BY <1>1, DivUnique
<1>3. d * (k - 2) + s = d * (l - 2) + t
  <2>1. d * (k - 2) = (k - 2) * d /\ d * (l - 2) = (l - 2) * d /\ d * (k - 2) \in Nat /\ d * (l - 2) \in Nat
    BY <1>1
  <2>. QED BY <1>1, <2>1 DEF SectorOf
<1> HIDE DEF d
<1>4. k - 2 = l - 2 /\ s = t
  BY <1>2, <1>3
<1>. QED BY <1>1, <1>4

\* Where an item of a file is.
LEMMA PlaceFacts ==
  ASSUME NEW c \in Card, NEW f \in DOMAIN Files[c], NEW p \in Nat, p < Len(Files[c][f])
  PROVE  /\ Len(Files[c][f]) \in Nat
         /\ (p \div (Volume[c].csize * SectorSize)) + 1 \in DOMAIN Chain[c][f]
         /\ Chain[c][f][(p \div (Volume[c].csize * SectorSize)) + 1] \in Clusters(c)
         /\ (p \div SectorSize) % Volume[c].csize \in 0 .. Volume[c].csize - 1
         /\ Place(c, f, p) \in DOMAIN Disk[c] /\ Place(c, f, p) \in Nat \ {0}
         /\ Disk[c][Place(c, f, p)] \in Seq({Disk[c][Place(c, f, p)][i] : i \in DOMAIN Disk[c][Place(c, f, p)]})
         /\ Len(Disk[c][Place(c, f, p)]) = SectorSize
         /\ Disk[c][Place(c, f, p)][(p % SectorSize) + 1] = Files[c][f][p + 1]
<1>1. Len(Files[c][f]) \in Nat /\ p \in 0 .. Len(Files[c][f]) - 1
  BY VolumeAssumption DEF Written, SequenceOf
<1>2. /\ (p \div (Volume[c].csize * SectorSize)) + 1 \in DOMAIN Chain[c][f]
      /\ Place(c, f, p) \in DOMAIN Disk[c]
      /\ Len(Disk[c][Place(c, f, p)]) = SectorSize
      /\ Disk[c][Place(c, f, p)][(p % SectorSize) + 1] = Files[c][f][p + 1]
  BY <1>1, VolumeAssumption DEF Written
<1>3. Chain[c][f][(p \div (Volume[c].csize * SectorSize)) + 1] \in Clusters(c)
  BY <1>2, ChainFacts
<1>4. (p \div SectorSize) % Volume[c].csize \in 0 .. Volume[c].csize - 1
  BY Geometry, DivFacts
<1>5. Place(c, f, p) \in Nat \ {0}
  BY <1>3, <1>4, SectorOfFacts DEF Place
<1>6. Disk[c][Place(c, f, p)] \in Seq({Disk[c][Place(c, f, p)][i] : i \in DOMAIN Disk[c][Place(c, f, p)]})
  BY <1>2, VolumeAssumption DEF Formatted, SequenceOf
<1>. QED BY <1>1, <1>2, <1>3, <1>4, <1>5, <1>6

\* Items share a sector exactly when they are of the same sector of the file.
LEMMA PlaceShared ==
  ASSUME NEW c \in Card, NEW f \in DOMAIN Files[c], NEW p \in Nat, NEW q \in Nat,
         p \div SectorSize = q \div SectorSize
  PROVE  Place(c, f, p) = Place(c, f, q)
<1>1. p \div (Volume[c].csize * SectorSize) = q \div (Volume[c].csize * SectorSize)
  BY Geometry, ClusterOf
<1>. QED BY <1>1 DEF Place

\* The other way round.
LEMMA PlaceUnique ==
  ASSUME NEW c \in Card, NEW f \in DOMAIN Files[c], NEW p \in Nat, NEW q \in Nat,
         p < Len(Files[c][f]), q < Len(Files[c][f]), Place(c, f, p) = Place(c, f, q)
  PROVE  p \div SectorSize = q \div SectorSize
<1> DEFINE d == Volume[c].csize
           i == p \div (d * SectorSize)
           j == q \div (d * SectorSize)
<1>1. /\ d \in Nat \ {0} /\ i = (p \div SectorSize) \div d /\ j = (q \div SectorSize) \div d
      /\ p \div SectorSize \in Nat /\ q \div SectorSize \in Nat
  BY Geometry, ClusterOf, DivFacts
<1>2. /\ i + 1 \in DOMAIN Chain[c][f] /\ j + 1 \in DOMAIN Chain[c][f]
      /\ Chain[c][f][i + 1] \in Clusters(c) /\ Chain[c][f][j + 1] \in Clusters(c)
      /\ (p \div SectorSize) % d \in 0 .. d - 1 /\ (q \div SectorSize) % d \in 0 .. d - 1
  BY PlaceFacts
<1>3. Chain[c][f][i + 1] = Chain[c][f][j + 1] /\ (p \div SectorSize) % d = (q \div SectorSize) % d
  BY <1>2, SectorOfUnique DEF Place
<1>4. i + 1 = j + 1
  BY <1>2, <1>3, ChainFacts DEF Linked
<1>5. i \in Nat /\ j \in Nat
  BY <1>1, DivFacts
<1> HIDE DEF i, j, d
<1>6. i = j
  BY <1>4, <1>5
<1>7. /\ p \div SectorSize = d * ((p \div SectorSize) \div d) + ((p \div SectorSize) % d)
      /\ q \div SectorSize = d * ((q \div SectorSize) \div d) + ((q \div SectorSize) % d)
  BY <1>1, DivFacts
<1>. QED BY <1>1, <1>3, <1>6, <1>7

-----------------------------------------------------------------------------
(* What comes from the card.                                               *)

\* Sector n is read, whole, or in part while the card is pulled.
Came(items, n) ==
  /\ Answers(n)
  /\ \/ items = Disk[card][n] /\ UNCHANGED sdVars
     \/ Pulled /\ \E k \in 0 .. Len(Disk[card][n]) - 1 : items = Torn(Disk[card][n], k)

\* Sector n is seen through the window, or cannot be.
Shown(items, n) ==
  \/ InWindow(n) /\ items = fs.win /\ UNCHANGED <<fs, sdVars>>
  \/ ~InWindow(n) /\ Came(items, n) /\ fs' = [fs EXCEPT !.winsect = n, !.win = items]

Hidden(n) == ~InWindow(n) /\ UNCHANGED sdVars /\ fs' = [fs EXCEPT !.winsect = NoSector]

\* The card stays or goes, and the file stays the same.
Held == fil'.card = fil.card /\ fil'.name = fil.name

\* What is read is a copy; and a card that has gone has gone.
LEMMA CameFacts ==
  ASSUME SocketInv, fil.card \in Card, NEW n, NEW items, Came(items, n), fil'.card = fil.card
  PROVE  /\ n \in DOMAIN Disk[fil.card] /\ ~Lost /\ SocketInv'
         /\ items = Disk[fil.card][n] \/ (Lost' /\ Partly(items, fil.card, n))
<1>1. /\ awake /\ card \in Card \cup {NoCard} /\ NoCard \notin Card
      /\ card = NoCard => ~awake
      /\ awake /\ fil.card # NoCard => card = fil.card
      /\ n \in DOMAIN Disk[card]
  BY CardAssumption DEF SocketInv, Came, Answers
<1>2. card = fil.card /\ fil.card # NoCard /\ n \in DOMAIN Disk[fil.card] /\ ~Lost
  BY <1>1 DEF Lost
<1>3. CASE items = Disk[card][n] /\ UNCHANGED sdVars
  BY <1>2, <1>3 DEF SocketInv, sdVars
<1>4. ASSUME NEW k \in 0 .. Len(Disk[card][n]) - 1, Pulled, items = Torn(Disk[card][n], k)
      PROVE  SocketInv' /\ Lost' /\ Partly(items, fil.card, n)
  <2>1. card' = NoCard /\ awake' = FALSE
    BY <1>4 DEF Pulled
  <2>2. SocketInv' /\ Lost'
    BY <1>2, <2>1 DEF SocketInv, Lost
  <2>3. Partly(items, fil.card, n)
    BY <1>2, <1>4 DEF Partly, Torn
  <2>. QED BY <2>2, <2>3
<1>. QED BY <1>2, <1>3, <1>4 DEF Came

\* The socket, when the driver is left alone.
LEMMA SocketStill ==
  ASSUME SocketInv, UNCHANGED sdVars, fil'.card = fil.card
  PROVE  SocketInv' /\ (Lost' <=> Lost)
BY DEF SocketInv, Lost, sdVars

\* A copy stays one.
LEMMA CopyStill ==
  ASSUME NEW items, NEW n, Copy(items, n), fil'.card = fil.card, Lost => Lost'
  PROVE  items = Disk[fil.card][n] \/ (Lost' /\ Partly(items, fil.card, n))
BY DEF Copy

\* The window, whatever was looked for.
LEMMA ShownFacts ==
  ASSUME SocketInv, FieldsInv, VolumeInv, Mounted, fil.card \in Card, Held,
         NEW n, NEW items, Shown(items, n), Mounted'
  PROVE  /\ SocketInv' /\ VolumeInv' /\ DOMAIN fs' = DOMAIN fs
         /\ n # NoSector =>
              /\ n \in DOMAIN Disk[fil.card]
              /\ items = Disk[fil.card][n] \/ (Lost' /\ Partly(items, fil.card, n))
         /\ Lost => Lost'
<1>1. CASE InWindow(n) /\ items = fs.win /\ UNCHANGED <<fs, sdVars>>
  <2>1. SocketInv' /\ (Lost' <=> Lost)
    BY <1>1, SocketStill DEF Held
  <2>2. n # NoSector => n \in DOMAIN Disk[fil.card] /\ Copy(items, n)
    BY <1>1 DEF VolumeInv, InWindow
  <2>3. VolumeInv'
    BY <1>1, <2>1 DEF VolumeInv, Held, Copy
  <2>. QED BY <1>1, <2>1, <2>2, <2>3 DEF Copy
<1>2. CASE ~InWindow(n) /\ Came(items, n) /\ fs' = [fs EXCEPT !.winsect = n, !.win = items]
  <2>1. /\ n \in DOMAIN Disk[fil.card] /\ ~Lost /\ SocketInv'
        /\ items = Disk[fil.card][n] \/ (Lost' /\ Partly(items, fil.card, n))
    BY <1>2, CameFacts DEF Held
  <2>2. fs'.vol = fs.vol /\ fs'.winsect = n /\ fs'.win = items /\ DOMAIN fs' = DOMAIN fs
    BY <1>2 DEF FieldsInv
  <2>3. VolumeInv'
    BY <2>1, <2>2 DEF VolumeInv, Held, Copy
  <2>. QED BY <2>1, <2>2, <2>3
<1>. QED BY <1>1, <1>2 DEF Shown

\* A step in which only the socket, or what is read of it, changes.
LEMMA HiddenFacts ==
  ASSUME SocketInv, FieldsInv, VolumeInv, Held, NEW n, Hidden(n), Mounted' => Mounted
  PROVE  SocketInv' /\ VolumeInv' /\ DOMAIN fs' = DOMAIN fs /\ (Lost' <=> Lost)
<1>1. SocketInv' /\ (Lost' <=> Lost)
  BY SocketStill DEF Hidden, Held
<1>2. fs'.vol = fs.vol /\ fs'.winsect = NoSector /\ DOMAIN fs' = DOMAIN fs
  BY DEF Hidden, FieldsInv
<1>3. VolumeInv'
  BY <1>2 DEF VolumeInv, Held
<1>. QED BY <1>1, <1>2, <1>3

-----------------------------------------------------------------------------
(* f_mount and f_open.                                                     *)

\* No file is open, before and after.
LEMMA OpeningStep ==
  ASSUME FatInv, fil.name = "", fil'.name = "", fil'.fptr = 0, fil'.fsize = 0,
         call'.at \notin {"read", "seek"}, call'.got = call.got,
         SocketInv', FieldsInv', OpenInv', VolumeInv', DirectoryInv'
  PROVE  FatInv' /\ StreamStep
<1>1. FileInv' /\ ClusterInv' /\ BufferInv' /\ ReadingInv' /\ SeekingInv'
  BY DEF FileOpen, FileInv, ClusterInv, BufferInv, ReadingInv, SeekingInv
<1>2. GotInv'
  BY DEF FatInv, GotInv
<1>3. Text = <<>> /\ Stream!Open
  BY DEF Text, Stream!Open
<1>. QED BY <1>1, <1>2, <1>3 DEF FatInv, StreamStep, Stream!Next

\* f_mount forgets what there was.
LEMMA OpenStarts ==
  ASSUME FatInv, NEW name, StartOpen(name)
  PROVE  FatInv' /\ StreamStep
<1>1. /\ DOMAIN fil' = {"card", "name", "err", "sclust", "fsize", "fptr", "clust", "dsect", "buf"}
      /\ fil'.card = NoCard /\ fil'.name = "" /\ fil'.err = FALSE /\ fil'.fsize = 0 /\ fil'.fptr = 0
  BY DEF StartOpen, NoFile
<1>2. /\ DOMAIN call' = {"at", "res", "got", "btr", "name", "todo", "clust", "idx", "linked"}
      /\ call'.at = "identify" /\ call'.idx = 0 /\ call'.got = <<>> /\ call'.linked = FALSE
  BY DEF StartOpen, Idle
<1>3. UNCHANGED <<fs, sdVars>>
  BY DEF StartOpen
<1>4. SocketInv' /\ FieldsInv'
  BY <1>1, <1>2, <1>3 DEF FatInv, SocketInv, FieldsInv, sdVars
<1>5. OpenInv' /\ VolumeInv' /\ DirectoryInv'
  BY <1>1, <1>2 DEF OpenInv, VolumeInv, Mounted, DirectoryInv, Opening
<1>6. FileInv' /\ ClusterInv' /\ BufferInv' /\ ReadingInv' /\ SeekingInv'
  BY <1>1, <1>2 DEF FileOpen, FileInv, ClusterInv, BufferInv, ReadingInv, SeekingInv
<1>7. GotInv'
  BY <1>2 DEF GotInv
<1>8. Stream!Close
  BY <1>1, <1>2 DEF Stream!Close, Text, Lost
<1>. QED BY <1>4, <1>5, <1>6, <1>7, <1>8 DEF FatInv, StreamStep, Stream!Next

\* A call that ends without a file.
LEMMA ReturnFacts ==
  ASSUME FieldsInv, NEW res, Return(res)
  PROVE  /\ DOMAIN call' = DOMAIN call /\ call'.at = "none" /\ call'.got = call.got
         /\ call'.linked = FALSE
BY DEF FieldsInv, Return, Idle

\* A step to the next point of a call leaves its other fields alone.
LEMMA GotoFacts ==
  ASSUME FieldsInv, NEW at, Goto(at)
  PROVE  /\ DOMAIN call' = DOMAIN call /\ call'.at = at /\ call'.got = call.got
         /\ call'.linked = call.linked /\ call'.todo = call.todo /\ call'.clust = call.clust
         /\ call'.idx = call.idx
BY DEF FieldsInv, Goto

\* f_open that gives up leaves no file.
LEMMA NotOpenedStep ==
  ASSUME FatInv, fil.name = "", NEW res, Return(res), UNCHANGED fil, SocketInv', DOMAIN fs' = DOMAIN fs
  PROVE  FatInv' /\ StreamStep
<1>1. /\ DOMAIN call' = DOMAIN call /\ call'.at = "none" /\ call'.got = call.got /\ call'.linked = FALSE
  BY ReturnFacts DEF FatInv
<1>2. FieldsInv'
  BY <1>1 DEF FatInv, FieldsInv
<1>3. OpenInv' /\ VolumeInv' /\ DirectoryInv'
  BY <1>1 DEF FatInv, OpenInv, VolumeInv, Mounted, DirectoryInv, Opening
<1>4. fil'.fptr = 0 /\ fil'.fsize = 0
  BY DEF FatInv, OpenInv
<1>. QED BY <1>1, <1>2, <1>3, <1>4, OpeningStep

\* disk_initialize (mmc.c) starts to identify the card.
LEMMA InitializeStep ==
  ASSUME FatInv, DiskInitialize
  PROVE  FatInv' /\ StreamStep
<1>1. /\ call.at = "identify" /\ fil.name = "" /\ fil.fptr = 0 /\ fil.fsize = 0
  BY DEF FatInv, OpenInv, DiskInitialize, InCall, Opening
<1>2. ASSUME "NODISK" \in Stat, NotOpened, UNCHANGED sdVars PROVE FatInv' /\ StreamStep
  <2>1. SocketInv'
    BY <1>2, SocketStill DEF FatInv, NotOpened
  <2>. QED BY <1>1, <1>2, <2>1, NotOpenedStep DEF NotOpened, DiskInitialize
<1>3. ASSUME NotOpened, UNCHANGED <<card, awake, pulls>> PROVE FatInv' /\ StreamStep
  <2>1. SocketInv'
    BY <1>3 DEF FatInv, SocketInv, NotOpened
  <2>. QED BY <1>1, <1>3, <2>1, NotOpenedStep DEF NotOpened, DiskInitialize
<1>4. ASSUME card # NoCard, Goto("conclude"), fil' = [fil EXCEPT !.card = card],
             awake' = TRUE, UNCHANGED <<card, Stat, pulls>>
      PROVE  FatInv' /\ StreamStep
  <2>1. /\ DOMAIN call' = DOMAIN call /\ call'.at = "conclude" /\ call'.got = call.got
        /\ call'.linked = call.linked /\ call'.idx = 0
    BY <1>1, <1>4, GotoFacts DEF FatInv, DirectoryInv, Opening
  <2>2. /\ DOMAIN fil' = DOMAIN fil /\ fil'.card = card /\ fil'.name = "" /\ fil'.fptr = 0
        /\ fil'.fsize = 0 /\ fil'.err = fil.err
    BY <1>1, <1>4 DEF FatInv, FieldsInv
  <2>3. card \in Card
    BY <1>4 DEF FatInv, SocketInv
  <2>4. SocketInv'
    BY <1>4, <2>2, <2>3 DEF SocketInv
  <2>5. FieldsInv'
    BY <1>4, <2>1, <2>2 DEF FatInv, FieldsInv, DiskInitialize
  <2>6. OpenInv' /\ VolumeInv' /\ DirectoryInv'
    BY <2>1, <2>2, <2>3 DEF OpenInv, VolumeInv, Mounted, DirectoryInv, Opening
  <2>. QED BY <1>1, <2>1, <2>2, <2>4, <2>5, <2>6, OpeningStep
<1>. QED BY <1>2, <1>3, <1>4 DEF DiskInitialize, Identify

\* disk_initialize has identified the card, or not.
LEMMA InitializedStep ==
  ASSUME FatInv, Initialized
  PROVE  FatInv' /\ StreamStep
<1>1. /\ call.at = "conclude" /\ fil.name = "" /\ fil.fptr = 0 /\ fil.fsize = 0 /\ fil.card \in Card
  BY DEF FatInv, OpenInv, Initialized, InCall, Opening
<1>2. /\ call'.at = "boot" /\ call'.todo = << 0 >> /\ call'.got = call.got /\ DOMAIN call' = DOMAIN call
      /\ call'.linked = call.linked /\ call'.idx = 0
  BY <1>1 DEF FatInv, FieldsInv, DirectoryInv, Opening, Initialized
<1>3. SocketInv' /\ FieldsInv'
  BY <1>2 DEF FatInv, SocketInv, FieldsInv, Initialized, Conclude
<1>4. << 0 >> \in Seq(BootSectors(fil.card)) /\ << 0 >> # <<>>
  BY DEF BootSectors
<1>5. OpenInv' /\ VolumeInv' /\ DirectoryInv'
  BY <1>1, <1>2, <1>4 DEF OpenInv, VolumeInv, Mounted, DirectoryInv, Opening, Initialized
<1>. QED BY <1>1, <1>2, <1>3, <1>5, OpeningStep DEF Initialized

\* A sequence that is not empty.
LEMMA HeadAndTail ==
  ASSUME NEW S, NEW s \in Seq(S), s # <<>>
  PROVE  Head(s) \in S /\ Tail(s) \in Seq(S)
OBVIOUS

\* The next sector that may hold a volume.
LEMMA TryNextStep ==
  ASSUME FatInv, call.at = "boot", NEW sectors, TryNext(sectors), UNCHANGED fil, SocketInv',
         sectors \in Seq(BootSectors(fil.card))
  PROVE  FatInv' /\ StreamStep
<1>1. fil.name = "" /\ fil.fptr = 0 /\ fil.fsize = 0 /\ fil.card \in Card
  BY DEF FatInv, OpenInv, Opening
<1>2. CASE sectors = <<>>
  BY <1>1, <1>2, NotOpenedStep DEF TryNext
<1>3. CASE sectors # <<>>
  <2>1. /\ DOMAIN call' = DOMAIN call /\ call'.at = "boot" /\ call'.todo = sectors
        /\ call'.got = call.got /\ call'.linked = call.linked /\ call'.idx = 0
    BY <1>3 DEF TryNext, FatInv, FieldsInv, DirectoryInv, Opening
  <2>2. FieldsInv'
    BY <2>1 DEF FatInv, FieldsInv, TryNext
  <2>3. OpenInv' /\ VolumeInv' /\ DirectoryInv'
    BY <1>1, <1>3, <2>1 DEF OpenInv, VolumeInv, Mounted, DirectoryInv, Opening
  <2>. QED BY <1>1, <2>1, <2>2, <2>3, OpeningStep
<1>. QED BY <1>2, <1>3

\* What the first sector of a volume says.
LEMMA BootFacts ==
  ASSUME NEW c \in Card, NEW n \in BootSectors(c), n \in DOMAIN Disk[c]
  PROVE  /\ 1 \in DOMAIN Disk[c][n]
         /\ Disk[c][n][1].kind = "volume" => Disk[c][n][1].vol = Volume[c]
         /\ n = 0 /\ Disk[c][n][1].kind # "volume" => Disk[c][n][1].partitions \in Seq(BootSectors(c))
<1>1. Formatted(c)
  BY VolumeAssumption
<1>2. 1 \in DOMAIN Disk[c][n]
  <2>1. SequenceOf(Disk[c][n]) /\ Disk[c][n] # <<>>
    BY <1>1 DEF Formatted
  <2>. QED BY <2>1 DEF SequenceOf
<1>3. Disk[c][n][1].kind = "volume" => Disk[c][n][1].vol = Volume[c]
  BY <1>1 DEF Formatted
<1>4. ASSUME n = 0, Disk[c][n][1].kind # "volume"
      PROVE  Disk[c][n][1].partitions \in Seq(BootSectors(c))
  <2> DEFINE s == Disk[c][0][1].partitions
  <2>1. s \in Seq(Nat)
    BY <1>1, <1>4 DEF Formatted
  <2>2. \A i \in DOMAIN s : s[i] \in BootSectors(c)
    BY <1>4 DEF BootSectors
  <2>3. s \in Seq(BootSectors(c))
    <3> HIDE DEF s
    <3>. QED BY <2>1, <2>2
  <2>. QED BY <1>4, <2>3
<1>. QED BY <1>2, <1>3, <1>4

\* check_fs (ff.c) reads a sector that may hold the volume.
LEMMA CheckFsStep ==
  ASSUME FatInv, CheckFs
  PROVE  FatInv' /\ StreamStep
<1> DEFINE n == Head(call.todo)
           rest == Tail(call.todo)
<1>1. /\ call.at = "boot" /\ fil.name = "" /\ fil.fptr = 0 /\ fil.fsize = 0 /\ fil.card \in Card
      /\ UNCHANGED fil
  BY DEF FatInv, OpenInv, CheckFs, InCall, Opening
<1>2. n \in BootSectors(fil.card) /\ rest \in Seq(BootSectors(fil.card))
  <2>1. call.todo \in Seq(BootSectors(fil.card)) /\ call.todo # <<>>
    BY <1>1 DEF FatInv, OpenInv
  <2>. QED BY <2>1, HeadAndTail
<1>3. \/ TryNext(rest) /\ UNCHANGED sdVars
      \/ \E items :
           /\ Came(items, n)
           /\ IF items[1] = Junk THEN TryNext(rest)
              ELSE IF items[1].kind = "volume"
              THEN /\ fs' = [vol |-> items[1].vol, winsect |-> n, win |-> items]
                   /\ Goto("fsinfo")
              ELSE TryNext(IF call.todo = << 0 >> THEN items[1].partitions ELSE rest)
  BY Zenon DEF CheckFs, DiskRead, Came
<1>4. CASE TryNext(rest) /\ UNCHANGED sdVars
  <2>1. SocketInv'
    BY <1>1, <1>4, SocketStill DEF FatInv
  <2>. QED BY <1>1, <1>2, <1>4, <2>1, TryNextStep
<1>5. ASSUME NEW items, Came(items, n),
             IF items[1] = Junk THEN TryNext(rest)
              ELSE IF items[1].kind = "volume"
              THEN /\ fs' = [vol |-> items[1].vol, winsect |-> n, win |-> items]
                   /\ Goto("fsinfo")
              ELSE TryNext(IF call.todo = << 0 >> THEN items[1].partitions ELSE rest)
      PROVE  FatInv' /\ StreamStep
  <2>1. /\ n \in DOMAIN Disk[fil.card] /\ SocketInv'
        /\ items = Disk[fil.card][n] \/ (Lost' /\ Partly(items, fil.card, n))
    BY <1>1, <1>5, CameFacts DEF FatInv
  <2>2. items[1] = Junk \/ items[1] = Disk[fil.card][n][1]
    BY <1>1, <1>2, <2>1, BootFacts DEF Partly
  <2>3. CASE items[1] = Junk
    BY <1>1, <1>2, <1>5, <2>1, <2>3, TryNextStep
  <2>4. CASE items[1] # Junk /\ items[1].kind # "volume" /\ call.todo = << 0 >>
    <3>1. n = 0
      BY <2>4
    <3>2. items[1].partitions \in Seq(BootSectors(fil.card))
      BY <1>1, <1>2, <2>1, <2>2, <2>4, <3>1, BootFacts
    <3>. QED BY <1>1, <1>5, <2>1, <2>4, <3>2, TryNextStep
  <2>5. CASE items[1] # Junk /\ items[1].kind # "volume" /\ call.todo # << 0 >>
    BY <1>1, <1>2, <1>5, <2>1, <2>5, TryNextStep
  <2>6. CASE items[1] # Junk /\ items[1].kind = "volume"
    <3>1. fs' = [vol |-> items[1].vol, winsect |-> n, win |-> items] /\ Goto("fsinfo")
      BY <1>5, <2>6
    <3>2. /\ DOMAIN call' = DOMAIN call /\ call'.at = "fsinfo" /\ call'.got = call.got
          /\ call'.linked = call.linked /\ call'.idx = 0
      BY <1>1, <3>1, GotoFacts DEF FatInv, DirectoryInv, Opening
    <3>3. /\ DOMAIN fs' = {"vol", "winsect", "win"} /\ fs'.vol = Volume[fil.card]
          /\ fs'.winsect = n /\ fs'.win = items
      BY <1>1, <1>2, <2>1, <2>2, <2>6, <3>1, BootFacts
    <3>4. FieldsInv'
      BY <1>1, <3>2, <3>3 DEF FatInv, FieldsInv
    <3>5. VolumeInv'
      BY <1>1, <2>1, <3>3 DEF VolumeInv, Copy
    <3>6. OpenInv' /\ DirectoryInv'
      BY <1>1, <3>2 DEF OpenInv, DirectoryInv, Opening
    <3>. QED BY <1>1, <2>1, <3>2, <3>4, <3>5, <3>6, OpeningStep
  <2>. QED BY <2>3, <2>4, <2>5, <2>6
<1>. QED BY <1>3, <1>4, <1>5

\* chk_mounted reads the sector of the free clusters.
LEMMA FsInfoStep ==
  ASSUME FatInv, FsInfo
  PROVE  FatInv' /\ StreamStep
<1> DEFINE n == Head(call.todo) + 1
<1>1. /\ call.at = "fsinfo" /\ fil.name = "" /\ fil.fptr = 0 /\ fil.fsize = 0 /\ fil.card \in Card
      /\ UNCHANGED fil /\ Mounted /\ Held
  BY DEF FatInv, OpenInv, FsInfo, InCall, Opening, Mounted, Held
<1>2. /\ call' = [call EXCEPT !.at = "dir", !.clust = fs.vol.dirbase]
      /\ Hidden(n) \/ \E items : Shown(items, n)
  BY Zenon DEF FsInfo, MoveWindow, DiskRead, Shown, Hidden, Came
<1>3. /\ DOMAIN call' = DOMAIN call /\ call'.at = "dir" /\ call'.clust = Volume[fil.card].dirbase
      /\ call'.got = call.got /\ call'.linked = call.linked /\ call'.idx = 0
  BY <1>1, <1>2 DEF FatInv, FieldsInv, VolumeInv, DirectoryInv, Opening
<1>4. Mounted'
  BY <1>3 DEF Mounted
<1>5. SocketInv' /\ VolumeInv' /\ DOMAIN fs' = DOMAIN fs
  <2>1. CASE Hidden(n)
    BY <1>1, <2>1, HiddenFacts DEF FatInv
  <2>2. ASSUME NEW items, Shown(items, n) PROVE SocketInv' /\ VolumeInv' /\ DOMAIN fs' = DOMAIN fs
    BY <1>1, <1>4, <2>2, ShownFacts DEF FatInv
  <2>. QED BY <1>2, <2>1, <2>2
<1>6. FieldsInv' /\ OpenInv'
  BY <1>1, <1>3, <1>5 DEF FatInv, FieldsInv, OpenInv, Opening
<1>7. DirectoryInv'
  <2>1. Volume[fil.card].dirbase \in {Chain[fil.card][Root][j] : j \in DOMAIN Chain[fil.card][Root]}
    BY <1>1, VolumeAssumption DEF Formatted
  <2>2. 0 \in 0 .. Volume[fil.card].csize - 1
    <3>1. Volume[fil.card].csize \in Nat \ {0}
      BY <1>1, Geometry
    <3>. QED BY <3>1
  <2>. QED BY <1>1, <1>3, <2>1, <2>2 DEF DirectoryInv, Opening
<1>. QED BY <1>1, <1>3, <1>5, <1>6, <1>7, OpeningStep

\* clust2sect, and get_fat on a link of a chain.
LEMMA SectFacts ==
  ASSUME fs.vol = Volume[fil.card], fil.card \in Card, NEW k
  PROVE  /\ k \in Clusters(fil.card) => Sect(k) = SectorOf(fil.card, k) /\ Sect(k) \in Nat \ {0}
         /\ k \notin Clusters(fil.card) => Sect(k) = 0
<1>1. 0 \in 0 .. Volume[fil.card].csize - 1
  <2>1. Volume[fil.card].csize \in Nat \ {0}
    BY Geometry
  <2>. QED BY <2>1
<1>2. k \in Clusters(fil.card) => Sect(k) = SectorOf(fil.card, k)
  BY DEF Sect, Clusters, SectorOf
<1>3. k \in Clusters(fil.card) => SectorOf(fil.card, k) \in Nat \ {0}
  BY <1>1, SectorOfFacts
<1>. QED BY <1>2, <1>3 DEF Sect, Clusters

\* get_fat gives the next cluster of the chain, or none.
LEMMA LinkFacts ==
  ASSUME NEW c \in Card, fs.vol = Volume[c],
         NEW f \in DOMAIN Files[c] \cup {Root}, NEW j \in DOMAIN Chain[c][f]
  PROVE  /\ fs.vol.fatbase + (Chain[c][f][j] \div SectorSize) = FatSector(c, Chain[c][f][j])
         /\ FatSector(c, Chain[c][f][j]) # NoSector
         /\ \A items :
              items = Disk[c][FatSector(c, Chain[c][f][j])] \/ Partly(items, c, FatSector(c, Chain[c][f][j]))
                => \/ Link(items, Chain[c][f][j]) = Volume[c].n_fatent
                   \/ j < Len(Chain[c][f]) /\ Link(items, Chain[c][f][j]) = Chain[c][f][j + 1]
                   \/ j = Len(Chain[c][f]) /\ Link(items, Chain[c][f][j]) \notin Clusters(c)
<1> DEFINE k == Chain[c][f][j]
           n == FatSector(c, k)
<1>1. /\ Chain[c][f] \in Seq(Clusters(c)) /\ k \in Clusters(c) /\ j \in 1 .. Len(Chain[c][f])
      /\ Len(Chain[c][f]) \in Nat
  BY ChainFacts
<1>2. k \in Nat /\ SectorSize \in Nat \ {0} /\ Volume[c].fatbase \in Nat \ {0}
  BY <1>1, Geometry DEF Clusters
<1>3. k \div SectorSize \in Nat /\ k % SectorSize \in 0 .. SectorSize - 1
  BY <1>2, DivFacts
<1>4. fs.vol.fatbase + (k \div SectorSize) = n /\ n # NoSector
  <2> HIDE DEF k
  <2>. QED BY <1>2, <1>3 DEF FatSector, NoSector
<1>5. /\ n \in DOMAIN Disk[c] /\ Len(Disk[c][n]) = SectorSize
      /\ IF j < Len(Chain[c][f]) THEN Disk[c][n][(k % SectorSize) + 1] = Chain[c][f][j + 1]
         ELSE Disk[c][n][(k % SectorSize) + 1] \notin Clusters(c)
  BY ChainFacts DEF Linked
<1>6. (k % SectorSize) + 1 \in DOMAIN Disk[c][n]
  <2>1. SequenceOf(Disk[c][n])
    BY <1>5, VolumeAssumption DEF Formatted
  <2>2. (k % SectorSize) + 1 \in 1 .. SectorSize
    BY <1>2, <1>3
  <2> DEFINE s == Disk[c][n]
  <2>3. s \in Seq({s[i] : i \in DOMAIN s}) /\ Len(s) = SectorSize
    BY <1>5, <2>1 DEF SequenceOf
  <2>4. DOMAIN s = 1 .. SectorSize
    <3> HIDE DEF s
    <3>. QED BY <2>3
  <2>. QED BY <2>2, <2>4
<1>7. ASSUME NEW items, items = Disk[c][n] \/ Partly(items, c, n)
      PROVE  \/ Link(items, k) = Volume[c].n_fatent
             \/ j < Len(Chain[c][f]) /\ Link(items, k) = Chain[c][f][j + 1]
             \/ j = Len(Chain[c][f]) /\ Link(items, k) \notin Clusters(c)
  <2> DEFINE e == items[(k % SectorSize) + 1]
  <2>1. e = Junk \/ e = Disk[c][n][(k % SectorSize) + 1]
    BY <1>6, <1>7 DEF Partly
  <2>2. Link(items, k) = IF e = Junk THEN Volume[c].n_fatent ELSE e
    BY DEF Link
  <2> HIDE DEF e, k, n
  <2>. QED BY <1>1, <1>5, <2>1, <2>2
<1>. QED BY <1>4, <1>7

\* dir_next goes to the next cluster of the directory.
LEMMA DirNextStep ==
  ASSUME FatInv, DirNext
  PROVE  FatInv' /\ StreamStep
<1> DEFINE c == fil.card
           n == fs.vol.fatbase + (call.clust \div SectorSize)
           root == {Chain[c][Root][j] : j \in DOMAIN Chain[c][Root]}
<1>1. /\ call.at = "dirnext" /\ fil.name = "" /\ fil.fptr = 0 /\ fil.fsize = 0 /\ c \in Card
      /\ UNCHANGED fil /\ Mounted /\ Held /\ fs.vol = Volume[c] /\ call.clust \in root
  BY DEF FatInv, OpenInv, DirNext, InCall, Opening, Mounted, Held, VolumeInv, DirectoryInv
<1>2. \/ Hidden(n) /\ Return("ERR")
      \/ \E items :
           /\ Shown(items, n)
           /\ IF Sect(Link(items, call.clust)) = 0 THEN Return("ERR")
              ELSE call' = [call EXCEPT !.at = "dir", !.clust = Link(items, call.clust), !.idx = 0]
  BY Zenon DEF DirNext, GetFat, MoveWindow, DiskRead, Shown, Hidden, Came
<1>3. CASE Hidden(n) /\ Return("ERR")
  <2>1. call'.at = "none"
    BY <1>3, ReturnFacts DEF FatInv
  <2>2. Mounted' => Mounted
    BY <1>1
  <2>3. SocketInv' /\ DOMAIN fs' = DOMAIN fs
    BY <1>1, <1>3, <2>2, HiddenFacts DEF FatInv
  <2>. QED BY <1>1, <1>3, <2>3, NotOpenedStep
<1>4. ASSUME NEW items, Shown(items, n),
             IF Sect(Link(items, call.clust)) = 0 THEN Return("ERR")
             ELSE call' = [call EXCEPT !.at = "dir", !.clust = Link(items, call.clust), !.idx = 0]
      PROVE  FatInv' /\ StreamStep
  <2>1. CASE Return("ERR")
    <3>1. SocketInv' /\ DOMAIN fs' = DOMAIN fs
      <4>1. CASE InWindow(n)
        BY <1>1, <1>4, <4>1, SocketStill DEF Shown, FatInv
      <4>2. CASE ~InWindow(n)
        <5>1. Came(items, n) /\ fs' = [fs EXCEPT !.winsect = n, !.win = items]
          BY <1>4, <4>2 DEF Shown
        <5>2. SocketInv'
          BY <1>1, <5>1, CameFacts DEF FatInv, Held
        <5>. QED BY <5>1, <5>2 DEF FatInv, FieldsInv
      <4>. QED BY <4>1, <4>2
    <3>. QED BY <1>1, <2>1, <3>1, NotOpenedStep
  <2>2. CASE /\ Sect(Link(items, call.clust)) # 0
             /\ call' = [call EXCEPT !.at = "dir", !.clust = Link(items, call.clust), !.idx = 0]
    <3>1. /\ DOMAIN call' = DOMAIN call /\ call'.at = "dir" /\ call'.clust = Link(items, call.clust)
          /\ call'.idx = 0 /\ call'.got = call.got /\ call'.linked = call.linked
      BY <2>2 DEF FatInv, FieldsInv
    <3>2. Mounted'
      BY <3>1 DEF Mounted
    <3>3. /\ SocketInv' /\ VolumeInv' /\ DOMAIN fs' = DOMAIN fs
          /\ n # NoSector => items = Disk[c][n] \/ Partly(items, c, n)
      BY <1>1, <1>4, <3>2, ShownFacts DEF FatInv
    <3>4. PICK j \in DOMAIN Chain[c][Root] : call.clust = Chain[c][Root][j]
      BY <1>1
    <3>5. /\ n = FatSector(c, call.clust) /\ n # NoSector
          /\ \/ Link(items, call.clust) = Volume[c].n_fatent
             \/ j < Len(Chain[c][Root]) /\ Link(items, call.clust) = Chain[c][Root][j + 1]
             \/ j = Len(Chain[c][Root]) /\ Link(items, call.clust) \notin Clusters(c)
      <4>1. Root \in DOMAIN Files[c] \cup {Root} /\ fs.vol = Volume[c] /\ c \in Card
        BY <1>1
      <4>2. /\ n = FatSector(c, Chain[c][Root][j])
            /\ FatSector(c, Chain[c][Root][j]) # NoSector
        <5>1. /\ fs.vol.fatbase + (Chain[c][Root][j] \div SectorSize) = FatSector(c, Chain[c][Root][j])
              /\ FatSector(c, Chain[c][Root][j]) # NoSector
          BY <4>1, LinkFacts
        <5>. QED BY <3>4, <5>1
      <4>3. items = Disk[c][FatSector(c, Chain[c][Root][j])] \/ Partly(items, c, FatSector(c, Chain[c][Root][j]))
        BY <3>3, <4>2
      <4>4. \/ Link(items, Chain[c][Root][j]) = Volume[c].n_fatent
            \/ j < Len(Chain[c][Root]) /\ Link(items, Chain[c][Root][j]) = Chain[c][Root][j + 1]
            \/ j = Len(Chain[c][Root]) /\ Link(items, Chain[c][Root][j]) \notin Clusters(c)
        BY <4>1, <4>3, LinkFacts
      <4>. QED BY <3>4, <4>2, <4>4
    <3>6. Link(items, call.clust) \in Clusters(c)
      BY <1>1, <2>2, SectFacts
    <3>7. Volume[c].n_fatent \notin Clusters(c)
      <4>1. Volume[c].n_fatent \in Nat
        BY <1>1, Geometry
      <4>. QED BY <4>1 DEF Clusters
    <3>8. j < Len(Chain[c][Root]) /\ Link(items, call.clust) = Chain[c][Root][j + 1]
      BY <3>5, <3>6, <3>7
    <3>9. j + 1 \in DOMAIN Chain[c][Root]
      <4>1. Chain[c][Root] \in Seq(Clusters(c))
        BY <1>1, ChainFacts
      <4>. QED BY <3>8, <4>1
    <3>10. 0 \in 0 .. Volume[c].csize - 1
      <4>1. Volume[c].csize \in Nat \ {0}
        BY <1>1, Geometry
      <4>. QED BY <4>1
    <3>11. DirectoryInv'
      BY <1>1, <3>1, <3>8, <3>9, <3>10 DEF DirectoryInv, Opening
    <3>12. FieldsInv' /\ OpenInv'
      BY <1>1, <3>1, <3>3 DEF FatInv, FieldsInv, OpenInv, Opening
    <3>. QED BY <1>1, <3>1, <3>3, <3>11, <3>12, OpeningStep
  <2>. QED BY <1>4, <2>1, <2>2
<1>. QED BY <1>2, <1>3, <1>4

\* What dir_find finds is a file of the card.
LEMMA EntryFacts ==
  ASSUME NEW c \in Card, NEW k \in {Chain[c][Root][j] : j \in DOMAIN Chain[c][Root]},
         NEW s \in 0 .. Volume[c].csize - 1, SectorOf(c, k) + s \in DOMAIN Disk[c]
  PROVE  \A i \in DOMAIN Disk[c][SectorOf(c, k) + s] : Entered(c, Disk[c][SectorOf(c, k) + s][i])
<1>1. PICK j \in DOMAIN Chain[c][Root] : k = Chain[c][Root][j]
  OBVIOUS
<1>2. SectorOf(c, Chain[c][Root][j]) + s \in DOMAIN Disk[c]
  BY <1>1
<1>3. \A m \in DOMAIN Disk[c][SectorOf(c, Chain[c][Root][j]) + s] :
        Entered(c, Disk[c][SectorOf(c, Chain[c][Root][j]) + s][m])
  BY <1>2, VolumeAssumption, Zenon
<1>. QED BY <1>1, <1>3

\* f_open has found the file.
LEMMA FoundStep ==
  ASSUME FatInv, call.at = "dir", SocketInv', VolumeInv',
         FieldsInv', fil'.card = fil.card, FileOpen',
         fil'.name \in DOMAIN Files[fil.card], fil'.fsize = Len(Files[fil.card][fil'.name]),
         fil'.fsize > 0 => fil'.sclust = Chain[fil.card][fil'.name][1],
         fil'.fptr = 0, fil'.dsect = NoSector, Return("OK")
  PROVE  FatInv' /\ StreamStep
<1>1. /\ fil.card \in Card /\ fil.name = ""
  BY DEF FatInv, OpenInv, Opening
<1>2. /\ DOMAIN call' = DOMAIN call /\ call'.at = "none" /\ call'.got = call.got /\ call'.linked = FALSE
  BY ReturnFacts DEF FatInv
<1>3. OpenInv' /\ DirectoryInv'
  BY <1>1, <1>2 DEF FatInv, OpenInv, DirectoryInv, Opening, FileOpen
<1>4. FileInv'
  <2>1. fil'.fsize \in Nat
    BY <1>1, FileFacts
  <2>2. fil'.fptr \in 0 .. fil'.fsize
    BY <2>1
  <2>. QED BY <2>2, Zenon DEF FileInv
<1>5. ClusterInv' /\ ReadingInv' /\ SeekingInv'
  <2>1. ~(fil'.fptr > 0)
    OBVIOUS
  <2>. QED BY <1>2, <2>1, Zenon DEF ClusterInv, Reached, ReadingInv, SeekingInv
<1>6. BufferInv'
  BY ZeroFacts DEF BufferInv, Behind
<1>7. GotInv'
  BY <1>2 DEF FatInv, GotInv
<1>8. Text = <<>> /\ Stream!Open
  BY <1>1, <1>2 DEF Text, Stream!Open
<1>. QED BY <1>3, <1>4, <1>5, <1>6, <1>7, <1>8 DEF FatInv, StreamStep, Stream!Next

\* dir_find searches a sector of the directory.
LEMMA DirFindStep ==
  ASSUME FatInv, DirFind
  PROVE  FatInv' /\ StreamStep
<1> DEFINE c == fil.card
           n == Sect(call.clust) + call.idx
           Stops(items) == {i \in DOMAIN items : items[i] # Junk /\ items[i].name \in {call.name, ""}}
<1>1. /\ call.at = "dir" /\ fil.name = "" /\ fil.fptr = 0 /\ fil.fsize = 0 /\ c \in Card
      /\ Mounted /\ fs.vol = Volume[c]
      /\ call.clust \in {Chain[c][Root][j] : j \in DOMAIN Chain[c][Root]}
      /\ call.idx \in 0 .. Volume[c].csize - 1
  BY DEF FatInv, OpenInv, DirFind, InCall, Opening, Mounted, VolumeInv, DirectoryInv
<1>2. call.clust \in Clusters(c)
  <2>1. Chain[c][Root] \in Seq(Clusters(c))
    BY <1>1, ChainFacts
  <2>2. PICK j \in DOMAIN Chain[c][Root] : call.clust = Chain[c][Root][j]
    BY <1>1
  <2>. QED BY <2>1, <2>2
<1>3. n = SectorOf(c, call.clust) + call.idx /\ n # NoSector
  <2>1. Sect(call.clust) = SectorOf(c, call.clust)
    BY <1>1, <1>2, SectFacts
  <2>2. SectorOf(c, call.clust) + call.idx \in Nat \ {0}
    BY <1>1, <1>2, SectorOfFacts
  <2>. QED BY <2>1, <2>2 DEF NoSector
<1>4. \/ Hidden(n) /\ NotOpened
      \/ \E items :
           /\ Shown(items, n)
           /\ \/ /\ Stops(items) = {} /\ UNCHANGED fil
                 /\ IF call.idx + 1 < fs.vol.csize THEN call' = [call EXCEPT !.idx = @ + 1]
                    ELSE Goto("dirnext")
              \/ \E i \in Stops(items) :
                   IF items[i].name = "" THEN NotOpened
                   ELSE /\ fil' = [NoFile EXCEPT !.card = fil.card, !.name = call.name,
                                                 !.sclust = items[i].clust,
                                                 !.fsize = items[i].size]
                        /\ Return("OK")
  BY Zenon DEF DirFind, MoveWindow, DiskRead, Shown, Hidden, Came
<1>5. CASE Hidden(n) /\ NotOpened
  <2>1. SocketInv' /\ DOMAIN fs' = DOMAIN fs
    BY <1>1, <1>5, HiddenFacts DEF FatInv, NotOpened, Held
  <2>. QED BY <1>1, <1>5, <2>1, NotOpenedStep DEF NotOpened
<1>6. ASSUME NEW items, Shown(items, n), NotOpened PROVE FatInv' /\ StreamStep
  <2>1. SocketInv' /\ DOMAIN fs' = DOMAIN fs
    <3>1. CASE InWindow(n)
      BY <1>6, <3>1, SocketStill DEF Shown, FatInv, NotOpened
    <3>2. CASE ~InWindow(n)
      <4>1. Came(items, n) /\ fs' = [fs EXCEPT !.winsect = n, !.win = items]
        BY <1>6, <3>2 DEF Shown
      <4>2. SocketInv'
        BY <1>1, <1>6, <4>1, CameFacts DEF FatInv, NotOpened
      <4>. QED BY <4>1, <4>2 DEF FatInv, FieldsInv
    <3>. QED BY <3>1, <3>2
  <2>. QED BY <1>1, <1>6, <2>1, NotOpenedStep DEF NotOpened
<1>7. ASSUME NEW items, Shown(items, n), UNCHANGED fil,
             IF call.idx + 1 < fs.vol.csize THEN call' = [call EXCEPT !.idx = @ + 1] ELSE Goto("dirnext")
      PROVE  FatInv' /\ StreamStep
  <2>1. /\ DOMAIN call' = DOMAIN call /\ call'.at \in {"dir", "dirnext"} /\ call'.clust = call.clust
        /\ call'.got = call.got /\ call'.linked = call.linked
        /\ call'.idx = IF call.idx + 1 < fs.vol.csize THEN call.idx + 1 ELSE call.idx
    BY <1>1, <1>7, GotoFacts DEF FatInv, FieldsInv
  <2>2. Mounted'
    BY <2>1 DEF Mounted
  <2>3. SocketInv' /\ VolumeInv' /\ DOMAIN fs' = DOMAIN fs
    BY <1>1, <1>7, <2>2, ShownFacts DEF FatInv, Held
  <2>4. FieldsInv' /\ OpenInv'
    BY <1>1, <1>7, <2>1, <2>3 DEF FatInv, FieldsInv, OpenInv, Opening
  <2>5. call'.idx \in 0 .. Volume[c].csize - 1
    <3>1. Volume[c].csize \in Nat \ {0} /\ fs.vol.csize = Volume[c].csize
      BY <1>1, Geometry
    <3> DEFINE d == Volume[c].csize
    <3>2. /\ d \in Nat \ {0} /\ call.idx \in 0 .. d - 1
          /\ call'.idx = IF call.idx + 1 < d THEN call.idx + 1 ELSE call.idx
      BY <1>1, <2>1, <3>1
    <3> HIDE DEF d
    <3>3. call'.idx \in 0 .. d - 1
      BY <3>2
    <3>. QED BY <3>3 DEF d
  <2>6. DirectoryInv'
    BY <1>1, <1>7, <2>1, <2>5 DEF DirectoryInv, Opening
  <2>. QED BY <1>1, <1>7, <2>1, <2>3, <2>4, <2>6, OpeningStep
<1>8. ASSUME NEW items, Shown(items, n), NEW i, i \in Stops(items), items[i].name # "",
             fil' = [NoFile EXCEPT !.card = fil.card, !.name = call.name,
                                   !.sclust = items[i].clust, !.fsize = items[i].size],
             Return("OK")
      PROVE  FatInv' /\ StreamStep
  <2>1. items[i].name = call.name /\ i \in DOMAIN items /\ items[i] # Junk
    BY <1>8
  <2>2. fil'.card = fil.card /\ fil'.name = call.name
    BY <1>8 DEF NoFile
  <2>3. Mounted'
    BY <1>8, <2>1, <2>2 DEF Mounted
  <2>4. /\ SocketInv' /\ DOMAIN fs' = DOMAIN fs /\ fs'.vol = fs.vol
        /\ (fs'.winsect # NoSector => fs'.winsect \in DOMAIN Disk[fil.card] /\ Copy(fs.win, fs.winsect)')
        /\ n \in DOMAIN Disk[c] /\ (items = Disk[c][n] \/ Partly(items, c, n))
    <3>1. CASE InWindow(n)
      <4>1. items = fs.win /\ UNCHANGED <<fs, sdVars>>
        BY <1>8, <3>1 DEF Shown
      <4>2. SocketInv' /\ (Lost' <=> Lost)
        BY <2>2, <4>1, SocketStill DEF FatInv
      <4>3. n \in DOMAIN Disk[c] /\ Copy(items, n) /\ fs.winsect = n
        BY <1>1, <1>3, <3>1, <4>1 DEF FatInv, VolumeInv, InWindow
      <4>4. Copy(fs.win, fs.winsect)'
        BY <2>2, <4>1, <4>2, <4>3 DEF Copy
      <4>. QED BY <4>1, <4>2, <4>3, <4>4 DEF Copy
    <3>2. CASE ~InWindow(n)
      <4>1. Came(items, n) /\ fs' = [fs EXCEPT !.winsect = n, !.win = items]
        BY <1>8, <3>2 DEF Shown
      <4>2. /\ n \in DOMAIN Disk[c] /\ SocketInv'
            /\ items = Disk[c][n] \/ (Lost' /\ Partly(items, c, n))
        BY <1>1, <2>2, <4>1, CameFacts DEF FatInv
      <4>3. fs'.vol = fs.vol /\ fs'.winsect = n /\ fs'.win = items /\ DOMAIN fs' = DOMAIN fs
        BY <4>1 DEF FatInv, FieldsInv
      <4>. QED BY <2>2, <4>2, <4>3 DEF Copy
    <3>. QED BY <3>1, <3>2
  <2>5. VolumeInv'
    BY <1>1, <2>2, <2>4 DEF VolumeInv
  <2>6. /\ items[i].name \in DOMAIN Files[c]
        /\ items[i].size = Len(Files[c][items[i].name])
        /\ items[i].size > 0 => items[i].clust = Chain[c][items[i].name][1]
    <3>1. SectorOf(c, call.clust) + call.idx \in DOMAIN Disk[c]
      BY <1>3, <2>4
    <3>2. \A m \in DOMAIN Disk[c][SectorOf(c, call.clust) + call.idx] :
            Entered(c, Disk[c][SectorOf(c, call.clust) + call.idx][m])
      BY <1>1, <3>1, EntryFacts
    <3>3. i \in DOMAIN Disk[c][n] /\ items[i] = Disk[c][n][i]
      BY <2>1, <2>4 DEF Partly
    <3>4. Entered(c, items[i])
      BY <1>3, <3>2, <3>3
    <3>. QED BY <1>8, <3>4 DEF Entered
  <2>7. /\ fil'.fptr = 0 /\ fil'.dsect = NoSector
        /\ fil'.fsize = items[i].size /\ fil'.sclust = items[i].clust
    BY <1>8 DEF NoFile
  <2>8. FieldsInv'
    <3>1. /\ DOMAIN fil' = {"card", "name", "err", "sclust", "fsize", "fptr", "clust", "dsect", "buf"}
          /\ fil'.err \in BOOLEAN
      BY <1>8 DEF NoFile
    <3>2. DOMAIN call' = DOMAIN call /\ call'.linked \in BOOLEAN
      BY <1>8, ReturnFacts DEF FatInv
    <3>. QED BY <2>4, <3>1, <3>2 DEF FatInv, FieldsInv
  <2>9. fil'.name = items[i].name /\ FileOpen' /\ fil'.card = c
    BY <1>8, <2>1, <2>2 DEF FileOpen
  <2>10. /\ fil'.name \in DOMAIN Files[c] /\ fil'.fsize = Len(Files[c][fil'.name])
         /\ fil'.fsize > 0 => fil'.sclust = Chain[c][fil'.name][1]
    BY <2>6, <2>7, <2>9
  <2>11. /\ call.at = "dir" /\ Return("OK") /\ SocketInv' /\ fil'.fptr = 0 /\ fil'.dsect = NoSector
         /\ fil'.card = fil.card /\ FileOpen'
    BY <1>1, <1>8, <2>4, <2>7, <2>9
  <2>. QED BY <2>5, <2>8, <2>10, <2>11, FoundStep
<1>. QED BY <1>4, <1>5, <1>6, <1>7, <1>8

-----------------------------------------------------------------------------
(* f_read.                                                                 *)

\* Sequences.
LEMMA LenOfDomain ==
  ASSUME NEW S, NEW s, NEW n \in Nat, s \in [1 .. n -> S]
  PROVE  s \in Seq(S) /\ Len(s) = n
OBVIOUS

\* A sequence is over any set that holds its items.
LEMMA SeqOf ==
  ASSUME NEW S, NEW T, NEW s \in Seq(S), \A i \in 1 .. Len(s) : s[i] \in T
  PROVE  s \in Seq(T)
OBVIOUS

\* n items of a sector, from item p of the file on.
Slice(items, p, n) == SubSeq(items, (p % SectorSize) + 1, (p % SectorSize) + n)

\* A part of what was read of a sector is a part of the file, or Junk.
LEMMA SliceFacts ==
  ASSUME NEW c \in Card, NEW f \in DOMAIN Files[c], NEW p \in Nat, NEW n \in Nat \ {0},
         p + n <= Len(Files[c][f]), (p % SectorSize) + n <= SectorSize,
         NEW items, items = Disk[c][Place(c, f, p)] \/ Partly(items, c, Place(c, f, p))
  PROVE  /\ Slice(items, p, n) \in Seq(FileItems \cup {Junk}) /\ Len(Slice(items, p, n)) = n
         /\ \A i \in 1 .. n :
              Slice(items, p, n)[i] = Files[c][f][p + i] \/ Slice(items, p, n)[i] = Junk
         /\ items = Disk[c][Place(c, f, p)] =>
              \A i \in 1 .. n : Slice(items, p, n)[i] = Files[c][f][p + i]
<1> DEFINE s == Slice(items, p, n)
           o == p % SectorSize
           d == Disk[c][Place(c, f, p)]
<1>1. /\ Len(Files[c][f]) \in Nat /\ DOMAIN Files[c][f] = 1 .. Len(Files[c][f])
      /\ SectorSize \in Nat \ {0} /\ o \in 0 .. SectorSize - 1
  <2>1. SectorSize \in Nat \ {0}
    BY SectorAssumption
  <2>. QED BY <2>1, FileFacts, DivFacts
<1>2. DOMAIN d = 1 .. SectorSize /\ d = [i \in DOMAIN d |-> d[i]]
  <2>1. p < Len(Files[c][f])
    BY <1>1
  <2>2. d \in Seq({d[i] : i \in DOMAIN d}) /\ Len(d) = SectorSize
    BY <2>1, PlaceFacts
  <2> HIDE DEF d
  <2>. QED BY <2>2
<1>3. ASSUME NEW i \in 1 .. n
      PROVE  d[o + i] = Files[c][f][p + i] /\ Files[c][f][p + i] \in FileItems
  <2>1. p + (i - 1) \in Nat /\ p + (i - 1) < Len(Files[c][f]) /\ p + (i - 1) + 1 = p + i
    BY <1>1
  <2>2. i - 1 \in Nat /\ (p % SectorSize) + (i - 1) < SectorSize
    BY <1>1
  <2>3. /\ (p + (i - 1)) \div SectorSize = p \div SectorSize
        /\ (p + (i - 1)) % SectorSize = o + (i - 1)
    BY <1>1, <2>2, SameSector
  <2>4. Place(c, f, p + (i - 1)) = Place(c, f, p)
    BY <2>1, <2>3, PlaceShared
  <2>5. Disk[c][Place(c, f, p + (i - 1))][((p + (i - 1)) % SectorSize) + 1] = Files[c][f][p + (i - 1) + 1]
    <3> DEFINE k == p + (i - 1)
    <3>1. k \in Nat /\ k < Len(Files[c][f])
      BY <2>1
    <3> HIDE DEF k
    <3>2. Disk[c][Place(c, f, k)][(k % SectorSize) + 1] = Files[c][f][k + 1]
      BY <3>1, PlaceFacts
    <3>. QED BY <3>2 DEF k
  <2>6. o + (i - 1) + 1 = o + i
    BY <1>1
  <2>7. p + i \in DOMAIN Files[c][f]
    BY <1>1
  <2>. QED BY <2>1, <2>3, <2>4, <2>5, <2>6, <2>7 DEF FileItems
<1>4. /\ DOMAIN items = 1 .. SectorSize /\ items = [i \in DOMAIN items |-> items[i]]
      /\ \A i \in 1 .. SectorSize : items[i] = d[i] \/ items[i] = Junk
  BY <1>2 DEF Partly
<1>5. \A i \in 1 .. n : o + i \in 1 .. SectorSize
  BY <1>1
<1> DEFINE T == {items[i] : i \in DOMAIN items}
<1>6. items \in Seq(T) /\ Len(items) = SectorSize
  <2>1. items \in [1 .. SectorSize -> T] /\ SectorSize \in Nat
    BY <1>1, <1>4
  <2> HIDE DEF T
  <2>. QED BY <2>1, LenOfDomain
<1>7. o \in Nat /\ n \in Nat /\ o + n <= Len(items)
  BY <1>1, <1>6
<1>8. s = SubSeq(items, o + 1, o + n)
  BY DEF Slice
<1> HIDE DEF o, d, s, T
<1>9. /\ Len(s) = n /\ \A i \in 1 .. n : s[i] = items[o + i]
      /\ s \in Seq(T)
  <2>1. /\ SubSeq(items, o + 1, o + n) \in Seq(T) /\ Len(SubSeq(items, o + 1, o + n)) = n
        /\ \A i \in 1 .. n : SubSeq(items, o + 1, o + n)[i] = items[o + i]
    BY <1>6, <1>7
  <2>. QED BY <1>8, <2>1
<1>10. \A i \in 1 .. n : s[i] = Files[c][f][p + i] \/ s[i] = Junk
  BY <1>3, <1>4, <1>5, <1>9
<1>11. s \in Seq(FileItems \cup {Junk})
  <2>1. \A i \in 1 .. n : s[i] \in FileItems \cup {Junk}
    BY <1>3, <1>10
  <2>. QED BY <1>9, <2>1, SeqOf
<1>12. items = d => \A i \in 1 .. n : s[i] = Files[c][f][p + i]
  BY <1>3, <1>5, <1>9
<1>. QED BY <1>9, <1>10, <1>11, <1>12, Zenon DEF d, s

\* What is appended comes after what was there.
LEMMA ConcatFacts ==
  ASSUME NEW S, NEW h \in Seq(S), NEW s \in Seq(S)
  PROVE  /\ h \o s \in Seq(S) /\ Len(h \o s) = Len(h) + Len(s) /\ Len(h) \in Nat
         /\ SubSeq(h \o s, 1, Len(h)) = h
         /\ \A i \in 1 .. Len(s) : (h \o s)[Len(h) + i] = s[i]
<1>1. /\ h \o s \in Seq(S) /\ Len(h \o s) = Len(h) + Len(s) /\ Len(h) \in Nat /\ Len(s) \in Nat
      /\ \A i \in 1 .. Len(s) : (h \o s)[Len(h) + i] = s[i]
      /\ \A i \in 1 .. Len(h) : (h \o s)[i] = h[i]
  OBVIOUS
<1> DEFINE t == h \o s
<1> HIDE DEF t
<1>2. SubSeq(t, 1, Len(h)) = h
  <2>1. t \in Seq(S) /\ Len(h) <= Len(t) /\ \A i \in 1 .. Len(h) : t[i] = h[i]
    BY <1>1 DEF t
  <2>. QED BY <1>1, <2>1
<1>. QED BY <1>1, <1>2 DEF t

\* The file that is open.
LEMMA OpenFacts ==
  ASSUME FatInv, FileOpen
  PROVE  /\ fil.card \in Card /\ fil.name \in DOMAIN Files[fil.card]
         /\ fil.fsize = Len(Files[fil.card][fil.name]) /\ fil.fsize \in Nat
         /\ fil.fptr \in Nat /\ fil.fptr <= fil.fsize
         /\ fil.fsize > 0 => fil.sclust = Chain[fil.card][fil.name][1]
         /\ fs.vol = Volume[fil.card] /\ Mounted
         /\ Text = Files[fil.card][fil.name]
<1>1. fil.card \in Card /\ fs.vol = Volume[fil.card] /\ Mounted /\ Text = Files[fil.card][fil.name]
  BY DEF FatInv, OpenInv, FileOpen, Mounted, VolumeInv, Text
<1>2. /\ fil.name \in DOMAIN Files[fil.card]
      /\ fil.fsize = Len(Files[fil.card][fil.name])
      /\ fil.fsize > 0 => fil.sclust = Chain[fil.card][fil.name][1]
      /\ fil.fptr \in 0 .. fil.fsize
  BY Zenon DEF FatInv, FileInv
<1>3. fil.fsize \in Nat
  BY <1>1, <1>2, FileFacts
<1>4. fil.fptr \in Nat /\ fil.fptr <= fil.fsize
  BY <1>2, <1>3
<1>. QED BY <1>1, <1>2, <1>3, <1>4

\* Only a file that is open and sound is read or sought in.
LEMMA BusyFacts ==
  ASSUME FatInv, call.at \in {"read", "seek"}
  PROVE  FileOpen /\ ~fil.err
BY DEF FatInv, OpenInv, FileOpen, ReadingInv, SeekingInv

\* It stays open while it is read.
LEMMA StillOpen ==
  ASSUME FatInv, FileOpen, Held, call'.at \in {"read", "seek", "none"},
         fil'.fsize = fil.fsize, fil'.sclust = fil.sclust, fil'.fptr \in Nat, fil'.fptr <= fil.fsize
  PROVE  FileOpen' /\ Mounted' /\ OpenInv' /\ DirectoryInv' /\ FileInv' /\ Text' = Text
<1>1. FileOpen' /\ Mounted' /\ Text' = Text
  BY DEF FileOpen, Held, Mounted, Text
<1>2. OpenInv' /\ DirectoryInv'
  <2>1. fil.card \in Card
    BY OpenFacts
  <2>. QED BY <1>1, <2>1 DEF OpenInv, DirectoryInv, Opening, Held, FileOpen
<1>3. FileInv'
  <2>1. fil'.fptr \in 0 .. fil'.fsize
    BY OpenFacts
  <2>2. /\ fil'.name \in DOMAIN Files[fil'.card]
        /\ fil'.fsize = Len(Files[fil'.card][fil'.name])
        /\ fil'.fsize > 0 => fil'.sclust = Chain[fil'.card][fil'.name][1]
    BY OpenFacts DEF Held
  <2>. QED BY <2>1, <2>2, Zenon DEF FileInv
<1>. QED BY <1>1, <1>2, <1>3

\* Items from p on, as far as the card lasts, and of one sector.
Right(p, s) == \A i \in DOMAIN s : s[i] = Text[p + i] \/ (Lost' /\ s[i] = Junk)
Fits(p, n) == p + n <= Len(Text) /\ (p % SectorSize) + n <= SectorSize

\* A sector is begun while the card is there.
Begun(p) == Lost => p % SectorSize # 0

\* They are returned.
LEMMA DeliverStep ==
  ASSUME NEW p \in Nat, NEW n \in Nat \ {0}, NEW had, NEW s
  PROVE  /\ FatInv /\ FileOpen /\ Held /\ Text' = Text
         /\ fil.fptr = p /\ fil'.fptr = p + n /\ Fits(p, n)
         /\ had \in {call.got, <<>>} /\ s \in Seq(FileItems \cup {Junk}) /\ Len(s) = n
         /\ call'.got = had \o s
         /\ Begun(p) /\ (Lost => Lost') /\ Right(p, s)
         => StreamStep /\ GotInv'
<1>1. SUFFICES ASSUME /\ FatInv /\ FileOpen /\ Held /\ Text' = Text
                      /\ fil.fptr = p /\ fil'.fptr = p + n /\ Fits(p, n)
                      /\ had \in {call.got, <<>>} /\ s \in Seq(FileItems \cup {Junk}) /\ Len(s) = n
                      /\ call'.got = had \o s
                      /\ Begun(p) /\ (Lost => Lost') /\ Right(p, s)
               PROVE  StreamStep /\ GotInv'
  OBVIOUS
<1> DEFINE S == FileItems \cup {Junk}
           t == call'.got
<1>2. had \in Seq(S) /\ s \in Seq(S) /\ t = had \o s /\ Len(s) = n
  <2>1. call.got \in Seq(FileItems \cup {Junk}) /\ <<>> \in Seq(FileItems \cup {Junk})
    BY <1>1 DEF FatInv, GotInv
  <2>. QED BY <1>1, <2>1, Zenon
<1> HIDE DEF S, t
<1>3. /\ had \o s \in Seq(S) /\ Len(had \o s) = Len(had) + Len(s)
      /\ SubSeq(had \o s, 1, Len(had)) = had
      /\ \A i \in 1 .. Len(s) : (had \o s)[Len(had) + i] = s[i]
  BY <1>2, ConcatFacts
<1>4. /\ t \in Seq(S) /\ Len(t) = Len(had) + n /\ SubSeq(t, 1, Len(had)) = had
      /\ \A i \in 1 .. n : t[Len(had) + i] = s[i]
  BY <1>2, <1>3, Zenon
<1>5. GotInv'
  BY <1>4 DEF GotInv, S, t
<1>6. n \in 1 .. SectorSize /\ n <= SectorSize - (p % SectorSize) /\ p + n <= Len(Text)
  <2> DEFINE o == p % SectorSize
  <2>1. o \in Nat /\ SectorSize \in Nat
    BY SectorAssumption, DivFacts
  <2>2. o + n <= SectorSize /\ p + n <= Len(Text)
    BY <1>1, Zenon DEF Fits
  <2> HIDE DEF o
  <2>3. n \in 1 .. SectorSize /\ n <= SectorSize - o
    BY <2>1, <2>2
  <2>. QED BY <2>2, <2>3 DEF o
<1>7. \A i \in 1 .. n : t[Len(had) + i] \in {Text[p + i]} \cup (IF Lost' THEN {Junk} ELSE {})
  <2>1. DOMAIN s = 1 .. n
    BY <1>2
  <2>2. \A i \in 1 .. n : s[i] = Text[p + i] \/ (Lost' /\ s[i] = Junk)
    BY <1>1, <2>1, Zenon DEF Right
  <2>. QED BY <1>4, <2>2, Zenon
<1>8. Stream!Deliver(n, had)
  BY <1>1, <1>4, <1>6, <1>7, Zenon DEF Stream!Deliver, Begun, t
<1>. QED BY <1>1, <1>5, <1>6, <1>8, Zenon DEF StreamStep, Stream!Next

\* Nothing is returned, but the card may go.
LEMMA LoseStep ==
  ASSUME Text' = Text, fil'.fptr = fil.fptr, call'.got = call.got, Lost => Lost'
  PROVE  StreamStep
<1>1. CASE Lost'
  <2>1. Stream!Lose
    BY <1>1 DEF Stream!Lose, Lost
  <2>. QED BY <2>1 DEF StreamStep, Stream!Next
<1>2. CASE ~Lost'
  BY <1>2 DEF StreamStep, Lost
<1>. QED BY <1>1, <1>2

\* The volume, when it is left alone.
LEMMA VolumeStill ==
  ASSUME VolumeInv, Mounted, Held, UNCHANGED fs, Lost => Lost'
  PROVE  VolumeInv'
BY DEF VolumeInv, Held, Copy

\* An error ends the call.
LEMMA AbortStep ==
  ASSUME FatInv, FileOpen, Abort, SocketInv', VolumeInv', DOMAIN fs' = DOMAIN fs, Lost => Lost'
  PROVE  FatInv' /\ StreamStep
<1>1. /\ DOMAIN fil' = DOMAIN fil /\ Held /\ fil'.err = TRUE /\ fil'.fsize = fil.fsize
      /\ fil'.sclust = fil.sclust /\ fil'.fptr = fil.fptr
  BY DEF Abort, FatInv, FieldsInv, Held
<1>2. /\ DOMAIN call' = DOMAIN call /\ call'.at = "none" /\ call'.got = call.got /\ call'.linked = FALSE
  BY ReturnFacts DEF FatInv, Abort
<1>3. FieldsInv'
  BY <1>1, <1>2 DEF FatInv, FieldsInv
<1>4. FileOpen' /\ OpenInv' /\ DirectoryInv' /\ FileInv' /\ Text' = Text
  <2>1. fil'.fptr \in Nat /\ fil'.fptr <= fil.fsize
    BY <1>1, OpenFacts, Zenon
  <2>. QED BY <1>1, <1>2, <2>1, StillOpen
<1>5. ClusterInv' /\ BufferInv' /\ ReadingInv' /\ SeekingInv'
  BY <1>1, <1>2 DEF ClusterInv, BufferInv, ReadingInv, SeekingInv
<1>6. GotInv'
  BY <1>2 DEF FatInv, GotInv
<1>7. StreamStep
  BY <1>1, <1>2, <1>4, LoseStep
<1>. QED BY <1>3, <1>4, <1>5, <1>6, <1>7 DEF FatInv

\* The buffer, when it is left alone.
LEMMA BehindStill ==
  ASSUME NEW p, Behind(p), Held, fil'.dsect = fil.dsect, fil'.buf = fil.buf, Lost => Lost'
  PROVE  Behind(p)'
BY Zenon DEF Behind, Held, Copy, Here

\* A cluster and its first item, an item and the one before it.
LEMMA ClusterArith ==
  ASSUME NEW S \in Nat \ {0}, NEW C \in Nat \ {0}, NEW p \in Nat
  PROVE  /\ p > 0 /\ p % (C * S) # 0 => (p - 1) \div (C * S) = p \div (C * S)
         /\ p > 0 /\ p % (C * S) = 0 =>
              p % S = 0 /\ ((p - 1) \div (C * S)) + 1 = p \div (C * S)
         /\ 0 \div (C * S) = 0
<1> DEFINE d == C * S
<1>1. d \in Nat \ {0} /\ p % d = S * ((p \div S) % C) + (p % S)
  BY ClusterOf
<1>2. p % S \in Nat /\ (p \div S) % C \in Nat /\ p \div d \in Nat
  <2>1. p % S \in Nat /\ p \div S \in Nat
    BY DivFacts
  <2>2. p \div d \in Nat
    BY <1>1, DivFacts
  <2> DEFINE q == p \div S
  <2>3. q \in Nat
    BY <2>1
  <2> HIDE DEF q
  <2>4. q % C \in Nat
    BY <2>3, DivFacts
  <2>. QED BY <2>1, <2>2, <2>4 DEF q
<1>3. p % d = 0 => p % S = 0
  <2> DEFINE q == (p \div S) % C
             r == p % S
  <2>1. S * q \in Nat /\ r \in Nat
    BY <1>2
  <2>2. p % d = S * q + r
    BY <1>1
  <2> HIDE DEF d, q, r
  <2>3. p % d = 0 => r = 0
    BY <2>1, <2>2
  <2>. QED BY <2>3 DEF r
<1> HIDE DEF d
<1>4. ASSUME p > 0 PROVE (p - 1) \div d = IF p % d = 0 THEN (p \div d) - 1 ELSE p \div d
  <2>1. p \in Nat \ {0}
    BY <1>4
  <2>. QED BY <1>1, <2>1, Before
<1>5. 0 \div d = 0
  <2>1. 0 \in 0 .. d - 1 /\ d * 0 + 0 = 0
    BY <1>1
  <2>2. (d * 0 + 0) \div d = 0
    BY <1>1, <2>1, DivUnique
  <2>. QED BY <2>1, <2>2
<1>6. p > 0 /\ p % d = 0 => ((p - 1) \div d) + 1 = p \div d
  BY <1>2, <1>4
<1>. QED BY <1>3, <1>4, <1>5, <1>6 DEF d

\* A call starts, and the file is as it was.
SameFile ==
  /\ DOMAIN fil' = DOMAIN fil /\ Held /\ fil'.err = fil.err /\ fil'.fsize = fil.fsize
  /\ fil'.sclust = fil.sclust /\ fil'.fptr = fil.fptr /\ fil'.clust = fil.clust
  /\ fil'.dsect = fil.dsect /\ fil'.buf = fil.buf

\* A call on the open file begins, or returns at once.
LEMMA BeginStep ==
  ASSUME FatInv, SameFile, UNCHANGED <<fs, sdVars>>, FieldsInv', call'.got = <<>>, ~call'.linked,
         \/ call'.at = "none"
         \/ call'.at = "read" /\ FileOpen /\ ~fil.err /\ ToRead(fil.fptr, call'.btr),
         call.at = "none"
  PROVE  FatInv' /\ StreamStep
<1>1. SocketInv' /\ (Lost' <=> Lost)
  BY SocketStill DEF FatInv, SameFile, Held
<1>2. OpenInv'
  BY DEF FatInv, OpenInv, Opening, FileOpen, SameFile, Held
<1>3. VolumeInv' /\ DirectoryInv'
  BY <1>1 DEF FatInv, VolumeInv, Mounted, DirectoryInv, Opening, Copy, SameFile, Held
<1>4. FileInv'
  BY DEF FatInv, FileInv, FileOpen, SameFile, Held
<1>5. ClusterInv'
  BY Zenon DEF FatInv, ClusterInv, FileOpen, Reached, Size, SameFile, Held
<1>6. BufferInv'
  <2>1. BufferInv
    BY DEF FatInv
  <2>2. BufferInv' <=> BufferInv
    BY <1>1, Zenon DEF BufferInv, FileOpen, Behind, Here, Copy, SameFile, Held
  <2>. QED BY <2>1, <2>2
<1>7. ReadingInv' /\ SeekingInv'
  BY DEF ReadingInv, SeekingInv, ToRead, SameFile
<1>8. GotInv'
  BY DEF GotInv
<1>9. Stream!Begin
  BY <1>1 DEF Stream!Begin, Text, Lost, SameFile, Held
<1>. QED BY <1>1, <1>2, <1>3, <1>4, <1>5, <1>6, <1>7, <1>8, <1>9
        DEF FatInv, StreamStep, Stream!Next

\* The cluster of the next item.
LEMMA ClusterHere ==
  ASSUME FatInv, call.at = "read", ~Unlinked, Sect(Cluster) # 0 \/ Offset # 0
  PROVE  Cluster = Chain[fil.card][fil.name][(fil.fptr \div Size) + 1]
<1> DEFINE p == fil.fptr
           chain == Chain[fil.card][fil.name]
<1>1. /\ FileOpen /\ ~fil.err /\ fil.card \in Card /\ fs.vol = Volume[fil.card] /\ p \in Nat
      /\ fil.fsize \in Nat
  BY BusyFacts, OpenFacts
<1>2. Size \in Nat \ {0} /\ Size = Volume[fil.card].csize * SectorSize /\ Bcs = Size
      /\ Volume[fil.card].csize \in Nat \ {0} /\ SectorSize \in Nat \ {0}
  BY <1>1, Geometry DEF Size, Bcs
<1>3. ReadingInv /\ (fil.fsize > 0 => fil.sclust = chain[1])
  BY <1>1, OpenFacts DEF FatInv
<1>4. fil.fsize > 0
  <2>1. ToRead(p, call.btr)
    BY <1>3 DEF ReadingInv
  <2> HIDE DEF p
  <2>. QED BY <1>1, <2>1 DEF ToRead
<1>5. /\ ~call.linked => Reached(p)
      /\ call.linked => Ahead(p)
  BY <1>1 DEF FatInv, ClusterInv
<1>6. p > 0 => (p % Size = 0 => call.linked)
  BY <1>2 DEF Unlinked
<1>7. Cluster = IF p = 0 THEN fil.sclust ELSE fil.clust
  BY DEF Cluster
<1>8. Offset = p % SectorSize
  BY DEF Offset
<1> HIDE DEF p
<1>9. /\ p > 0 /\ p % Size # 0 => (p - 1) \div Size = p \div Size
      /\ p > 0 /\ p % Size = 0 => p % SectorSize = 0
      /\ 0 \div Size = 0
  BY <1>1, <1>2, ClusterArith
<1>10. ASSUME p = 0 PROVE Cluster = chain[(p \div Size) + 1]
  BY <1>3, <1>4, <1>7, <1>9, <1>10
<1>11. ASSUME p > 0 /\ call.linked PROVE Cluster = chain[(p \div Size) + 1]
  <2>1. Ahead(p)
    BY <1>5, <1>11
  <2>2. p % Size = 0
    BY <2>1 DEF Ahead
  <2>3. Sect(Cluster) # 0
    BY <1>8, <1>9, <1>11, <2>2
  <2>4. Sect(Volume[fil.card].n_fatent) = 0
    <3>1. Volume[fil.card].n_fatent \notin Clusters(fil.card)
      <4>1. Volume[fil.card].n_fatent \in Nat
        BY <1>1, Geometry
      <4>. QED BY <4>1 DEF Clusters
    <3>. QED BY <1>1, <3>1, SectFacts
  <2>5. Cluster = fil.clust
    BY <1>7, <1>11
  <2>. QED BY <2>1, <2>3, <2>4, <2>5 DEF Ahead
<1>12. ASSUME p > 0 /\ ~call.linked PROVE Cluster = chain[(p \div Size) + 1]
  <2>1. Reached(p) /\ p % Size # 0
    BY <1>5, <1>6, <1>12
  <2>2. Cluster = chain[((p - 1) \div Size) + 1]
    BY <1>7, <1>12, <2>1 DEF Reached
  <2>. QED BY <1>9, <1>12, <2>1, <2>2
<1>13. Cluster = chain[(p \div Size) + 1]
  BY <1>1, <1>10, <1>11, <1>12
<1>. QED BY <1>13 DEF p

\* The buffer after a whole sector, and after a part of one.
LEMMA BehindWhole ==
  ASSUME NEW p \in Nat, p % SectorSize = 0, Behind(p),
         Held, fil'.dsect = fil.dsect, fil'.buf = fil.buf, Lost => Lost'
  PROVE  Behind(p + SectorSize)'
<1>1. SectorSize \in Nat \ {0} /\ p + SectorSize \in Nat
  BY SectorAssumption
<1>2. (p + SectorSize) % SectorSize = 0
  <2>1. (p % SectorSize) + SectorSize = SectorSize
    BY <1>1
  <2>. QED BY <1>1, <2>1, SectorEnd
<1>3. Behind(p)'
  BY BehindStill
<1>4. \A q \in 0 .. p - 1 : q \in 0 .. (p + SectorSize) - 1
  BY <1>1
<1> DEFINE r == p + SectorSize
<1>5. r % SectorSize = 0 /\ \A q \in 0 .. p - 1 : q \in 0 .. r - 1
  BY <1>2, <1>4
<1> HIDE DEF r
<1>6. Behind(r)'
  BY <1>3, <1>5, Zenon DEF Behind
<1>. QED BY <1>6 DEF r

\* After a part of the sector in the buffer, the buffer is still behind.
LEMMA BehindPart ==
  ASSUME NEW p \in Nat, NEW n \in Nat \ {0}
  PROVE  /\ fil.card \in Card /\ fil.name \in DOMAIN Files[fil.card]
         /\ (p % SectorSize) + n <= SectorSize
         /\ Held /\ fil'.dsect = Here(p) /\ Copy(fil.buf, Here(p))'
         => Behind(p + n)'
<1>1. SUFFICES ASSUME /\ fil.card \in Card /\ fil.name \in DOMAIN Files[fil.card]
                      /\ (p % SectorSize) + n <= SectorSize
                      /\ Held /\ fil'.dsect = Here(p) /\ Copy(fil.buf, Here(p))'
               PROVE  Behind(p + n)'
  OBVIOUS
<1> DEFINE r == p + n
           o == p % SectorSize
<1>2. r \in Nat /\ p \in 0 .. r - 1 /\ o \in Nat /\ SectorSize \in Nat \ {0}
  BY SectorAssumption, DivFacts
<1>3. ASSUME r % SectorSize # 0 PROVE r \div SectorSize = p \div SectorSize
  <2>1. o + n # SectorSize
    <3>1. ASSUME o + n = SectorSize PROVE FALSE
      <4>1. (p + n) % SectorSize = 0
        BY <1>2, <3>1, SectorEnd
      <4>. QED BY <1>3, <4>1
    <3>. QED BY <3>1
  <2>2. o + n < SectorSize
    <3>1. o + n <= SectorSize
      BY <1>1
    <3> HIDE DEF o, r
    <3>. QED BY <1>2, <2>1, <3>1
  <2>. QED BY <1>2, <2>2, SameSector
<1>4. r % SectorSize # 0 => Here(r) = Here(p)
  <2>1. ASSUME r % SectorSize # 0 PROVE Place(fil.card, fil.name, r) = Place(fil.card, fil.name, p)
    <3>1. r \div SectorSize = p \div SectorSize /\ r \in Nat
      BY <1>2, <1>3, <2>1
    <3> HIDE DEF r
    <3>. QED BY <1>1, <3>1, PlaceShared
  <2>. QED BY <2>1 DEF Here
<1> HIDE DEF r, o
<1>5. \A q : Here(q)' = Here(q)
  BY <1>1 DEF Here, Held
<1>6. Copy(fil.buf, fil.dsect)' /\ fil'.dsect = Here(p)
  BY <1>1, <1>5 DEF Copy
<1>7. Behind(r)'
  BY <1>1, <1>2, <1>4, <1>5, Zenon DEF Behind
<1>. QED BY <1>7 DEF r

\* The last of n items of one sector is in the cluster of the first.
LEMMA SameCluster ==
  ASSUME NEW S \in Nat \ {0}, NEW C \in Nat \ {0}, NEW p \in Nat, NEW n \in Nat \ {0},
         (p % S) + n <= S
  PROVE  (p + n - 1) \div (C * S) = p \div (C * S)
<1> DEFINE o == p % S
           q == p + n - 1
<1>1. o \in Nat /\ o + n <= S
  BY DivFacts
<1> HIDE DEF o
<1>2. n - 1 \in Nat /\ o + (n - 1) < S /\ q = p + (n - 1) /\ q \in Nat
  BY <1>1
<1>3. (p + (n - 1)) \div S = p \div S
  BY <1>2, SameSector DEF o
<1> HIDE DEF q
<1>4. /\ (q \div S) \div C = q \div (C * S)
      /\ (p \div S) \div C = p \div (C * S)
  BY <1>2, ClusterOf
<1>5. q \div S = p \div S
  BY <1>2, <1>3
<1>6. q \div (C * S) = p \div (C * S)
  BY <1>4, <1>5
<1>. QED BY <1>6 DEF q

\* Some items have been returned: of those that follow item p.
LEMMA ReturnedStep ==
  ASSUME NEW p \in Nat, NEW n \in Nat \ {0}, NEW had, NEW s
  PROVE  /\ FatInv /\ FileOpen /\ ~fil.err /\ fil.fptr = p
         /\ s \in Seq(FileItems \cup {Junk}) /\ Len(s) = n /\ p + n <= fil.fsize
         /\ (p % SectorSize) + n <= SectorSize
         /\ Right(p, s) /\ Begun(p) /\ (Lost => Lost') /\ SocketInv' /\ UNCHANGED fs
         /\ had \in {call.got, <<>>} /\ call'.got = had \o s
         /\ FieldsInv' /\ Held /\ fil'.fsize = fil.fsize /\ fil'.sclust = fil.sclust
         /\ fil'.fptr = p + n /\ fil'.clust = Chain[fil.card][fil.name][(p \div Size) + 1]
         /\ Behind(p + n)' /\ ~fil'.err
         /\ ~call'.linked
         /\ \/ call'.at = "none"
            \/ call'.at = "read" /\ call'.btr \in Nat \ {0} /\ p + n + call'.btr <= fil.fsize
         => FatInv' /\ StreamStep
<1>1. SUFFICES ASSUME /\ FatInv /\ FileOpen /\ ~fil.err /\ fil.fptr = p
                      /\ s \in Seq(FileItems \cup {Junk}) /\ Len(s) = n /\ p + n <= fil.fsize
                      /\ (p % SectorSize) + n <= SectorSize
                      /\ Right(p, s) /\ Begun(p) /\ (Lost => Lost') /\ SocketInv' /\ UNCHANGED fs
                      /\ had \in {call.got, <<>>} /\ call'.got = had \o s
                      /\ FieldsInv' /\ Held /\ fil'.fsize = fil.fsize /\ fil'.sclust = fil.sclust
                      /\ fil'.fptr = p + n /\ fil'.clust = Chain[fil.card][fil.name][(p \div Size) + 1]
                      /\ Behind(p + n)' /\ ~fil'.err
                      /\ ~call'.linked
                      /\ \/ call'.at = "none"
                         \/ call'.at = "read" /\ call'.btr \in Nat \ {0} /\ p + n + call'.btr <= fil.fsize
               PROVE  FatInv' /\ StreamStep
  OBVIOUS
<1>2. /\ fil.card \in Card /\ fs.vol = Volume[fil.card] /\ fil.fsize \in Nat
      /\ Text = Files[fil.card][fil.name] /\ Len(Text) = fil.fsize /\ Mounted
  BY <1>1, OpenFacts
<1>3. FileOpen' /\ Mounted' /\ OpenInv' /\ DirectoryInv' /\ FileInv' /\ Text' = Text
  <2>1. p + n \in Nat
    OBVIOUS
  <2>2. /\ call'.at \in {"read", "seek", "none"} /\ fil'.fptr \in Nat /\ fil'.fptr <= fil.fsize
    BY <1>1, <2>1, Zenon
  <2>. QED BY <1>1, <2>2, StillOpen
<1>4. VolumeInv'
  BY <1>1, <1>2, VolumeStill DEF FatInv
<1>5. Reached(p + n)'
  <2>1. Size = Volume[fil.card].csize * SectorSize /\ SectorSize \in Nat \ {0}
        /\ Volume[fil.card].csize \in Nat \ {0}
    BY <1>2, Geometry DEF Size
  <2>2. (p + n - 1) \div Size = p \div Size
    <3>1. (p % SectorSize) + n <= SectorSize
      BY <1>1, Zenon
    <3>2. (p + n - 1) \div (Volume[fil.card].csize * SectorSize) = p \div (Volume[fil.card].csize * SectorSize)
      BY <2>1, <3>1, SameCluster
    <3>. QED BY <2>1, <3>2, Zenon
  <2>3. Size' = Size /\ fil'.card = fil.card /\ fil'.name = fil.name
    BY <1>1 DEF Size, Held
  <2>4. fil'.clust = Chain[fil.card][fil.name][((p + n - 1) \div Size) + 1]
    BY <1>1, <2>2, Zenon
  <2>. QED BY <2>3, <2>4 DEF Reached
<1>6. ClusterInv'
  BY <1>1, <1>5, Zenon DEF ClusterInv
<1>7. BufferInv'
  BY <1>1, Zenon DEF BufferInv
<1>8. ReadingInv'
  BY <1>1, Zenon DEF ReadingInv, ToRead
<1>9. SeekingInv'
  BY <1>1 DEF SeekingInv
<1>10. StreamStep /\ GotInv'
  <2>1. Fits(p, n)
    BY <1>1, <1>2, Zenon DEF Fits
  <2>. QED BY <1>1, <1>3, <2>1, DeliverStep, Zenon
<1>. QED BY <1>1, <1>3, <1>4, <1>6, <1>7, <1>8, <1>9, <1>10, Zenon DEF FatInv

\* A part of a read.
LEMMA DeliveredStep ==
  ASSUME NEW p \in Nat, NEW n \in Nat \ {0}, NEW s, NEW dsect, NEW buf
  PROVE  /\ FatInv /\ call.at = "read" /\ fil.fptr = p
         /\ Cluster = Chain[fil.card][fil.name][(p \div Size) + 1]
         /\ s \in Seq(FileItems \cup {Junk}) /\ Len(s) = n /\ n <= call.btr
         /\ (p % SectorSize) + n <= SectorSize
         /\ Right(p, s) /\ Begun(p) /\ (Lost => Lost') /\ SocketInv' /\ UNCHANGED fs
         /\ Delivered(s, dsect, buf) /\ Behind(p + n)'
         => FatInv' /\ StreamStep /\ Sooner
<1>1. SUFFICES ASSUME /\ FatInv /\ call.at = "read" /\ fil.fptr = p
                      /\ Cluster = Chain[fil.card][fil.name][(p \div Size) + 1]
                      /\ s \in Seq(FileItems \cup {Junk}) /\ Len(s) = n /\ n <= call.btr
                      /\ (p % SectorSize) + n <= SectorSize
                      /\ Right(p, s) /\ Begun(p) /\ (Lost => Lost') /\ SocketInv' /\ UNCHANGED fs
                      /\ Delivered(s, dsect, buf) /\ Behind(p + n)'
               PROVE  FatInv' /\ StreamStep /\ Sooner
  OBVIOUS
<1>2. FatInv /\ FileOpen /\ ~fil.err
  BY <1>1, BusyFacts
<1>3. fil.fsize \in Nat
  BY <1>2, OpenFacts
<1>4. ToRead(p, call.btr)
  BY <1>1, <1>2, Zenon DEF FatInv, ReadingInv
<1>5. /\ DOMAIN fil' = DOMAIN fil /\ Held /\ fil'.err = fil.err /\ fil'.fsize = fil.fsize
      /\ fil'.sclust = fil.sclust /\ fil'.clust = Cluster
  BY <1>1, Zenon DEF Delivered, FatInv, FieldsInv, Held
<1>6. fil'.fptr = p + n
  <2>1. fil'.fptr = fil.fptr + Len(s)
    BY <1>1 DEF Delivered, FatInv, FieldsInv
  <2>. QED BY <1>1, <2>1, Zenon
<1>7. /\ DOMAIN call' = DOMAIN call /\ call'.got = call.got \o s /\ ~call'.linked
      /\ call'.linked \in BOOLEAN
  BY <1>1 DEF Delivered, FatInv, FieldsInv
<1>8. /\ call'.btr = call.btr - n
      /\ call'.at = IF call.btr - n = 0 THEN "none" ELSE "read"
  <2>1. /\ call'.btr = call.btr - Len(s)
        /\ call'.at = IF call.btr - Len(s) = 0 THEN "none" ELSE "read"
    BY <1>1, Zenon DEF Delivered, FatInv, FieldsInv
  <2>. QED BY <1>1, <2>1, Zenon
<1>9. FieldsInv'
  BY <1>1, <1>2, <1>5, <1>7 DEF FatInv, FieldsInv
<1>10. /\ p + n <= fil.fsize
       /\ \/ call'.at = "none"
          \/ call'.at = "read" /\ call'.btr \in Nat \ {0} /\ p + n + call'.btr <= fil.fsize
  <2> DEFINE b == call.btr
             m == fil.fsize
  <2>1. b \in Nat /\ p + b <= m /\ n <= b /\ m \in Nat
    BY <1>1, <1>3, <1>4, Zenon DEF ToRead
  <2>2. call'.btr = b - n /\ call'.at = IF b - n = 0 THEN "none" ELSE "read"
    BY <1>8, Zenon
  <2> HIDE DEF b, m
  <2>3. p + n <= m
    BY <2>1
  <2>4. ASSUME b - n # 0 PROVE b - n \in Nat \ {0} /\ p + n + (b - n) <= m
    BY <2>1, <2>4
  <2>5. call'.at = "none" \/ (call'.at = "read" /\ call'.btr \in Nat \ {0} /\ p + n + call'.btr <= m)
    BY <2>2, <2>4
  <2>. QED BY <2>3, <2>5 DEF m
<1>11. ~fil'.err
  BY <1>2, <1>5
<1>12. call.got \in {call.got, <<>>}
  OBVIOUS
<1>13. fil'.clust = Chain[fil.card][fil.name][(p \div Size) + 1]
  BY <1>1, <1>5, Zenon
<1>14. Sooner
  <2> DEFINE b == call.btr
  <2>1. b \in Nat /\ n <= b
    BY <1>1, <1>4, Zenon DEF ToRead
  <2>2. Reach = p + b
    BY <1>1 DEF Reach
  <2>3. Reach' = IF b - n = 0 THEN p + n ELSE (p + n) + (b - n)
    BY <1>6, <1>8, Zenon DEF Reach
  <2> HIDE DEF b
  <2>4. (b - n = 0 => p + n <= p + b) /\ (p + n) + (b - n) <= p + b
    BY <2>1
  <2>5. Reach' <= Reach
    BY <2>2, <2>3, <2>4, Zenon
  <2>. QED BY <1>1, <1>8, <2>5, Zenon DEF Sooner
<1>. QED BY <1>1, <1>2, <1>5, <1>6, <1>7, <1>9, <1>10, <1>11, <1>12, <1>13, <1>14, ReturnedStep, Zenon

\* What is read of a sector, from item p on, is right.
LEMMA SliceRight ==
  ASSUME NEW p \in Nat, NEW n \in Nat \ {0}, NEW items
  PROVE  /\ FatInv /\ FileOpen /\ p + n <= fil.fsize /\ (p % SectorSize) + n <= SectorSize
         /\ items = Disk[fil.card][Here(p)] \/ (Lost' /\ Partly(items, fil.card, Here(p)))
         => /\ Slice(items, p, n) \in Seq(FileItems \cup {Junk}) /\ Len(Slice(items, p, n)) = n
            /\ Right(p, Slice(items, p, n))
<1>1. SUFFICES ASSUME /\ FatInv /\ FileOpen /\ p + n <= fil.fsize /\ (p % SectorSize) + n <= SectorSize
                      /\ items = Disk[fil.card][Here(p)] \/ (Lost' /\ Partly(items, fil.card, Here(p)))
               PROVE  /\ Slice(items, p, n) \in Seq(FileItems \cup {Junk}) /\ Len(Slice(items, p, n)) = n
                      /\ Right(p, Slice(items, p, n))
  OBVIOUS
<1> DEFINE s == Slice(items, p, n)
           c == fil.card
           f == fil.name
<1>2. /\ c \in Card /\ f \in DOMAIN Files[c] /\ fil.fsize = Len(Files[c][f])
      /\ Text = Files[c][f]
  BY <1>1, OpenFacts
<1>3. items = Disk[c][Place(c, f, p)] \/ Partly(items, c, Place(c, f, p))
  BY <1>1, Zenon DEF Here
<1>4. p + n <= Len(Files[c][f]) /\ (p % SectorSize) + n <= SectorSize
  BY <1>1, <1>2, Zenon
<1>5. /\ s \in Seq(FileItems \cup {Junk}) /\ Len(s) = n
      /\ \A i \in 1 .. n : s[i] = Files[c][f][p + i] \/ s[i] = Junk
      /\ items = Disk[c][Place(c, f, p)] => \A i \in 1 .. n : s[i] = Files[c][f][p + i]
  <2>1. ASSUME NEW d \in Card, NEW g \in DOMAIN Files[d], p + n <= Len(Files[d][g]),
               (p % SectorSize) + n <= SectorSize,
               items = Disk[d][Place(d, g, p)] \/ Partly(items, d, Place(d, g, p))
        PROVE  /\ Slice(items, p, n) \in Seq(FileItems \cup {Junk}) /\ Len(Slice(items, p, n)) = n
               /\ \A i \in 1 .. n :
                    Slice(items, p, n)[i] = Files[d][g][p + i] \/ Slice(items, p, n)[i] = Junk
               /\ items = Disk[d][Place(d, g, p)] =>
                    \A i \in 1 .. n : Slice(items, p, n)[i] = Files[d][g][p + i]
    BY <2>1, SliceFacts
  <2> HIDE DEF c, f
  <2>. QED BY <1>2, <1>3, <1>4, <2>1, Zenon
<1>6. DOMAIN s = 1 .. n
  <2>1. s \in Seq(FileItems \cup {Junk}) /\ Len(s) = n
    BY <1>5
  <2> HIDE DEF s
  <2>. QED BY <2>1
<1>7. Right(p, s)
  <2> HIDE DEF s
  <2>. QED BY <1>1, <1>2, <1>5, <1>6, Zenon DEF Right, Here
<1>. QED BY <1>5, <1>7

\* A whole sector is its own part.
LEMMA WholeFacts ==
  ASSUME NEW n \in Nat, NEW items, DOMAIN items = 1 .. n, items = [i \in DOMAIN items |-> items[i]]
  PROVE  SubSeq(items, 1, n) = items
<1> DEFINE T == {items[i] : i \in DOMAIN items}
<1>1. items \in [1 .. n -> T]
  OBVIOUS
<1> HIDE DEF T
<1>2. items \in Seq(T) /\ Len(items) = n
  BY <1>1, LenOfDomain
<1>. QED BY <1>2

\* The sector of the next item.
LEMMA SectorHere ==
  ASSUME FatInv, call.at = "read", NEW p, p = fil.fptr,
         Cluster = Chain[fil.card][fil.name][(p \div Size) + 1]
  PROVE  /\ p \in Nat /\ p < fil.fsize /\ Sect(Cluster) # 0
         /\ Sect(Cluster) + ((p \div SectorSize) % fs.vol.csize) = Here(p)
         /\ Here(p) # NoSector /\ Here(p) \in DOMAIN Disk[fil.card]
<1> DEFINE c == fil.card
           f == fil.name
<1>1. /\ c \in Card /\ f \in DOMAIN Files[c] /\ fil.fsize = Len(Files[c][f]) /\ fil.fsize \in Nat
      /\ fil.fptr \in Nat /\ fs.vol = Volume[c]
  BY BusyFacts, OpenFacts
<1>2. p \in Nat /\ p < fil.fsize
  <2> DEFINE b == call.btr
             m == fil.fsize
  <2>1. ToRead(fil.fptr, call.btr)
    BY DEF FatInv, ReadingInv
  <2>2. p \in Nat /\ m \in Nat
    BY <1>1
  <2>3. b \in Nat \ {0} /\ p + b <= m
    BY <2>1 DEF ToRead
  <2> HIDE DEF b, m
  <2>4. p < m
    BY <2>2, <2>3
  <2>. QED BY <2>2, <2>4 DEF m
<1>3. /\ Chain[c][f][(p \div (Volume[c].csize * SectorSize)) + 1] \in Clusters(c)
      /\ Place(c, f, p) \in DOMAIN Disk[c] /\ Place(c, f, p) \in Nat \ {0}
  <2> HIDE DEF c, f
  <2>1. p < Len(Files[c][f])
    BY <1>1, <1>2
  <2>. QED BY <1>1, <1>2, <2>1, PlaceFacts
<1>4. Cluster = Chain[c][f][(p \div (Volume[c].csize * SectorSize)) + 1]
  BY DEF Size
<1>5. Sect(Cluster) = SectorOf(c, Cluster) /\ Sect(Cluster) \in Nat \ {0}
  BY <1>1, <1>3, <1>4, SectFacts
<1>6. Sect(Cluster) + ((p \div SectorSize) % fs.vol.csize) = Here(p)
  BY <1>1, <1>4, <1>5, Zenon DEF Here, Place
<1>7. Here(p) # NoSector /\ Here(p) \in DOMAIN Disk[fil.card]
  BY <1>3 DEF Here, NoSector
<1>8. Sect(Cluster) # 0
  BY <1>5
<1>. QED BY <1>2, <1>6, <1>7, <1>8

\* An error, and the card is left alone.
LEMMA AbortStill ==
  ASSUME FatInv, FileOpen, Abort, UNCHANGED <<fs, sdVars>>
  PROVE  FatInv' /\ StreamStep
<1>1. Held
  BY DEF Abort, FatInv, FieldsInv, Held
<1>2. SocketInv' /\ (Lost' <=> Lost)
  BY <1>1, SocketStill DEF FatInv, Held
<1>3. VolumeInv'
  BY <1>1, <1>2, OpenFacts, VolumeStill DEF FatInv
<1>. QED BY <1>2, <1>3, AbortStep

\* At the start of a sector.
LEMMA SliceStart ==
  ASSUME NEW p \in Nat, p % SectorSize = 0, NEW n \in Nat \ {0}, NEW items
  PROVE  Slice(items, p, n) = SubSeq(items, 1, n)
<1>1. (p % SectorSize) + 1 = 1 /\ (p % SectorSize) + n = n
  OBVIOUS
<1>. QED BY <1>1 DEF Slice

\* A sector of the file has as many items as any.
LEMMA WholeSlice ==
  ASSUME NEW p \in Nat, p % SectorSize = 0, NEW items
  PROVE  /\ FatInv /\ FileOpen /\ p < fil.fsize
         /\ items = Disk[fil.card][Here(p)] \/ (Lost' /\ Partly(items, fil.card, Here(p)))
         => Slice(items, p, SectorSize) = items
<1>1. SUFFICES ASSUME /\ FatInv /\ FileOpen /\ p < fil.fsize
                      /\ items = Disk[fil.card][Here(p)] \/ (Lost' /\ Partly(items, fil.card, Here(p)))
               PROVE  Slice(items, p, SectorSize) = items
  OBVIOUS
<1>2. /\ fil.card \in Card /\ fil.name \in DOMAIN Files[fil.card]
      /\ fil.fsize = Len(Files[fil.card][fil.name])
  BY <1>1, OpenFacts
<1> DEFINE d == Disk[fil.card][Here(p)]
<1>3. d \in Seq({d[i] : i \in DOMAIN d}) /\ Len(d) = SectorSize
  <2>1. p < Len(Files[fil.card][fil.name])
    BY <1>1, <1>2, Zenon
  <2>. QED BY <1>2, <2>1, PlaceFacts DEF Here
<1> HIDE DEF d
<1>4. DOMAIN d = 1 .. SectorSize /\ d = [i \in DOMAIN d |-> d[i]] /\ SectorSize \in Nat \ {0}
  BY <1>3, SectorAssumption
<1>5. DOMAIN items = 1 .. SectorSize /\ items = [i \in DOMAIN items |-> items[i]]
  BY <1>1, <1>4, Zenon DEF Partly, d
<1>6. SubSeq(items, 1, SectorSize) = items
  BY <1>4, <1>5, WholeFacts
<1>. QED BY <1>4, <1>6, SliceStart

\* The buffer is never one that has not been begun.
LEMMA BufferBehind ==
  ASSUME NEW p \in Nat, p % SectorSize = 0
  PROVE  /\ FatInv /\ FileOpen /\ Behind(p) /\ p < fil.fsize => fil.dsect # Here(p)
<1>1. SUFFICES ASSUME FatInv /\ FileOpen /\ Behind(p) /\ p < fil.fsize, fil.dsect = Here(p)
               PROVE  FALSE
  OBVIOUS
<1>2. /\ fil.card \in Card /\ fil.name \in DOMAIN Files[fil.card]
      /\ fil.fsize = Len(Files[fil.card][fil.name]) /\ fil.fsize \in Nat
  BY <1>1, OpenFacts
<1>3. Here(p) # NoSector
  <2>1. p < Len(Files[fil.card][fil.name])
    BY <1>1, <1>2, Zenon
  <2>2. Place(fil.card, fil.name, p) \in Nat \ {0}
    BY <1>2, <2>1, PlaceFacts
  <2>. QED BY <2>2 DEF Here, NoSector
<1>4. PICK q \in 0 .. p - 1 : Here(p) = Here(q)
  BY <1>1, <1>3, Zenon DEF Behind
<1>5. q \in Nat /\ q < p /\ q < fil.fsize
  <2> DEFINE m == fil.fsize
  <2>1. p < m /\ m \in Nat
    BY <1>1, <1>2
  <2> HIDE DEF m
  <2>2. q \in Nat /\ q < p /\ q < m
    BY <2>1
  <2>. QED BY <2>2 DEF m
<1>6. p \div SectorSize = q \div SectorSize
  <2>1. p < Len(Files[fil.card][fil.name]) /\ q < Len(Files[fil.card][fil.name])
    BY <1>1, <1>2, <1>5, Zenon
  <2>2. Place(fil.card, fil.name, p) = Place(fil.card, fil.name, q)
    BY <1>4 DEF Here
  <2>. QED BY <1>2, <1>5, <2>1, <2>2, PlaceUnique
<1>7. /\ p = SectorSize * (p \div SectorSize) + (p % SectorSize)
      /\ q = SectorSize * (q \div SectorSize) + (q % SectorSize)
      /\ q % SectorSize \in Nat /\ p \div SectorSize \in Nat /\ SectorSize \in Nat
  <2>1. q \in Nat /\ p \in Nat /\ SectorSize \in Nat \ {0}
    BY <1>5, SectorAssumption
  <2>2. /\ p = SectorSize * (p \div SectorSize) + (p % SectorSize)
        /\ p \div SectorSize \in Nat
    BY <2>1, DivFacts
  <2>3. /\ q = SectorSize * (q \div SectorSize) + (q % SectorSize)
        /\ q % SectorSize \in 0 .. SectorSize - 1
    BY <2>1, DivFacts
  <2>. QED BY <2>1, <2>2, <2>3
<1> DEFINE k == SectorSize * (p \div SectorSize)
           o == q % SectorSize
<1>8. k \in Nat /\ p = k + 0 /\ q = k + o /\ o \in Nat
  <2> DEFINE i == p \div SectorSize
  <2>1. i \in Nat /\ SectorSize \in Nat
    BY <1>7
  <2> HIDE DEF i
  <2>2. SectorSize * i \in Nat
    BY <2>1
  <2>. QED BY <1>6, <1>7, <2>2 DEF i
<1> HIDE DEF k, o
<1>. QED BY <1>5, <1>8

\* The read that is going on.
LEMMA ReadFacts ==
  ASSUME FatInv, call.at = "read"
  PROVE  /\ FileOpen /\ ~fil.err /\ fil.fptr \in Nat /\ fil.fsize \in Nat
         /\ call.btr \in Nat \ {0} /\ fil.fptr + call.btr <= fil.fsize /\ fil.fptr < fil.fsize
         /\ Behind(fil.fptr)
<1>1. /\ FileOpen /\ ~fil.err /\ fil.fptr \in Nat /\ fil.fsize \in Nat
  BY BusyFacts, OpenFacts
<1>2. ToRead(fil.fptr, call.btr) /\ Behind(fil.fptr)
  BY <1>1 DEF FatInv, ReadingInv, BufferInv
<1> DEFINE p == fil.fptr
           b == call.btr
           m == fil.fsize
<1>3. b \in Nat \ {0} /\ p + b <= m
  BY <1>2 DEF ToRead
<1>4. p \in Nat /\ m \in Nat
  BY <1>1
<1> HIDE DEF p, b, m
<1>5. p < m
  BY <1>3, <1>4
<1>. QED BY <1>1, <1>2, <1>3, <1>5 DEF p, b, m

\* An error leaves the file where it is.
LEMMA AbortSooner ==
  ASSUME FatInv, call.at \in {"read", "seek"}, Abort
  PROVE  Sooner
<1>1. call'.at = "none" /\ fil'.fptr = fil.fptr
  <2>1. call'.at = "none"
    BY ReturnFacts DEF Abort, FatInv
  <2>. QED BY <2>1 DEF Abort, FatInv, FieldsInv
<1>2. Reach' = fil.fptr
  BY <1>1 DEF Reach
<1>3. fil.fptr <= Reach
  <2>1. CASE call.at = "read"
    <3> DEFINE p == fil.fptr
               b == call.btr
    <3>1. p \in Nat /\ b \in Nat
      BY <2>1, ReadFacts
    <3>2. Reach = p + b
      BY <2>1 DEF Reach
    <3> HIDE DEF p, b
    <3>3. p <= p + b
      BY <3>1
    <3>. QED BY <3>2, <3>3 DEF p
  <2>2. CASE call.at = "seek"
    <3>1. \E a \in Nat : call.idx = Size * a /\ Seeks(a, call.btr)
      BY <2>2, Zenon DEF FatInv, SeekingInv
    <3>2. call.at # "read"
      BY <2>2
    <3>. QED BY <2>2, <3>1, <3>2, Zenon DEF Reach, Seeks
  <2>. QED BY <2>1, <2>2
<1>4. Reach' <= Reach
  BY <1>2, <1>3, Zenon
<1>. QED BY <1>1, <1>4, Zenon DEF Sooner

\* One sector, or the beginning of one, comes from the card.
LEMMA CameStep ==
  ASSUME NEW p \in Nat, NEW n \in Nat \ {0}, NEW items, NEW dsect, NEW buf
  PROVE  /\ FatInv /\ call.at = "read" /\ fil.fptr = p /\ p % SectorSize = 0
         /\ Cluster = Chain[fil.card][fil.name][(p \div Size) + 1]
         /\ n <= call.btr /\ n <= SectorSize
         /\ Came(items, Here(p)) /\ UNCHANGED fs
         /\ Delivered(Slice(items, p, n), dsect, buf)
         /\ \/ n = SectorSize /\ dsect = fil.dsect /\ buf = fil.buf
            \/ dsect = Here(p) /\ buf = items
         => FatInv' /\ StreamStep /\ Sooner
<1>1. SUFFICES ASSUME /\ FatInv /\ call.at = "read" /\ fil.fptr = p /\ p % SectorSize = 0
                      /\ Cluster = Chain[fil.card][fil.name][(p \div Size) + 1]
                      /\ n <= call.btr /\ n <= SectorSize
                      /\ Came(items, Here(p)) /\ UNCHANGED fs
                      /\ Delivered(Slice(items, p, n), dsect, buf)
                      /\ \/ n = SectorSize /\ dsect = fil.dsect /\ buf = fil.buf
                         \/ dsect = Here(p) /\ buf = items
               PROVE  FatInv' /\ StreamStep /\ Sooner
  OBVIOUS
<1>2. /\ FileOpen /\ fil.fsize \in Nat /\ call.btr \in Nat \ {0} /\ p + call.btr <= fil.fsize
      /\ p < fil.fsize /\ Behind(p)
  BY <1>1, ReadFacts
<1>3. p + n <= fil.fsize
  <2> DEFINE b == call.btr
             m == fil.fsize
  <2>1. b \in Nat /\ m \in Nat /\ p + b <= m /\ n <= b
    BY <1>1, <1>2
  <2> HIDE DEF b, m
  <2>2. p + n <= m
    BY <2>1
  <2>. QED BY <2>2 DEF m
<1>4. (p % SectorSize) + n <= SectorSize
  <2>1. p % SectorSize = 0 /\ n <= SectorSize
    BY <1>1
  <2>2. SectorSize \in Nat
    BY SectorAssumption
  <2>. QED BY <2>1, <2>2
<1>5. Held /\ fil'.dsect = dsect /\ fil'.buf = buf
  BY <1>1, Zenon DEF Delivered, FatInv, FieldsInv, Held
<1>6. fil.card \in Card /\ fil.name \in DOMAIN Files[fil.card]
  BY <1>1, <1>2, OpenFacts
<1>7. /\ ~Lost /\ SocketInv'
      /\ items = Disk[fil.card][Here(p)] \/ (Lost' /\ Partly(items, fil.card, Here(p)))
  BY <1>1, <1>5, <1>6, CameFacts DEF FatInv, Held
<1>8. /\ Slice(items, p, n) \in Seq(FileItems \cup {Junk}) /\ Len(Slice(items, p, n)) = n
      /\ Right(p, Slice(items, p, n))
  BY <1>1, <1>2, <1>3, <1>4, <1>7, SliceRight, Zenon
<1>9. Behind(p + n)'
  <2>1. CASE n = SectorSize /\ dsect = fil.dsect /\ buf = fil.buf
    <3>1. Behind(p + SectorSize)'
      BY <1>1, <1>2, <1>5, <1>7, <2>1, BehindWhole
    <3>. QED BY <2>1, <3>1
  <2>2. CASE dsect = Here(p) /\ buf = items
    <3>1. Copy(fil.buf, Here(p))'
      BY <1>5, <1>7, <2>2 DEF Copy, Here, Held
    <3>. QED BY <1>4, <1>5, <1>6, <2>2, <3>1, BehindPart
  <2>. QED BY <1>1, <2>1, <2>2
<1>10. Begun(p) /\ (Lost => Lost')
  BY <1>7 DEF Begun
<1>. QED BY <1>1, <1>4, <1>7, <1>8, <1>9, <1>10, DeliveredStep, Zenon

\* f_read copies from a sector it has to read first.
LEMMA ReadSectorStep ==
  ASSUME FatInv, ReadSector
  PROVE  FatInv' /\ StreamStep /\ Sooner
<1> DEFINE p == fil.fptr
           sect == Sect(Cluster) + ((p \div SectorSize) % fs.vol.csize)
<1>1. /\ call.at = "read" /\ ~Unlinked /\ Offset = 0 /\ UNCHANGED fs
      /\ \/ Abort /\ UNCHANGED sdVars
         \/ /\ Sect(Cluster) # 0 /\ call.btr >= SectorSize
            /\ \E items : Came(items, sect) /\ Delivered(items, fil.dsect, fil.buf)
         \/ Sect(Cluster) # 0 /\ fil.dsect = sect
         \/ /\ Sect(Cluster) # 0 /\ ~(call.btr >= SectorSize)
            /\ \E items : Came(items, sect) /\ Delivered(SubSeq(items, 1, call.btr), sect, items)
  BY Zenon DEF ReadSector, DiskRead, Came, InCall
<1>2. CASE Abort /\ UNCHANGED sdVars
  BY <1>1, <1>2, BusyFacts, AbortStill, AbortSooner, Zenon
<1>3. /\ FileOpen /\ p \in Nat /\ p < fil.fsize /\ Behind(p) /\ call.btr \in Nat \ {0}
      /\ SectorSize \in Nat \ {0} /\ p % SectorSize = 0
  BY <1>1, ReadFacts, SectorAssumption DEF Offset
<1>4. ASSUME Sect(Cluster) # 0
      PROVE  Cluster = Chain[fil.card][fil.name][(p \div Size) + 1] /\ sect = Here(p)
  <2>1. Cluster = Chain[fil.card][fil.name][(p \div Size) + 1]
    BY <1>1, <1>4, ClusterHere
  <2>. QED BY <1>1, <2>1, SectorHere
<1>5. ASSUME Sect(Cluster) # 0, call.btr >= SectorSize,
             NEW items, Came(items, sect), Delivered(items, fil.dsect, fil.buf)
      PROVE  FatInv' /\ StreamStep /\ Sooner
  <2>1. Came(items, Here(p))
    BY <1>4, <1>5
  <2>2. items = Disk[fil.card][Here(p)] \/ (Lost' /\ Partly(items, fil.card, Here(p)))
    <3>1. fil'.card = fil.card
      BY <1>5 DEF Delivered, FatInv, FieldsInv
    <3>2. fil.card \in Card
      BY <1>3, OpenFacts
    <3>. QED BY <2>1, <3>1, <3>2, CameFacts DEF FatInv
  <2>3. Slice(items, p, SectorSize) = items
    BY <1>3, <2>2, WholeSlice
  <2>4. SectorSize <= call.btr /\ SectorSize <= SectorSize
    <3> DEFINE b == call.btr
    <3>1. b \in Nat /\ b >= SectorSize /\ SectorSize \in Nat
      BY <1>3, <1>5
    <3> HIDE DEF b
    <3>2. SectorSize <= b /\ SectorSize <= SectorSize
      BY <3>1
    <3>. QED BY <3>2 DEF b
  <2> HIDE DEF p, sect
  <2>5. fil.fptr = p
    BY DEF p
  <2>. QED BY <1>1, <1>3, <1>4, <1>5, <2>1, <2>3, <2>4, <2>5, CameStep, Zenon
<1>6. ASSUME Sect(Cluster) # 0, fil.dsect = sect PROVE FALSE
  BY <1>3, <1>4, <1>6, BufferBehind
<1>7. ASSUME Sect(Cluster) # 0, ~(call.btr >= SectorSize),
             NEW items, Came(items, sect), Delivered(SubSeq(items, 1, call.btr), sect, items)
      PROVE  FatInv' /\ StreamStep /\ Sooner
  <2> DEFINE b == call.btr
  <2>1. Came(items, Here(p)) /\ sect = Here(p)
    BY <1>4, <1>7
  <2>2. b <= SectorSize /\ b <= b /\ b \in Nat \ {0}
    <3>1. b \in Nat \ {0} /\ ~(b >= SectorSize) /\ SectorSize \in Nat
      BY <1>3, <1>7
    <3> HIDE DEF b
    <3>. QED BY <3>1
  <2>3. Slice(items, p, b) = SubSeq(items, 1, b)
    <3> HIDE DEF b, p
    <3>. QED BY <1>3, <2>2, SliceStart
  <2>4. Delivered(Slice(items, p, b), sect, items)
    BY <1>7, <2>3
  <2>5. fil.fptr = p /\ b <= call.btr
    BY <2>2
  <2> HIDE DEF b, p, sect
  <2>. QED BY <1>1, <1>3, <1>4, <1>7, <2>1, <2>2, <2>4, <2>5, CameStep, Zenon
<1>. QED BY <1>1, <1>2, <1>5, <1>6, <1>7

\* A number of items that the sector and the call have room for.
LEMMA SmallerFacts ==
  ASSUME NEW a \in Nat, NEW b \in Nat
  PROVE  /\ Smaller(a, b) \in Nat /\ Smaller(a, b) <= a /\ Smaller(a, b) <= b
         /\ Smaller(a, b) = 0 => a = 0 \/ b = 0
BY DEF Smaller

\* In the middle of a sector: that of the item before.
LEMMA PlaceWithin ==
  ASSUME NEW c \in Card, NEW f \in DOMAIN Files[c], NEW p \in Nat, p % SectorSize # 0,
         p <= Len(Files[c][f])
  PROVE  /\ p - 1 \in Nat /\ p - 1 < Len(Files[c][f])
         /\ Place(c, f, p) = Place(c, f, p - 1) /\ Place(c, f, p) \in Nat \ {0}
         /\ Place(c, f, p) \in DOMAIN Disk[c]
<1>1. p # 0 /\ SectorSize \in Nat \ {0} /\ Len(Files[c][f]) \in Nat
  BY ZeroFacts, SectorAssumption, FileFacts
<1> DEFINE m == Len(Files[c][f])
           q == p - 1
<1>2. q \in Nat /\ q < m
  <2>1. p <= m /\ m \in Nat
    BY <1>1
  <2> HIDE DEF m
  <2>. QED BY <1>1, <2>1
<1>3. q \div SectorSize = p \div SectorSize
  <2>1. p \in Nat \ {0}
    BY <1>1
  <2>. QED BY <1>1, <2>1, Before
<1> HIDE DEF q
<1>4. Place(c, f, p) = Place(c, f, q)
  BY <1>2, <1>3, PlaceShared
<1>5. Place(c, f, q) \in DOMAIN Disk[c] /\ Place(c, f, q) \in Nat \ {0}
  BY <1>2, PlaceFacts
<1>. QED BY <1>2, <1>4, <1>5 DEF q

\* What the buffer of the file holds of it.
LEMMA BufferCopy ==
  ASSUME FatInv, FileOpen, ~fil.err, fil.fptr % SectorSize # 0
  PROVE  fil.dsect = Here(fil.fptr) /\ Copy(fil.buf, Here(fil.fptr))
<1> DEFINE p == fil.fptr
<1>1. /\ Behind(p) /\ fil.card \in Card /\ fil.name \in DOMAIN Files[fil.card] /\ p \in Nat
      /\ p <= Len(Files[fil.card][fil.name])
  BY OpenFacts DEF FatInv, BufferInv
<1>2. fil.dsect = Here(p)
  BY <1>1, Zenon DEF Behind
<1>3. Here(p) # NoSector
  <2>1. Place(fil.card, fil.name, p) \in Nat \ {0}
    <3>1. p % SectorSize # 0
      OBVIOUS
    <3> HIDE DEF p
    <3>. QED BY <1>1, <3>1, PlaceWithin
  <2>. QED BY <2>1 DEF Here, NoSector
<1>. QED BY <1>1, <1>2, <1>3, Zenon DEF Behind

\* The rest of a sector comes from it.
LEMMA BufferedStep ==
  ASSUME NEW p \in Nat, NEW n
  PROVE  /\ FatInv /\ ReadBuffer /\ fil.fptr = p
         /\ n = Smaller(SectorSize - (p % SectorSize), call.btr)
         => FatInv' /\ StreamStep /\ Sooner
<1>0. SUFFICES ASSUME /\ FatInv /\ ReadBuffer /\ fil.fptr = p
                      /\ n = Smaller(SectorSize - (p % SectorSize), call.btr)
               PROVE  FatInv' /\ StreamStep /\ Sooner
  OBVIOUS
<1> DEFINE o == p % SectorSize
           b == call.btr
           m == fil.fsize
<1>1. /\ call.at = "read" /\ o # 0 /\ UNCHANGED <<fs, sdVars>>
      /\ Delivered(Slice(fil.buf, p, n), fil.dsect, fil.buf)
  BY <1>0 DEF ReadBuffer, InCall, Offset, Buffered, Slice
<1>2. /\ FileOpen /\ ~fil.err /\ m \in Nat /\ b \in Nat \ {0} /\ p + b <= m
      /\ fil.dsect = Here(p) /\ Copy(fil.buf, Here(p))
      /\ fil.card \in Card /\ fil.name \in DOMAIN Files[fil.card] /\ fs.vol = Volume[fil.card]
  BY <1>0, <1>1, ReadFacts, BufferCopy, OpenFacts
<1>3. SectorSize \in Nat \ {0} /\ o \in 0 .. SectorSize - 1
  BY SectorAssumption, DivFacts
<1>4. n \in Nat \ {0} /\ n <= b /\ o + n <= SectorSize /\ p + n <= m
  <2>0. n = Smaller(SectorSize - o, b)
    BY <1>0
  <2> HIDE DEF o, b, m
  <2>1. SectorSize - o \in Nat \ {0} /\ b \in Nat \ {0}
    BY <1>2, <1>3
  <2>2. n \in Nat /\ n <= SectorSize - o /\ n <= b /\ n # 0
    BY <2>0, <2>1, SmallerFacts
  <2>. QED BY <1>2, <1>3, <2>2
<1>5. ~Unlinked
  <2>1. p > 0 => (p % Size = 0 => o = 0)
    <3>1. Size = Volume[fil.card].csize * SectorSize /\ Volume[fil.card].csize \in Nat \ {0}
      BY <1>2, Geometry DEF Size
    <3>. QED BY <1>3, <3>1, ClusterArith
  <2>2. Bcs = Size
    BY <1>2 DEF Bcs, Size
  <2>. QED BY <1>0, <1>1, <2>1, <2>2 DEF Unlinked
<1>6. Cluster = Chain[fil.card][fil.name][(p \div Size) + 1]
  BY <1>0, <1>1, <1>5, ClusterHere DEF Offset
<1>7. Held /\ fil'.dsect = fil.dsect /\ fil'.buf = fil.buf
  BY <1>0, <1>1, Zenon DEF Delivered, FatInv, FieldsInv, Held
<1>8. SocketInv' /\ (Lost' <=> Lost)
  BY <1>0, <1>1, <1>7, SocketStill DEF FatInv, Held
<1>9. fil.buf = Disk[fil.card][Here(p)] \/ (Lost' /\ Partly(fil.buf, fil.card, Here(p)))
  BY <1>2, <1>8 DEF Copy
<1>10. n \in Nat \ {0} /\ n <= call.btr /\ (p % SectorSize) + n <= SectorSize /\ p + n <= fil.fsize
  BY <1>4, Zenon
<1> HIDE DEF o, b, m
<1>11. /\ Slice(fil.buf, p, n) \in Seq(FileItems \cup {Junk}) /\ Len(Slice(fil.buf, p, n)) = n
       /\ Right(p, Slice(fil.buf, p, n))
  BY <1>0, <1>2, <1>9, <1>10, SliceRight, Zenon
<1>12. Behind(p + n)'
  <2>1. ASSUME NEW k \in Nat \ {0}, (p % SectorSize) + k <= SectorSize PROVE Behind(p + k)'
    <3>1. Copy(fil.buf, Here(p))'
      BY <1>7, <1>9 DEF Copy, Here, Held
    <3>. QED BY <1>2, <1>7, <2>1, <3>1, BehindPart, Zenon
  <2>. QED BY <1>10, <2>1, Zenon
<1>13. Begun(p)
  BY <1>1 DEF Begun, o
<1>. QED BY <1>0, <1>1, <1>6, <1>8, <1>10, <1>11, <1>12, <1>13, DeliveredStep, Zenon

\* f_read copies from the sector in its buffer.
LEMMA ReadBufferStep ==
  ASSUME FatInv, ReadBuffer
  PROVE  FatInv' /\ StreamStep /\ Sooner
<1>1. PICK p \in Nat : fil.fptr = p
  <2>1. fil.fptr \in Nat
    BY ReadFacts DEF ReadBuffer, InCall
  <2>. QED BY <2>1
<1>2. PICK n : n = Smaller(SectorSize - (p % SectorSize), call.btr)
  OBVIOUS
<1>. QED BY <1>1, <1>2, BufferedStep, Zenon

\* The link to the next cluster.
LEMMA NextLink ==
  ASSUME NEW p \in Nat \ {0}
  PROVE  /\ FatInv /\ FileOpen /\ p < fil.fsize /\ p % Size = 0 /\ Reached(p)
         => /\ fs.vol.fatbase + (fil.clust \div SectorSize) # NoSector
            /\ \A items :
                 \/ items = Disk[fil.card][fs.vol.fatbase + (fil.clust \div SectorSize)]
                 \/ Partly(items, fil.card, fs.vol.fatbase + (fil.clust \div SectorSize))
                 => \/ Link(items, fil.clust) = Chain[fil.card][fil.name][(p \div Size) + 1]
                    \/ Link(items, fil.clust) = Volume[fil.card].n_fatent
<1>1. SUFFICES ASSUME FatInv /\ FileOpen /\ p < fil.fsize /\ p % Size = 0 /\ Reached(p)
               PROVE  /\ fs.vol.fatbase + (fil.clust \div SectorSize) # NoSector
                      /\ \A items :
                           \/ items = Disk[fil.card][fs.vol.fatbase + (fil.clust \div SectorSize)]
                           \/ Partly(items, fil.card, fs.vol.fatbase + (fil.clust \div SectorSize))
                           => \/ Link(items, fil.clust) = Chain[fil.card][fil.name][(p \div Size) + 1]
                              \/ Link(items, fil.clust) = Volume[fil.card].n_fatent
  OBVIOUS
<1> DEFINE c == fil.card
           f == fil.name
           chain == Chain[c][f]
           j == p \div Size
<1>2. /\ c \in Card /\ f \in DOMAIN Files[c] /\ fil.fsize = Len(Files[c][f])
      /\ fs.vol = Volume[c]
  BY <1>1, OpenFacts
<1>3. Size = Volume[c].csize * SectorSize /\ Volume[c].csize \in Nat \ {0} /\ SectorSize \in Nat \ {0}
  BY <1>2, Geometry DEF Size
<1>4. ((p - 1) \div Size) + 1 = j
  <2>1. p > 0 /\ p \in Nat
    OBVIOUS
  <2> HIDE DEF c, f
  <2>. QED BY <1>1, <1>3, <2>1, ClusterArith
<1>5. j \in DOMAIN chain /\ j + 1 \in DOMAIN chain /\ fil.clust = chain[j]
  <2>1. p < Len(Files[c][f]) /\ p \in Nat
    BY <1>1, <1>2, Zenon
  <2>2. p - 1 < Len(Files[c][f]) /\ p - 1 \in Nat
    <3> DEFINE m == Len(Files[c][f])
    <3>1. m \in Nat
      BY <1>2, FileFacts
    <3>2. p < m
      BY <2>1
    <3> HIDE DEF m
    <3>3. p - 1 < m /\ p - 1 \in Nat
      BY <3>1, <3>2
    <3>. QED BY <3>3 DEF m
  <2>3. (p \div Size) + 1 \in DOMAIN chain
    <3> HIDE DEF c, f
    <3>. QED BY <1>2, <1>3, <2>1, PlaceFacts, Zenon
  <2>4. ((p - 1) \div Size) + 1 \in DOMAIN chain
    <3> HIDE DEF c, f
    <3>. QED BY <1>2, <1>3, <2>2, PlaceFacts, Zenon
  <2>5. fil.clust = chain[((p - 1) \div Size) + 1]
    <3>1. p > 0
      OBVIOUS
    <3>. QED BY <1>1, <3>1, Zenon DEF Reached
  <2>. QED BY <1>4, <2>3, <2>4, <2>5, Zenon
<1>6. j \in Nat /\ Len(chain) \in Nat /\ j < Len(chain)
  <2>1. chain \in Seq(Clusters(c))
    BY <1>2, ChainFacts
  <2>2. Len(chain) \in Nat /\ DOMAIN chain = 1 .. Len(chain)
    <3> HIDE DEF chain
    <3>. QED BY <2>1
  <2> HIDE DEF chain, j
  <2>. QED BY <1>5, <2>2
<1> HIDE DEF c, f, chain, j
<1>7. /\ fs.vol.fatbase + (chain[j] \div SectorSize) = FatSector(c, chain[j])
      /\ FatSector(c, chain[j]) # NoSector
      /\ \A items :
           items = Disk[c][FatSector(c, chain[j])] \/ Partly(items, c, FatSector(c, chain[j]))
             => \/ Link(items, chain[j]) = Volume[c].n_fatent
                \/ j < Len(chain) /\ Link(items, chain[j]) = chain[j + 1]
                \/ j = Len(chain) /\ Link(items, chain[j]) \notin Clusters(c)
  <2>0. PICK d, g, k : d = c /\ g = f /\ k = j
    OBVIOUS
  <2>1. d \in Card /\ g \in DOMAIN Files[d] \cup {Root} /\ k \in DOMAIN Chain[d][g]
    BY <1>2, <1>5, <2>0, Zenon DEF chain
  <2>2. fs.vol = Volume[d]
    BY <1>2, <2>0, Zenon
  <2>3. /\ fs.vol.fatbase + (Chain[d][g][k] \div SectorSize) = FatSector(d, Chain[d][g][k])
        /\ FatSector(d, Chain[d][g][k]) # NoSector
        /\ \A items :
             items = Disk[d][FatSector(d, Chain[d][g][k])] \/ Partly(items, d, FatSector(d, Chain[d][g][k]))
             => \/ Link(items, Chain[d][g][k]) = Volume[d].n_fatent
                \/ k < Len(Chain[d][g]) /\ Link(items, Chain[d][g][k]) = Chain[d][g][k + 1]
                \/ k = Len(Chain[d][g]) /\ Link(items, Chain[d][g][k]) \notin Clusters(d)
    BY <2>1, <2>2, LinkFacts
  <2>. QED BY <2>0, <2>3, Zenon DEF chain
<1>8. j # Len(chain)
  BY <1>6
<1>. QED BY <1>5, <1>7, <1>8, Zenon DEF c, f, chain, j

\* The sector of the chain is seen, or not.
LEMMA ReadLinkStep ==
  ASSUME FatInv, ReadLink
  PROVE  FatInv' /\ StreamStep
<1> DEFINE n == fs.vol.fatbase + (fil.clust \div SectorSize)
<1>1. /\ call.at = "read" /\ Unlinked
      /\ \/ Hidden(n) /\ Abort
         \/ \E items :
              /\ Shown(items, n)
              /\ call' = [call EXCEPT !.linked = TRUE]
              /\ fil' = [fil EXCEPT !.clust = Link(items, fil.clust)]
  BY Zenon DEF ReadLink, GetFat, MoveWindow, DiskRead, Shown, Hidden, Came, InCall
<1>2. /\ FileOpen /\ ~fil.err /\ fil.fptr \in Nat /\ fil.fptr <= fil.fsize /\ fil.fptr < fil.fsize
      /\ ToRead(fil.fptr, call.btr) /\ Behind(fil.fptr) /\ fil.card \in Card
      /\ fs.vol = Volume[fil.card] /\ Mounted
  BY <1>1, ReadFacts, OpenFacts DEF FatInv, ReadingInv
<1>3. CASE Hidden(n) /\ Abort
  <2>1. Held /\ (Mounted' => Mounted)
    BY <1>2, <1>3 DEF Abort, FatInv, FieldsInv, Held
  <2>2. SocketInv' /\ VolumeInv' /\ DOMAIN fs' = DOMAIN fs /\ (Lost' <=> Lost)
    BY <1>3, <2>1, HiddenFacts DEF FatInv
  <2>. QED BY <1>2, <1>3, <2>2, AbortStep
<1>4. ASSUME NEW items, Shown(items, n), call' = [call EXCEPT !.linked = TRUE],
             fil' = [fil EXCEPT !.clust = Link(items, fil.clust)]
      PROVE  FatInv' /\ StreamStep
  <2>1. /\ DOMAIN call' = DOMAIN call /\ call'.at = "read" /\ call'.linked = TRUE
        /\ call'.got = call.got /\ call'.btr = call.btr
    BY <1>1, <1>4 DEF FatInv, FieldsInv
  <2>2. /\ DOMAIN fil' = DOMAIN fil /\ Held /\ fil'.err = fil.err /\ fil'.fsize = fil.fsize
        /\ fil'.sclust = fil.sclust /\ fil'.fptr = fil.fptr /\ fil'.dsect = fil.dsect
        /\ fil'.buf = fil.buf /\ fil'.clust = Link(items, fil.clust)
    BY <1>4, Zenon DEF FatInv, FieldsInv, Held
  <2>3. FileOpen' /\ Mounted' /\ OpenInv' /\ DirectoryInv' /\ FileInv' /\ Text' = Text
    <3>1. call'.at \in {"read", "seek", "none"} /\ fil'.fptr \in Nat /\ fil'.fptr <= fil.fsize
      BY <1>2, <2>1, <2>2, Zenon
    <3>. QED BY <1>2, <2>2, <3>1, StillOpen
  <2>4. /\ SocketInv' /\ VolumeInv' /\ DOMAIN fs' = DOMAIN fs /\ (Lost => Lost')
        /\ n # NoSector => items = Disk[fil.card][n] \/ Partly(items, fil.card, n)
    BY <1>2, <1>4, <2>2, <2>3, ShownFacts DEF FatInv
  <2>5. FieldsInv'
    <3>1. fil'.err \in BOOLEAN /\ call'.linked \in BOOLEAN
      BY <2>1, <2>2 DEF FatInv, FieldsInv
    <3>. QED BY <2>1, <2>2, <2>4, <3>1 DEF FatInv, FieldsInv
  <2>6. Size' = Size
    BY <2>2 DEF Size, Held
  <2>7. Ahead(fil.fptr)'
    <3> DEFINE p == fil.fptr
    <3>1. /\ p > 0 /\ p % Size = 0 /\ Reached(p)
      <4>1. p > 0 /\ p % Bcs = 0 /\ ~call.linked
        BY <1>1 DEF Unlinked
      <4>2. Bcs = Size
        BY <1>2 DEF Bcs, Size
      <4>3. Reached(p)
        BY <1>1, <1>2, <4>1 DEF FatInv, ClusterInv
      <4>. QED BY <4>1, <4>2, <4>3
    <3>2. p \in Nat \ {0}
      <4>1. p \in Nat /\ p > 0
        BY <1>2, <3>1
      <4> HIDE DEF p
      <4>. QED BY <4>1
    <3>3. /\ n # NoSector
          /\ items = Disk[fil.card][n] \/ Partly(items, fil.card, n)
               => \/ Link(items, fil.clust) = Chain[fil.card][fil.name][(p \div Size) + 1]
                  \/ Link(items, fil.clust) = Volume[fil.card].n_fatent
      <4>1. p < fil.fsize
        BY <1>2
      <4> HIDE DEF p
      <4>. QED BY <1>2, <3>1, <3>2, <4>1, NextLink, Zenon
    <3>4. \/ Link(items, fil.clust) = Chain[fil.card][fil.name][(p \div Size) + 1]
          \/ Link(items, fil.clust) = Volume[fil.card].n_fatent
      BY <2>4, <3>3
    <3>. QED BY <2>2, <2>6, <3>1, <3>4, Zenon DEF Ahead, Held
  <2>8. ClusterInv'
    BY <2>1, <2>7 DEF ClusterInv
  <2>9. BufferInv'
    <3>1. ASSUME NEW p, p = fil.fptr PROVE Behind(p)'
      BY <1>2, <2>2, <2>4, <3>1, BehindStill
    <3>2. Behind(fil.fptr)'
      <4>1. PICK p : p = fil.fptr
        OBVIOUS
      <4>2. Behind(p)'
        BY <3>1, <4>1
      <4>3. p = fil'.fptr
        BY <2>2, <4>1
      <4>. QED BY <4>2, <4>3, Zenon DEF Behind
    <3>. QED BY <3>2 DEF BufferInv
  <2>10. ReadingInv'
    BY <1>2, <2>1, <2>2, Zenon DEF ReadingInv, ToRead
  <2>11. SeekingInv' /\ GotInv'
    BY <2>1 DEF FatInv, SeekingInv, GotInv
  <2>12. StreamStep
    BY <2>1, <2>2, <2>3, <2>4, LoseStep
  <2>. QED BY <2>3, <2>4, <2>5, <2>8, <2>9, <2>10, <2>11, <2>12, Zenon DEF FatInv
<1>. QED BY <1>1, <1>3, <1>4

\* The first state of a call.
LEMMA IdleFacts ==
  /\ DOMAIN Idle = {"at", "res", "got", "btr", "name", "todo", "clust", "idx", "linked"}
  /\ Idle.at = "none" /\ Idle.got = <<>> /\ Idle.linked = FALSE
BY DEF Idle

\* A read that the buffer can serve.
LEMMA ServedStep ==
  ASSUME NEW p \in Nat, NEW n \in Nat \ {0}
  PROVE  /\ FatInv /\ FileOpen /\ ~fil.err /\ call.at = "none" /\ fil.fptr = p
         /\ p % SectorSize # 0 /\ (p % SectorSize) + n <= SectorSize /\ p + n <= fil.fsize
         /\ call' = [Idle EXCEPT !.got = Slice(fil.buf, p, n)]
         /\ fil' = [fil EXCEPT !.fptr = p + n] /\ UNCHANGED <<fs, sdVars>>
         => FatInv' /\ StreamStep
<1>1. SUFFICES ASSUME /\ FatInv /\ FileOpen /\ ~fil.err /\ call.at = "none" /\ fil.fptr = p
                      /\ p % SectorSize # 0 /\ (p % SectorSize) + n <= SectorSize /\ p + n <= fil.fsize
                      /\ call' = [Idle EXCEPT !.got = Slice(fil.buf, p, n)]
                      /\ fil' = [fil EXCEPT !.fptr = p + n] /\ UNCHANGED <<fs, sdVars>>
               PROVE  FatInv' /\ StreamStep
  OBVIOUS
<1> DEFINE s == Slice(fil.buf, p, n)
<1>2. /\ fil.card \in Card /\ fil.name \in DOMAIN Files[fil.card] /\ fs.vol = Volume[fil.card]
      /\ fil.dsect = Here(p) /\ Copy(fil.buf, Here(p))
  BY <1>1, BufferCopy, OpenFacts
<1>3. /\ DOMAIN fil' = DOMAIN fil /\ Held /\ fil'.err = fil.err /\ fil'.fsize = fil.fsize
      /\ fil'.sclust = fil.sclust /\ fil'.fptr = p + n /\ fil'.dsect = fil.dsect
      /\ fil'.buf = fil.buf /\ fil'.clust = fil.clust
  BY <1>1, Zenon DEF FatInv, FieldsInv, Held
<1>4. /\ DOMAIN call' = {"at", "res", "got", "btr", "name", "todo", "clust", "idx", "linked"}
      /\ call'.at = "none" /\ call'.got = s /\ call'.linked = FALSE
  BY <1>1, IdleFacts
<1>5. FieldsInv'
  BY <1>1, <1>3, <1>4 DEF FatInv, FieldsInv
<1>6. SocketInv' /\ (Lost' <=> Lost)
  BY <1>1, <1>3, SocketStill DEF FatInv, Held
<1>7. fil.buf = Disk[fil.card][Here(p)] \/ (Lost' /\ Partly(fil.buf, fil.card, Here(p)))
  BY <1>2, <1>6 DEF Copy
<1>8. s \in Seq(FileItems \cup {Junk}) /\ Len(s) = n /\ Right(p, s)
  BY <1>1, <1>7, SliceRight, Zenon
<1>9. Behind(p + n)'
  <2>1. Copy(fil.buf, Here(p))'
    BY <1>3, <1>7 DEF Copy, Here, Held
  <2>. QED BY <1>1, <1>2, <1>3, <2>1, BehindPart, Zenon
<1>10. fil'.clust = Chain[fil.card][fil.name][(p \div Size) + 1]
  <2>1. /\ Size = Volume[fil.card].csize * SectorSize /\ Volume[fil.card].csize \in Nat \ {0}
        /\ SectorSize \in Nat \ {0}
    BY <1>2, Geometry DEF Size
  <2>2. p > 0
    BY <1>1, ZeroFacts
  <2>3. (p - 1) \div Size = p \div Size
    <3>1. p % SectorSize # 0
      BY <1>1
    <3>. QED BY <2>1, <2>2, <3>1, ClusterArith
  <2>4. Reached(p)
    BY <1>1 DEF FatInv, ClusterInv
  <2>. QED BY <1>3, <2>2, <2>3, <2>4 DEF Reached
<1>11. call'.got = <<>> \o s
  <2> HIDE DEF s
  <2>1. s = <<>> \o s
    BY <1>8
  <2>. QED BY <1>4, <2>1
<1>12. ~fil'.err /\ ~call'.linked /\ call'.at = "none" /\ <<>> \in {call.got, <<>>} /\ Begun(p)
  BY <1>1, <1>3, <1>4 DEF Begun
<1> HIDE DEF s
<1>. QED BY <1>1, <1>3, <1>5, <1>6, <1>8, <1>9, <1>10, <1>11, <1>12, ReturnedStep, Zenon

\* f_read is called.
LEMMA StartReadStep ==
  ASSUME FatInv, call.at = "none", NEW n \in Nat \ {0}, StartRead(n)
  PROVE  FatInv' /\ StreamStep
<1> DEFINE p == fil.fptr
           m == fil.fsize
           b == Smaller(n, m - p)
<1>1. /\ UNCHANGED <<fs, sdVars>>
      /\ \/ call' = [Idle EXCEPT !.res = "ERR"] /\ UNCHANGED fil
         \/ call' = Idle /\ UNCHANGED fil
         \/ /\ ~Invalid /\ b # 0 /\ Offset # 0 /\ Offset + b <= SectorSize
            /\ call' = [Idle EXCEPT !.got = Buffered(b)]
            /\ fil' = [fil EXCEPT !.fptr = p + b]
         \/ /\ ~Invalid /\ b # 0
            /\ call' = [Idle EXCEPT !.at = "read", !.btr = b] /\ UNCHANGED fil
  BY Zenon DEF StartRead
<1>2. ASSUME call' \in {[Idle EXCEPT !.res = "ERR"], Idle}, UNCHANGED fil
      PROVE  FatInv' /\ StreamStep
  <2>1. /\ DOMAIN call' = {"at", "res", "got", "btr", "name", "todo", "clust", "idx", "linked"}
        /\ call'.at = "none" /\ call'.got = <<>> /\ call'.linked = FALSE
    BY <1>2, IdleFacts
  <2>2. FieldsInv'
    BY <1>1, <1>2, <2>1 DEF FatInv, FieldsInv
  <2>. QED BY <1>1, <1>2, <2>1, <2>2, BeginStep DEF SameFile, Held
<1>3. ASSUME b # 0 PROVE FileOpen
  <2>1. ASSUME ~FileOpen PROVE p = 0 /\ m = 0
    BY <2>1 DEF FatInv, OpenInv, FileOpen
  <2>2. ASSUME p = 0, m = 0 PROVE b = 0
    <3> HIDE DEF p, m
    <3>. QED BY <2>2 DEF Smaller
  <2>. QED BY <1>3, <2>1, <2>2
<1>4. ASSUME b # 0 PROVE b \in Nat \ {0} /\ p + b <= m /\ p \in Nat
  <2>1. p \in Nat /\ m \in Nat /\ p <= m
    BY <1>3, <1>4, OpenFacts
  <2> HIDE DEF p, m
  <2>2. m - p \in Nat
    BY <2>1
  <2>3. b \in Nat /\ b <= m - p
    BY <2>2, SmallerFacts
  <2> HIDE DEF b
  <2>. QED BY <1>4, <2>1, <2>3
<1>5. ~Invalid => ~fil.err
  BY DEF Invalid
<1>6. ASSUME ~Invalid, b # 0, Offset # 0, Offset + b <= SectorSize,
             call' = [Idle EXCEPT !.got = Buffered(b)], fil' = [fil EXCEPT !.fptr = p + b]
      PROVE  FatInv' /\ StreamStep
  <2>1. PICK k, q : k = b /\ q = p
    OBVIOUS
  <2>2. k \in Nat \ {0} /\ q \in Nat /\ q + k <= fil.fsize /\ fil.fptr = q
    BY <1>4, <1>6, <2>1, Zenon
  <2>3. q % SectorSize # 0 /\ (q % SectorSize) + k <= SectorSize
    BY <1>6, <2>1, Zenon DEF Offset
  <2>4. call' = [Idle EXCEPT !.got = Slice(fil.buf, q, k)] /\ fil' = [fil EXCEPT !.fptr = q + k]
    BY <1>6, <2>1, Zenon DEF Buffered, Slice, Offset
  <2> HIDE DEF p, b
  <2>. QED BY <1>1, <1>3, <1>5, <1>6, <2>1, <2>2, <2>3, <2>4, ServedStep, Zenon
<1>7. ASSUME ~Invalid, b # 0, call' = [Idle EXCEPT !.at = "read", !.btr = b], UNCHANGED fil
      PROVE  FatInv' /\ StreamStep
  <2> HIDE DEF b
  <2>1. /\ DOMAIN call' = {"at", "res", "got", "btr", "name", "todo", "clust", "idx", "linked"}
        /\ call'.at = "read" /\ call'.got = <<>> /\ call'.linked = FALSE /\ call'.btr = b
    BY <1>7, IdleFacts
  <2>2. FieldsInv'
    BY <1>1, <1>7, <2>1 DEF FatInv, FieldsInv
  <2>3. ToRead(fil.fptr, call'.btr) /\ FileOpen /\ ~fil.err
    BY <1>3, <1>4, <1>5, <1>7, <2>1, Zenon DEF ToRead
  <2>. QED BY <1>1, <1>7, <2>1, <2>2, <2>3, BeginStep DEF SameFile, Held
<1> HIDE DEF b, p, m
<1>. QED BY <1>1, <1>2, <1>6, <1>7

-----------------------------------------------------------------------------
(* f_lseek.                                                                *)

\* It starts at the cluster reached, or at the first.
LEMMA SeekStarts ==
  ASSUME NEW p \in Nat, NEW o \in Nat \ {0}, NEW a \in Nat, NEW b
  PROVE  /\ FatInv /\ FileOpen /\ ~fil.err /\ call.at = "none" /\ UNCHANGED <<fs, sdVars>>
         /\ fil.fptr = p /\ p <= o /\ o <= fil.fsize
         /\ p = 0 => a = 0
         /\ p > 0 => a = (p - 1) \div Size \/ a = 0
         /\ b = Size * a
         /\ call' = [Idle EXCEPT !.at = "seek", !.idx = b, !.btr = o - b]
         /\ \/ a = 0 /\ fil' = [fil EXCEPT !.clust = fil.sclust]
            \/ p > 0 /\ a = (p - 1) \div Size /\ fil' = [fil EXCEPT !.clust = fil.clust]
         => FatInv' /\ StreamStep
<1>1. SUFFICES ASSUME /\ FatInv /\ FileOpen /\ ~fil.err /\ call.at = "none" /\ UNCHANGED <<fs, sdVars>>
                      /\ fil.fptr = p /\ p <= o /\ o <= fil.fsize
                      /\ p = 0 => a = 0
                      /\ p > 0 => a = (p - 1) \div Size \/ a = 0
                      /\ b = Size * a
                      /\ call' = [Idle EXCEPT !.at = "seek", !.idx = b, !.btr = o - b]
                      /\ \/ a = 0 /\ fil' = [fil EXCEPT !.clust = fil.sclust]
                         \/ p > 0 /\ a = (p - 1) \div Size /\ fil' = [fil EXCEPT !.clust = fil.clust]
               PROVE  FatInv' /\ StreamStep
  OBVIOUS
<1>2. /\ fil.card \in Card /\ fs.vol = Volume[fil.card] /\ Mounted /\ fil.fsize \in Nat
      /\ fil.fsize > 0 => fil.sclust = Chain[fil.card][fil.name][1]
  BY <1>1, OpenFacts
<1>3. Size \in Nat \ {0}
  BY <1>2, Geometry DEF Size
<1>4. b \in Nat /\ o - b \in Nat \ {0} /\ b + (o - b) = o
  <2> DEFINE d == Size
             q == p - 1
             k == q \div d
  <2>1. d \in Nat \ {0} /\ b = d * a /\ p <= o /\ (p = 0 => a = 0) /\ (p > 0 => a = k \/ a = 0)
    BY <1>1, <1>3
  <2> HIDE DEF d
  <2>2. ASSUME p > 0 PROVE d * k <= q /\ q \in Nat /\ k \in Nat
    <3>1. q \in Nat
      BY <2>2
    <3> HIDE DEF q
    <3>2. k \in Nat /\ q % d \in 0 .. d - 1 /\ q = d * k + (q % d)
      BY <2>1, <3>1, DivFacts
    <3> DEFINE r == q % d
    <3> HIDE DEF k, r
    <3>3. d * k \in Nat /\ r \in Nat /\ q = d * k + r
      BY <2>1, <3>2 DEF r
    <3>. QED BY <3>1, <3>2, <3>3
  <2>3. d * 0 = 0
    BY <2>1
  <2> HIDE DEF k
  <2>4. b \in Nat /\ b < o
    <3>1. CASE a = 0
      BY <2>1, <2>3, <3>1
    <3>2. CASE a # 0
      <4>1. p > 0 /\ a = k
        BY <2>1, <3>2
      <4>2. b = d * k /\ d * k \in Nat
        <5>1. k \in Nat
          BY <2>2, <4>1
        <5>. QED BY <2>1, <4>1, <5>1
      <4>3. b <= p - 1
        BY <2>2, <4>1, <4>2
      <4>. QED BY <2>1, <4>2, <4>3
    <3>. QED BY <3>1, <3>2
  <2>. QED BY <2>4
<1>5. /\ DOMAIN fil' = DOMAIN fil /\ Held /\ fil'.err = fil.err /\ fil'.fsize = fil.fsize
      /\ fil'.sclust = fil.sclust /\ fil'.fptr = fil.fptr /\ fil'.dsect = fil.dsect
      /\ fil'.buf = fil.buf
      /\ \/ a = 0 /\ fil'.clust = fil.sclust
         \/ p > 0 /\ a = (p - 1) \div Size /\ fil'.clust = fil.clust
  BY <1>1, Zenon DEF FatInv, FieldsInv, Held
<1>6. /\ DOMAIN call' = {"at", "res", "got", "btr", "name", "todo", "clust", "idx", "linked"}
      /\ call'.at = "seek" /\ call'.got = <<>> /\ call'.linked = FALSE
      /\ call'.idx = b /\ call'.btr = o - b
  BY <1>1, IdleFacts
<1>7. FieldsInv'
  BY <1>1, <1>5, <1>6 DEF FatInv, FieldsInv
<1>8. SocketInv' /\ (Lost' <=> Lost)
  BY <1>1, <1>5, SocketStill DEF FatInv, Held
<1>9. VolumeInv'
  BY <1>1, <1>2, <1>5, <1>8, VolumeStill DEF FatInv
<1>10. FileOpen' /\ Mounted' /\ OpenInv' /\ DirectoryInv' /\ FileInv' /\ Text' = Text
  <2>1. fil'.fptr \in Nat /\ fil'.fptr <= fil.fsize
    BY <1>1, <1>5, OpenFacts
  <2>. QED BY <1>1, <1>5, <1>6, <2>1, StillOpen
<1>11. ClusterInv' /\ ReadingInv' /\ GotInv'
  BY <1>6 DEF ClusterInv, ReadingInv, GotInv
<1>12. BufferInv'
  <2>1. Behind(p)
    BY <1>1 DEF FatInv, BufferInv
  <2>2. Behind(p)'
    BY <1>5, <1>8, <2>1, BehindStill
  <2>. QED BY <1>1, <1>5, <2>2 DEF BufferInv
<1>13. SeekingInv'
  <2>1. fil.fsize > 0
    <3> DEFINE m == fil.fsize
    <3>1. o <= m /\ m \in Nat
      BY <1>1, <1>2
    <3> HIDE DEF m
    <3>2. m > 0
      BY <3>1
    <3>. QED BY <3>2 DEF m
  <2>2. fil'.clust = Chain[fil.card][fil.name][a + 1]
    <3>1. CASE a = 0 /\ fil'.clust = fil.sclust
      BY <1>2, <2>1, <3>1
    <3>2. CASE p > 0 /\ a = (p - 1) \div Size /\ fil'.clust = fil.clust
      <4>1. Reached(p)
        BY <1>1 DEF FatInv, ClusterInv
      <4>. QED BY <3>2, <4>1, Zenon DEF Reached
    <3>. QED BY <1>5, <3>1, <3>2
  <2>3. Size' = Size /\ fil'.card = fil.card /\ fil'.name = fil.name
    BY <1>5 DEF Size, Held
  <2>4. Seeks(a, o - b)'
    <3>1. (o - b) \in Nat \ {0} /\ Size * a + (o - b) = o
      BY <1>1, <1>4, Zenon
    <3>. QED BY <1>1, <1>5, <2>2, <2>3, <3>1, Zenon DEF Seeks
  <2>. QED BY <1>1, <1>5, <1>6, <2>3, <2>4, Zenon DEF SeekingInv
<1>14. StreamStep
  <2>1. Stream!Begin
    BY <1>5, <1>6, <1>8, <1>10, Zenon DEF Stream!Begin, Lost
  <2>. QED BY <2>1 DEF StreamStep, Stream!Next
<1>. QED BY <1>7, <1>8, <1>9, <1>10, <1>11, <1>12, <1>13, <1>14 DEF FatInv

\* f_lseek is called to go forward.
LEMMA StartSeekStep ==
  ASSUME FatInv, call.at = "none", NEW n \in Nat, fil.fptr <= n, StartSeek(n)
  PROVE  FatInv' /\ StreamStep
<1> DEFINE p == fil.fptr
           o == Smaller(n, fil.fsize)
           b == IF Onward(o) THEN Bcs * ((p - 1) \div Bcs) ELSE 0
<1>1. /\ UNCHANGED <<fs, sdVars>>
      /\ \/ call' = [Idle EXCEPT !.res = "ERR"] /\ UNCHANGED fil
         \/ o = 0 /\ call' = Idle /\ fil' = [fil EXCEPT !.fptr = 0]
         \/ /\ ~Invalid /\ o # 0
            /\ call' = [Idle EXCEPT !.at = "seek", !.idx = b, !.btr = o - b]
            /\ fil' = [fil EXCEPT !.clust = IF Onward(o) THEN @ ELSE fil.sclust]
  BY Zenon DEF StartSeek
<1>2. p \in Nat /\ fil.fsize \in Nat /\ p <= fil.fsize
  <2>1. CASE FileOpen
    BY <2>1, OpenFacts
  <2>2. CASE ~FileOpen
    <3>1. p = 0 /\ fil.fsize = 0
      BY <2>2 DEF FatInv, OpenInv, FileOpen
    <3>. QED BY <3>1
  <2>. QED BY <2>1, <2>2
<1>3. o \in Nat /\ o <= fil.fsize /\ p <= o
  <2> DEFINE m == fil.fsize
  <2>1. p \in Nat /\ m \in Nat /\ p <= m /\ p <= n
    BY <1>2
  <2>0. o = Smaller(n, m)
    OBVIOUS
  <2> HIDE DEF m, p, o
  <2>2. o \in Nat /\ o <= m /\ p <= o
    BY <2>0, <2>1 DEF Smaller
  <2>. QED BY <2>2 DEF m
<1>4. ASSUME call' \in {[Idle EXCEPT !.res = "ERR"], Idle}, SameFile
      PROVE  FatInv' /\ StreamStep
  <2>1. /\ DOMAIN call' = {"at", "res", "got", "btr", "name", "todo", "clust", "idx", "linked"}
        /\ call'.at = "none" /\ call'.got = <<>> /\ call'.linked = FALSE
    BY <1>4, IdleFacts
  <2>2. FieldsInv'
    BY <1>1, <1>4, <2>1 DEF FatInv, FieldsInv, SameFile
  <2>. QED BY <1>1, <1>4, <2>1, <2>2, BeginStep
<1>5. CASE call' = [Idle EXCEPT !.res = "ERR"] /\ UNCHANGED fil
  BY <1>4, <1>5 DEF SameFile, Held
<1>6. CASE o = 0 /\ call' = Idle /\ fil' = [fil EXCEPT !.fptr = 0]
  <2>1. p = 0
    <3>1. p \in Nat /\ p <= o /\ o = 0
      BY <1>2, <1>3, <1>6
    <3> HIDE DEF p, o
    <3>. QED BY <3>1
  <2>2. SameFile
    BY <1>6, <2>1, Zenon DEF FatInv, FieldsInv, SameFile, Held
  <2>. QED BY <1>4, <1>6, <2>2
<1>7. ASSUME ~Invalid, o # 0, call' = [Idle EXCEPT !.at = "seek", !.idx = b, !.btr = o - b],
             fil' = [fil EXCEPT !.clust = IF Onward(o) THEN @ ELSE fil.sclust]
      PROVE  FatInv' /\ StreamStep
  <2>1. FileOpen /\ ~fil.err
    <3>1. ASSUME ~FileOpen PROVE fil.fsize = 0
      BY <3>1 DEF FatInv, OpenInv, FileOpen
    <3>2. fil.fsize # 0
      <4> DEFINE m == fil.fsize
      <4>1. o \in Nat /\ o <= m /\ o # 0 /\ m \in Nat
        BY <1>2, <1>3, <1>7
      <4> HIDE DEF m, o
      <4>2. m # 0
        BY <4>1
      <4>. QED BY <4>2 DEF m
    <3>. QED BY <1>7, <3>1, <3>2 DEF Invalid
  <2>2. Bcs = Size /\ Size \in Nat \ {0}
    <3>1. fil.card \in Card /\ fs.vol = Volume[fil.card]
      BY <2>1, OpenFacts
    <3>. QED BY <3>1, Geometry DEF Bcs, Size
  <2>3. PICK q, k, a, d : q = p /\ k = o /\ a = (IF Onward(o) THEN (p - 1) \div Size ELSE 0) /\ d = b
    OBVIOUS
  <2>4. q \in Nat /\ k \in Nat \ {0} /\ fil.fptr = q /\ q <= k /\ k <= fil.fsize
    BY <1>2, <1>3, <1>7, <2>3, Zenon
  <2>5. CASE Onward(o)
    <3>1. p > 0 /\ b = Size * ((p - 1) \div Size)
      BY <2>2, <2>5 DEF Onward
    <3>2. q > 0 /\ a = (q - 1) \div Size /\ d = Size * a
      BY <2>3, <2>5, <3>1, Zenon
    <3>3. a \in Nat
      <4>1. q - 1 \in Nat
        BY <2>4, <3>2
      <4>. QED BY <2>2, <3>2, <4>1, DivFacts, Zenon
    <3>4. fil' = [fil EXCEPT !.clust = fil.clust] /\ call' = [Idle EXCEPT !.at = "seek", !.idx = d, !.btr = k - d]
      BY <1>7, <2>3, <2>5, Zenon
    <3>5. (q = 0 => a = 0) /\ (q > 0 => a = (q - 1) \div Size \/ a = 0)
      BY <2>4, <3>2
    <3> HIDE DEF p, o, b
    <3>. QED BY <1>1, <2>1, <2>4, <3>2, <3>3, <3>4, <3>5, SeekStarts, Zenon
  <2>6. CASE ~Onward(o)
    <3>1. a = 0 /\ d = 0
      BY <2>3, <2>6, Zenon
    <3>2. d = Size * a /\ a \in Nat
      BY <2>2, <3>1
    <3>3. fil' = [fil EXCEPT !.clust = fil.sclust] /\ call' = [Idle EXCEPT !.at = "seek", !.idx = d, !.btr = k - d]
      BY <1>7, <2>3, <2>6, Zenon
    <3> HIDE DEF p, o, b
    <3>. QED BY <1>1, <2>1, <2>4, <3>1, <3>2, <3>3, SeekStarts, Zenon
  <2>. QED BY <2>5, <2>6
<1> HIDE DEF p, o, b
<1>. QED BY <1>1, <1>5, <1>6, <1>7

\* Where the seek is.
LEMMA SeekFacts ==
  ASSUME FatInv, call.at = "seek"
  PROVE  /\ FileOpen /\ ~fil.err /\ call.got = <<>> /\ Behind(fil.fptr)
         /\ fil.card \in Card /\ fil.name \in DOMAIN Files[fil.card] /\ fs.vol = Volume[fil.card]
         /\ fil.fsize \in Nat /\ fil.fsize = Len(Files[fil.card][fil.name]) /\ fil.fptr \in Nat
         /\ Mounted /\ Text = Files[fil.card][fil.name]
         /\ Size \in Nat \ {0} /\ Bcs = Size
         /\ \E a \in Nat : call.idx = Size * a /\ Seeks(a, call.btr)
<1>1. FileOpen /\ ~fil.err
  BY BusyFacts
<1>2. /\ fil.card \in Card /\ fil.name \in DOMAIN Files[fil.card] /\ fs.vol = Volume[fil.card]
      /\ fil.fsize \in Nat /\ fil.fsize = Len(Files[fil.card][fil.name]) /\ fil.fptr \in Nat
      /\ Mounted /\ Text = Files[fil.card][fil.name]
  BY <1>1, OpenFacts
<1>3. Size \in Nat \ {0} /\ Bcs = Size
  BY <1>2, Geometry DEF Size, Bcs
<1>4. call.got = <<>> /\ \E a \in Nat : call.idx = Size * a /\ Seeks(a, call.btr)
  BY Zenon DEF FatInv, SeekingInv
<1>5. Behind(fil.fptr)
  BY <1>1 DEF FatInv, BufferInv
<1>. QED BY <1>1, <1>2, <1>3, <1>4, <1>5

\* One cluster further.
LEMMA SeekArith ==
  ASSUME NEW d \in Nat \ {0}, NEW a \in Nat, NEW b \in Nat, b > d
  PROVE  /\ d * a + d \in Nat \ {0} /\ d * a + d = d * (a + 1) /\ b - d \in Nat \ {0}
         /\ (d * a + d) % d = 0 /\ (d * a + d) \div d = a + 1
         /\ ((d * a + d) - 1) \div d = a
         /\ (d * a + d) + (b - d) = d * a + b
         /\ d * a + d < d * a + b /\ d * a + b \in Nat
<1>1. d * a \in Nat /\ d * a + d = d * (a + 1) + 0 /\ a + 1 \in Nat
  OBVIOUS
<1>2. (d * (a + 1) + 0) % d = 0 /\ (d * (a + 1) + 0) \div d = a + 1
  BY <1>1, DivUnique
<1>3. (d * a + (d - 1)) \div d = a
  BY DivUnique
<1> DEFINE e == d * a
<1>4. e \in Nat /\ (e + (d - 1)) \div d = a
  BY <1>1, <1>3
<1>5. e + d \in Nat \ {0} /\ e + d = d * (a + 1) /\ (e + d) % d = 0 /\ (e + d) \div d = a + 1
  BY <1>1, <1>2
<1> HIDE DEF e
<1>6. (e + d) - 1 = e + (d - 1)
  BY <1>4
<1>7. ((e + d) - 1) \div d = a
  BY <1>4, <1>6
<1>8. b - d \in Nat \ {0} /\ (e + d) + (b - d) = e + b /\ e + d < e + b /\ e + b \in Nat
  BY <1>4
<1>. QED BY <1>5, <1>7, <1>8 DEF e

\* f_lseek follows a link.
LEMMA SeekLinkStep ==
  ASSUME FatInv, SeekLink
  PROVE  FatInv' /\ StreamStep
<1> DEFINE n == fs.vol.fatbase + (fil.clust \div SectorSize)
<1>1. /\ call.at = "seek" /\ call.btr > Bcs
      /\ \/ Hidden(n) /\ Abort
         \/ \E items :
              /\ Shown(items, n)
              /\ \/ Abort
                 \/ /\ Sect(Link(items, fil.clust)) # 0
                    /\ call' = [call EXCEPT !.idx = @ + Bcs, !.btr = @ - Bcs]
                    /\ fil' = [fil EXCEPT !.clust = Link(items, fil.clust)]
  BY Zenon DEF SeekLink, GetFat, MoveWindow, DiskRead, Shown, Hidden, Came, InCall
<1>2. /\ FileOpen /\ ~fil.err /\ call.got = <<>> /\ Behind(fil.fptr)
      /\ fil.card \in Card /\ fil.name \in DOMAIN Files[fil.card] /\ fs.vol = Volume[fil.card]
      /\ fil.fsize \in Nat /\ Mounted /\ fil.fptr \in Nat
      /\ Size \in Nat \ {0} /\ Bcs = Size
  BY <1>1, SeekFacts
<1>3. PICK a \in Nat : call.idx = Size * a /\ Seeks(a, call.btr)
  BY <1>1, SeekFacts
<1>4. CASE Hidden(n) /\ Abort
  <2>1. Held /\ (Mounted' => Mounted)
    BY <1>2, <1>4 DEF Abort, FatInv, FieldsInv, Held
  <2>2. SocketInv' /\ VolumeInv' /\ DOMAIN fs' = DOMAIN fs /\ (Lost' <=> Lost)
    BY <1>4, <2>1, HiddenFacts DEF FatInv
  <2>. QED BY <1>2, <1>4, <2>2, AbortStep
<1>5. ASSUME NEW items, Shown(items, n), Abort
      PROVE  FatInv' /\ StreamStep
  <2>1. Held
    BY <1>5 DEF Abort, FatInv, FieldsInv, Held
  <2>2. Mounted'
    BY <1>2, <2>1 DEF Mounted, FileOpen, Held
  <2>3. SocketInv' /\ VolumeInv' /\ DOMAIN fs' = DOMAIN fs /\ (Lost => Lost')
    BY <1>2, <1>5, <2>1, <2>2, ShownFacts DEF FatInv
  <2>. QED BY <1>2, <1>5, <2>3, AbortStep
<1>6. ASSUME NEW items, Shown(items, n), Sect(Link(items, fil.clust)) # 0,
             call' = [call EXCEPT !.idx = @ + Bcs, !.btr = @ - Bcs],
             fil' = [fil EXCEPT !.clust = Link(items, fil.clust)]
      PROVE  FatInv' /\ StreamStep
  <2>1. /\ DOMAIN call' = DOMAIN call /\ call'.at = "seek" /\ call'.linked = call.linked
        /\ call'.got = call.got /\ call'.idx = call.idx + Size /\ call'.btr = call.btr - Size
    BY <1>1, <1>2, <1>6, Zenon DEF FatInv, FieldsInv
  <2>2. /\ DOMAIN fil' = DOMAIN fil /\ Held /\ fil'.err = fil.err /\ fil'.fsize = fil.fsize
        /\ fil'.sclust = fil.sclust /\ fil'.fptr = fil.fptr /\ fil'.dsect = fil.dsect
        /\ fil'.buf = fil.buf /\ fil'.clust = Link(items, fil.clust)
    BY <1>6, Zenon DEF FatInv, FieldsInv, Held
  <2>3. FileOpen' /\ Mounted' /\ OpenInv' /\ DirectoryInv' /\ FileInv' /\ Text' = Text
    <3>1. call'.at \in {"read", "seek", "none"} /\ fil'.fptr \in Nat /\ fil'.fptr <= fil.fsize
      BY <1>2, <2>1, <2>2, OpenFacts, Zenon
    <3>. QED BY <1>2, <2>2, <3>1, StillOpen
  <2>4. /\ SocketInv' /\ VolumeInv' /\ DOMAIN fs' = DOMAIN fs /\ (Lost => Lost')
        /\ n # NoSector => items = Disk[fil.card][n] \/ Partly(items, fil.card, n)
    BY <1>2, <1>6, <2>2, <2>3, ShownFacts DEF FatInv
  <2>5. FieldsInv'
    <3>1. fil'.err \in BOOLEAN /\ call'.linked \in BOOLEAN
      BY <2>1, <2>2 DEF FatInv, FieldsInv
    <3>. QED BY <2>1, <2>2, <2>4, <3>1 DEF FatInv, FieldsInv
  <2>6. PICK d, b, p : d = Size /\ b = call.btr /\ p = d * a + d
    OBVIOUS
  <2>7. d \in Nat \ {0} /\ b \in Nat /\ b > d /\ d * a + b <= fil.fsize
        /\ fil.clust = Chain[fil.card][fil.name][a + 1] /\ fil.fptr <= d * a + b
    <3>1. b > d
      BY <1>1, <1>2, <2>6, Zenon
    <3>2. call.btr \in Nat
      BY <1>3 DEF Seeks
    <3>. QED BY <1>2, <1>3, <2>6, <3>1, <3>2, Zenon DEF Seeks
  <2>8. /\ p \in Nat \ {0} /\ p = d * (a + 1) /\ b - d \in Nat \ {0} /\ p % d = 0
        /\ p \div d = a + 1 /\ (p - 1) \div d = a /\ p + (b - d) = d * a + b
        /\ p < d * a + b /\ d * a + b \in Nat
    <3>1. d \in Nat \ {0} /\ b \in Nat /\ b > d /\ p = d * a + d
      BY <2>6, <2>7
    <3>. QED BY <3>1, SeekArith
  <2>9. p < fil.fsize
    <3> DEFINE m == fil.fsize
               e == d * a + b
    <3>1. p < e /\ e <= m /\ m \in Nat /\ e \in Nat /\ p \in Nat
      BY <1>2, <2>7, <2>8
    <3> HIDE DEF m, e
    <3>2. p < m
      BY <3>1
    <3>. QED BY <3>2 DEF m
  <2>10. Link(items, fil.clust) = Chain[fil.card][fil.name][(a + 1) + 1]
    <3>1. p % Size = 0 /\ Reached(p) /\ p \div Size = a + 1
      BY <2>6, <2>7, <2>8, Zenon DEF Reached
    <3>2. /\ n # NoSector
          /\ items = Disk[fil.card][n] \/ Partly(items, fil.card, n)
               => \/ Link(items, fil.clust) = Chain[fil.card][fil.name][(p \div Size) + 1]
                  \/ Link(items, fil.clust) = Volume[fil.card].n_fatent
      BY <1>2, <2>8, <2>9, <3>1, NextLink, Zenon
    <3>3. \/ Link(items, fil.clust) = Chain[fil.card][fil.name][(p \div Size) + 1]
          \/ Link(items, fil.clust) = Volume[fil.card].n_fatent
      BY <2>4, <3>2
    <3>4. Sect(Volume[fil.card].n_fatent) = 0
      <4>1. Volume[fil.card].n_fatent \in Nat
        BY <1>2, Geometry
      <4>2. Volume[fil.card].n_fatent \notin Clusters(fil.card)
        BY <4>1 DEF Clusters
      <4>. QED BY <1>2, <4>2, SectFacts
    <3>. QED BY <1>6, <3>1, <3>3, <3>4
  <2>11. SeekingInv'
    <3>1. Size' = d
      BY <2>2, <2>6 DEF Size, Held
    <3>2. call'.idx = d * (a + 1) /\ call'.btr = b - d
      BY <1>3, <2>1, <2>6, <2>8, Zenon
    <3>3. Seeks(a + 1, b - d)'
      <4>1. d * (a + 1) + (b - d) = d * a + b
        BY <2>8
      <4>. QED BY <2>2, <2>7, <2>8, <2>10, <3>1, <4>1, Zenon DEF Seeks, Held
    <3>4. a + 1 \in Nat
      OBVIOUS
    <3>. QED BY <1>2, <2>1, <2>2, <3>1, <3>2, <3>3, <3>4, Zenon DEF SeekingInv
  <2>12. BufferInv'
    <3>1. PICK q : q = fil.fptr
      OBVIOUS
    <3>2. Behind(q)'
      <4>1. Behind(q)
        BY <1>2, <3>1
      <4>. QED BY <2>2, <2>4, <4>1, BehindStill
    <3>3. q = fil'.fptr
      BY <2>2, <3>1
    <3>. QED BY <3>2, <3>3, Zenon DEF BufferInv
  <2>13. ClusterInv' /\ ReadingInv' /\ GotInv'
    BY <2>1 DEF FatInv, ClusterInv, ReadingInv, GotInv
  <2>14. StreamStep
    BY <2>1, <2>2, <2>3, <2>4, LoseStep
  <2>. QED BY <2>3, <2>4, <2>5, <2>11, <2>12, <2>13, <2>14, Zenon DEF FatInv
<1>. QED BY <1>1, <1>4, <1>5, <1>6

\* The sector it ends in.
Ends(c, f, a, b, d, p) ==
  /\ p \in Nat \ {0} /\ p % SectorSize = b % SectorSize /\ (p - 1) \div d = a
  /\ p - 1 \in Nat /\ p - 1 < Len(Files[c][f])
  /\ Chain[c][f][a + 1] \in Clusters(c)
  /\ b % SectorSize # 0 =>
       Place(c, f, p) = SectorOf(c, Chain[c][f][a + 1]) + (b \div SectorSize)

\* Where f_lseek ends in its last cluster.
LEMMA PlaceBeyond ==
  ASSUME NEW c \in Card, NEW f \in DOMAIN Files[c], NEW a \in Nat, NEW b \in Nat \ {0},
         NEW d \in Nat \ {0}, d = Volume[c].csize * SectorSize, b <= d,
         NEW p, p = d * a + b, p <= Len(Files[c][f])
  PROVE  Ends(c, f, a, b, d, p)
<1> DEFINE k == Volume[c].csize
           m == Len(Files[c][f])
<1>1. k \in Nat \ {0} /\ SectorSize \in Nat \ {0} /\ m \in Nat
  BY Geometry, FileFacts
<1>2. /\ p \in Nat \ {0} /\ p % SectorSize = b % SectorSize
      /\ (p - 1) \div d = a
      /\ b % SectorSize # 0 => p \div d = a /\ (p \div SectorSize) % k = b \div SectorSize
  <2>1. d = k * SectorSize
    OBVIOUS
  <2> HIDE DEF k
  <2>2. Sits(SectorSize, k, d, a, b, p)
    BY <1>1, <2>1, Beyond
  <2>. QED BY <2>2, Zenon DEF Sits
<1>3. p - 1 \in Nat /\ p - 1 < m
  <2> HIDE DEF m
  <2>1. p <= m
    BY DEF m
  <2>2. p \in Nat \ {0}
    BY <1>2
  <2> DEFINE t == p
  <2>3. t \in Nat \ {0} /\ t <= m
    BY <2>1, <2>2
  <2> HIDE DEF t
  <2>4. t - 1 \in Nat /\ t - 1 < m
    BY <1>1, <2>3
  <2>. QED BY <2>4 DEF t
<1>4. Chain[c][f][a + 1] \in Clusters(c)
  <2> DEFINE q == p - 1
  <2>1. q \in Nat /\ q < Len(Files[c][f]) /\ q \div d = a
    BY <1>2, <1>3
  <2> HIDE DEF q
  <2>2. Chain[c][f][(q \div (Volume[c].csize * SectorSize)) + 1] \in Clusters(c)
    BY <2>1, PlaceFacts
  <2>. QED BY <2>1, <2>2
<1>5. b % SectorSize # 0 => Place(c, f, p) = SectorOf(c, Chain[c][f][a + 1]) + (b \div SectorSize)
  <2> DEFINE r == p \div d
             s == (p \div SectorSize) % k
  <2>1. Place(c, f, p) = SectorOf(c, Chain[c][f][r + 1]) + s
    BY DEF Place
  <2>2. b % SectorSize # 0 => r = a /\ s = b \div SectorSize
    BY <1>2
  <2> HIDE DEF k, r, s
  <2>. QED BY <2>1, <2>2
<1>. QED BY <1>2, <1>3, <1>4, <1>5, Zenon DEF Ends
\* What was behind an item is behind a later one.
LEMMA BehindLater ==
  ASSUME NEW o \in Nat, NEW p \in Nat, o <= p, Behind(o), p % SectorSize # 0 => fil.dsect = Here(p)
  PROVE  Behind(p)
<1>1. \A q \in 0 .. o - 1 : q \in 0 .. p - 1
  OBVIOUS
<1>. QED BY <1>1, Zenon DEF Behind

\* The seek gets there.
LEMMA SeekDone ==
  ASSUME NEW p \in Nat \ {0}
  PROVE  /\ FatInv /\ call.at = "seek" /\ p <= fil.fsize /\ Return("OK")
         /\ fil.clust = Chain[fil.card][fil.name][((p - 1) \div Size) + 1]
         /\ (Lost => Lost') /\ SocketInv' /\ UNCHANGED fs
         /\ DOMAIN fil' = DOMAIN fil /\ Held /\ fil'.err = fil.err /\ fil'.fsize = fil.fsize
         /\ fil'.sclust = fil.sclust /\ fil'.clust = fil.clust /\ fil'.fptr = p
         /\ Behind(p)'
         => FatInv' /\ StreamStep
<1>1. SUFFICES ASSUME /\ FatInv /\ call.at = "seek" /\ p <= fil.fsize /\ Return("OK")
                      /\ fil.clust = Chain[fil.card][fil.name][((p - 1) \div Size) + 1]
                      /\ (Lost => Lost') /\ SocketInv' /\ UNCHANGED fs
                      /\ DOMAIN fil' = DOMAIN fil /\ Held /\ fil'.err = fil.err /\ fil'.fsize = fil.fsize
                      /\ fil'.sclust = fil.sclust /\ fil'.clust = fil.clust /\ fil'.fptr = p
                      /\ Behind(p)'
               PROVE  FatInv' /\ StreamStep
  OBVIOUS
<1>2. /\ FileOpen /\ ~fil.err /\ call.got = <<>> /\ Mounted /\ fil.fsize \in Nat
      /\ fil.fsize = Len(Files[fil.card][fil.name]) /\ Text = Files[fil.card][fil.name]
  BY <1>1, SeekFacts
<1>3. /\ DOMAIN call' = DOMAIN call /\ call'.at = "none" /\ call'.got = <<>>
      /\ call'.linked = FALSE
  BY <1>1, <1>2, ReturnFacts DEF FatInv
<1>4. FileOpen' /\ Mounted' /\ OpenInv' /\ DirectoryInv' /\ FileInv' /\ Text' = Text
  <2>1. call'.at \in {"read", "seek", "none"} /\ fil'.fptr \in Nat /\ fil'.fptr <= fil.fsize
    BY <1>1, <1>3, Zenon
  <2>. QED BY <1>1, <1>2, <2>1, StillOpen
<1>5. VolumeInv'
  BY <1>1, <1>2, VolumeStill DEF FatInv
<1>6. FieldsInv'
  BY <1>1, <1>2, <1>3 DEF FatInv, FieldsInv
<1>7. Reached(p)'
  <2>1. Size' = Size /\ fil'.card = fil.card /\ fil'.name = fil.name
    BY <1>1 DEF Size, Held
  <2>. QED BY <1>1, <2>1 DEF Reached
<1>8. ClusterInv' /\ BufferInv' /\ ReadingInv' /\ SeekingInv'
  <2>1. ClusterInv'
    BY <1>1, <1>3, <1>7, Zenon DEF ClusterInv
  <2>2. BufferInv'
    BY <1>1, Zenon DEF BufferInv
  <2>. QED BY <1>3, <2>1, <2>2 DEF ReadingInv, SeekingInv
<1>9. GotInv'
  <2>1. <<>> \in Seq(FileItems \cup {Junk})
    OBVIOUS
  <2>. QED BY <1>3, <2>1, Zenon DEF GotInv
<1>10. StreamStep
  <2>1. fil'.fptr \in 0 .. Len(Text)
    <3>1. p \in 0 .. fil.fsize
      BY <1>1, <1>2
    <3>. QED BY <1>1, <1>2, <3>1, Zenon
  <2>2. Stream!Seek
    BY <1>1, <1>3, <1>4, <2>1, Zenon DEF Stream!Seek
  <2>. QED BY <2>2 DEF StreamStep, Stream!Next
<1>. QED BY <1>1, <1>4, <1>5, <1>6, <1>8, <1>9, <1>10, Zenon DEF FatInv

\* f_lseek has found the cluster.
LEMMA SeekEndStep ==
  ASSUME FatInv, SeekEnd
  PROVE  FatInv' /\ StreamStep
<1> DEFINE nsect == Sect(fil.clust) + (call.btr \div SectorSize)
<1>1. /\ call.at = "seek" /\ call.btr <= Bcs /\ UNCHANGED fs
      /\ \/ /\ call.btr % SectorSize # 0
            /\ \/ /\ \E items :
                       /\ Came(items, nsect) /\ Return("OK")
                       /\ fil' = [fil EXCEPT !.fptr = call.idx + call.btr, !.dsect = nsect, !.buf = items]
               \/ UNCHANGED sdVars /\ Abort
         \/ /\ call.btr % SectorSize = 0 \/ nsect = fil.dsect
            /\ fil' = [fil EXCEPT !.fptr = call.idx + call.btr] /\ Return("OK") /\ UNCHANGED sdVars
  BY Zenon DEF SeekEnd, DiskRead, Came, InCall
<1>2. /\ FileOpen /\ ~fil.err /\ Behind(fil.fptr)
      /\ fil.card \in Card /\ fil.name \in DOMAIN Files[fil.card] /\ fs.vol = Volume[fil.card]
      /\ fil.fsize \in Nat /\ fil.fsize = Len(Files[fil.card][fil.name]) /\ fil.fptr \in Nat
      /\ Size \in Nat \ {0} /\ Bcs = Size
  BY <1>1, SeekFacts
<1>3. PICK a \in Nat : call.idx = Size * a /\ Seeks(a, call.btr)
  BY <1>1, SeekFacts
<1>4. PICK b, d, p, o, c, f : /\ b = call.btr /\ d = Size /\ p = d * a + b /\ o = fil.fptr
                              /\ c = fil.card /\ f = fil.name
  OBVIOUS
<1>5. /\ b \in Nat \ {0} /\ d \in Nat \ {0} /\ b <= d /\ d = Volume[c].csize * SectorSize
      /\ p <= Len(Files[c][f]) /\ o <= p /\ c \in Card /\ f \in DOMAIN Files[c] /\ o \in Nat
      /\ fil.clust = Chain[c][f][a + 1] /\ Behind(o) /\ p <= fil.fsize
  BY <1>1, <1>2, <1>3, <1>4, Zenon DEF Seeks, Size
<1>6. /\ p \in Nat \ {0} /\ p % SectorSize = b % SectorSize /\ (p - 1) \div d = a
      /\ p - 1 \in Nat /\ p - 1 < Len(Files[c][f])
      /\ Chain[c][f][a + 1] \in Clusters(c)
      /\ b % SectorSize # 0 => Place(c, f, p) = SectorOf(c, Chain[c][f][a + 1]) + (b \div SectorSize)
  <2>1. p = d * a + b
    BY <1>4
  <2>2. Ends(c, f, a, b, d, p)
    BY <1>5, <2>1, PlaceBeyond
  <2>. QED BY <2>2, Zenon DEF Ends
<1>7. p % SectorSize # 0 => nsect = Here(p)
  <2>1. Sect(fil.clust) = SectorOf(c, Chain[c][f][a + 1])
    BY <1>2, <1>4, <1>5, <1>6, SectFacts, Zenon
  <2>. QED BY <1>4, <1>6, <2>1, Zenon DEF Here
<1>8. /\ call.idx + call.btr = p /\ fil.clust = Chain[fil.card][fil.name][((p - 1) \div Size) + 1]
  BY <1>3, <1>4, <1>5, <1>6, Zenon
<1>9. CASE UNCHANGED sdVars /\ Abort
  BY <1>1, <1>2, <1>9, AbortStill
<1>10. ASSUME NEW items, Came(items, nsect), Return("OK"), p % SectorSize # 0,
              fil' = [fil EXCEPT !.fptr = p, !.dsect = nsect, !.buf = items]
       PROVE  FatInv' /\ StreamStep
  <2>1. /\ DOMAIN fil' = DOMAIN fil /\ Held /\ fil'.err = fil.err /\ fil'.fsize = fil.fsize
        /\ fil'.sclust = fil.sclust /\ fil'.clust = fil.clust /\ fil'.fptr = p
        /\ fil'.dsect = Here(p) /\ fil'.buf = items
    BY <1>7, <1>10, Zenon DEF FatInv, FieldsInv, Held
  <2>2. /\ ~Lost /\ SocketInv'
        /\ items = Disk[fil.card][Here(p)] \/ (Lost' /\ Partly(items, fil.card, Here(p)))
    BY <1>2, <1>7, <1>10, <2>1, CameFacts DEF FatInv, Held
  <2>3. Behind(p)'
    <3>1. PICK e : e = p - 1
      OBVIOUS
    <3>2. e \in Nat /\ Here(p) = Here(e) /\ e + 1 = p
      <4>1. p - 1 \in Nat /\ Place(c, f, p) = Place(c, f, p - 1)
        <5>1. p \in Nat
          BY <1>6
        <5>. QED BY <1>5, <1>10, <5>1, PlaceWithin
      <4>2. (p - 1) + 1 = p
        BY <1>6
      <4>. QED BY <1>4, <3>1, <4>1, <4>2, Zenon DEF Here
    <3>3. (e % SectorSize) + 1 <= SectorSize
      <4>1. SectorSize \in Nat \ {0}
        BY SectorAssumption
      <4>. QED BY <3>2, <4>1, DivFacts
    <3>4. fil'.dsect = Here(e) /\ Copy(fil.buf, Here(e))'
      <4>1. Copy(fil.buf, Here(e))'
        <5>1. Here(e)' = Here(e) /\ fil'.card = fil.card
          BY <2>1, Zenon DEF Held, Here
        <5>2. \/ fil'.buf = Disk[fil'.card][Here(e)']
              \/ Lost' /\ Partly(fil'.buf, fil'.card, Here(e)')
          BY <2>1, <2>2, <3>2, <5>1
        <5>. QED BY <5>2, Zenon DEF Copy
      <4>. QED BY <2>1, <3>2, <4>1, Zenon
    <3>5. Behind(e + 1)'
      <4>1. 1 \in Nat \ {0}
        OBVIOUS
      <4>. QED BY <1>2, <2>1, <3>2, <3>3, <3>4, <4>1, BehindPart, Zenon
    <3>. QED BY <3>2, <3>5, Zenon
  <2>. QED BY <1>1, <1>5, <1>6, <1>8, <1>10, <2>1, <2>2, <2>3, SeekDone, Zenon
<1>11. ASSUME p % SectorSize = 0 \/ nsect = fil.dsect, Return("OK"), UNCHANGED sdVars,
              fil' = [fil EXCEPT !.fptr = p]
       PROVE  FatInv' /\ StreamStep
  <2>1. /\ DOMAIN fil' = DOMAIN fil /\ Held /\ fil'.err = fil.err /\ fil'.fsize = fil.fsize
        /\ fil'.sclust = fil.sclust /\ fil'.clust = fil.clust /\ fil'.fptr = p
        /\ fil'.dsect = fil.dsect /\ fil'.buf = fil.buf
    BY <1>11, Zenon DEF FatInv, FieldsInv, Held
  <2>2. SocketInv' /\ (Lost => Lost')
    BY <1>11, <2>1, SocketStill DEF FatInv, Held
  <2>3. Behind(p)'
    <3>1. Behind(p)
      <4>1. p % SectorSize # 0 => fil.dsect = Here(p)
        BY <1>7, <1>11, Zenon
      <4>2. p \in Nat
        BY <1>6
      <4>. QED BY <1>5, <4>1, <4>2, BehindLater
    <3>. QED BY <2>1, <2>2, <3>1, BehindStill
  <2>. QED BY <1>1, <1>5, <1>6, <1>8, <1>11, <2>1, <2>2, <2>3, SeekDone, Zenon
<1>12. call.btr % SectorSize # 0 <=> p % SectorSize # 0
  BY <1>4, <1>6, Zenon
<1>. QED BY <1>1, <1>8, <1>9, <1>10, <1>11, <1>12, Zenon

-----------------------------------------------------------------------------
(* A step of a call.                                                       *)

\* f_open starts at the start of a file.
LEMMA OpeningFrame ==
  ASSUME FatInv, call.at \in Opening, FatStep
  PROVE  fil'.fptr = 0 /\ call'.at \in Opening \cup {"none"}
<1>1. fil.fptr = 0 /\ FieldsInv
  BY DEF FatInv, OpenInv
<1>2. ASSUME NEW res, Return(res) PROVE call'.at \in Opening \cup {"none"}
  BY <1>1, <1>2, ReturnFacts
<1>3. ASSUME UNCHANGED fil PROVE fil'.fptr = 0
  BY <1>1, <1>3
<1>4. CASE DiskInitialize
  <2>1. UNCHANGED fil \/ fil' = [fil EXCEPT !.card = card]
    BY <1>4, Zenon DEF DiskInitialize, Identify, NotOpened
  <2>2. fil'.fptr = 0
    BY <1>1, <2>1 DEF FieldsInv
  <2>3. Return("ERR") \/ Goto("conclude")
    BY <1>4, Zenon DEF DiskInitialize, Identify, NotOpened
  <2>. QED BY <1>1, <1>2, <2>2, <2>3, GotoFacts DEF Opening
<1>5. CASE Initialized
  BY <1>1, <1>5 DEF Initialized, FieldsInv, Opening
<1>6. CASE CheckFs
  <2>1. UNCHANGED fil
    BY <1>6 DEF CheckFs
  <2>2. Goto("fsinfo") \/ \E sectors : TryNext(sectors)
    BY <1>6, Zenon DEF CheckFs, DiskRead
  <2>3. ASSUME NEW sectors, TryNext(sectors) PROVE call'.at \in Opening \cup {"none"}
    BY <1>1, <1>2, <2>3 DEF TryNext, FieldsInv
  <2>. QED BY <1>1, <1>3, <2>1, <2>2, <2>3, GotoFacts DEF Opening
<1>7. CASE FsInfo
  <2>1. UNCHANGED fil /\ call' = [call EXCEPT !.at = "dir", !.clust = fs.vol.dirbase]
    BY <1>7, Zenon DEF FsInfo, MoveWindow, DiskRead
  <2>. QED BY <1>1, <1>3, <2>1 DEF FieldsInv, Opening
<1>8. CASE DirFind
  <2>1. \/ UNCHANGED fil
        \/ \E items, i :
             fil' = [NoFile EXCEPT !.card = fil.card, !.name = call.name,
                                   !.sclust = items[i].clust, !.fsize = items[i].size]
    BY <1>8, Zenon DEF DirFind, MoveWindow, DiskRead, NotOpened
  <2>2. \/ call' = [call EXCEPT !.idx = call.idx + 1] \/ Goto("dirnext")
        \/ Return("OK") \/ Return("ERR")
    BY <1>8, Zenon DEF DirFind, MoveWindow, DiskRead, NotOpened
  <2>3. fil'.fptr = 0
    BY <1>1, <2>1 DEF NoFile
  <2>4. call' = [call EXCEPT !.idx = call.idx + 1] => call'.at \in Opening
    BY <1>1 DEF FieldsInv
  <2>. QED BY <1>1, <1>2, <2>2, <2>3, <2>4, GotoFacts DEF Opening
<1>9. CASE DirNext
  <2>1. UNCHANGED fil
    BY <1>9 DEF DirNext
  <2>2. \/ \E next : call' = [call EXCEPT !.at = "dir", !.clust = next, !.idx = 0]
        \/ Return("ERR")
    BY <1>9, Zenon DEF DirNext, GetFat, MoveWindow, DiskRead
  <2>3. ASSUME NEW next, call' = [call EXCEPT !.at = "dir", !.clust = next, !.idx = 0]
        PROVE  call'.at \in Opening
    BY <1>1, <2>3 DEF FieldsInv, Opening
  <2>. QED BY <1>1, <1>2, <1>3, <2>1, <2>2, <2>3
<1>10. ~ReadLink /\ ~ReadSector /\ ~ReadBuffer /\ ~SeekLink /\ ~SeekEnd
  BY DEF ReadLink, ReadSector, ReadBuffer, SeekLink, SeekEnd, InCall, Opening
<1>. QED BY <1>4, <1>5, <1>6, <1>7, <1>8, <1>9, <1>10 DEF FatStep

\* A cluster is looked up.
LEMMA ReadLinkSooner ==
  ASSUME FatInv, ReadLink
  PROVE  Sooner
<1>1. call.at = "read"
  BY DEF ReadLink, InCall
<1>2. \/ Abort
      \/ \E next : call' = [call EXCEPT !.linked = TRUE] /\ fil' = [fil EXCEPT !.clust = next]
  BY Zenon DEF ReadLink, GetFat, MoveWindow, DiskRead
<1>3. ASSUME NEW next, call' = [call EXCEPT !.linked = TRUE], fil' = [fil EXCEPT !.clust = next]
      PROVE  Sooner
  <2>1. call'.at = "read" /\ fil'.fptr = fil.fptr /\ call'.btr = call.btr
    BY <1>1, <1>3 DEF FatInv, FieldsInv
  <2> DEFINE p == fil.fptr
             b == call.btr
  <2>2. Reach' = p + b /\ Reach = p + b /\ p \in Nat /\ b \in Nat
    BY <1>1, <2>1, ReadFacts DEF Reach
  <2> HIDE DEF p, b
  <2>3. p + b <= p + b
    BY <2>2
  <2>4. Reach' <= Reach
    BY <2>2, <2>3, Zenon
  <2>. QED BY <1>1, <2>1, <2>4, Zenon DEF Sooner
<1>. QED BY <1>1, <1>2, <1>3, AbortSooner

\* Following a link leaves where the seek will end.
LEMMA SeekLinkSooner ==
  ASSUME FatInv, SeekLink
  PROVE  Sooner
<1>1. call.at = "seek"
  BY DEF SeekLink, InCall
<1>2. \/ Abort
      \/ call' = [call EXCEPT !.idx = @ + Bcs, !.btr = @ - Bcs]
  BY Zenon DEF SeekLink, GetFat, MoveWindow, DiskRead
<1>3. ASSUME call' = [call EXCEPT !.idx = @ + Bcs, !.btr = @ - Bcs]
      PROVE  Sooner
  <2>1. call'.at = "seek" /\ call'.idx = call.idx + Bcs /\ call'.btr = call.btr - Bcs
    BY <1>1, <1>3, Zenon DEF FatInv, FieldsInv
  <2>2. PICK i, b, d : i = call.idx /\ b = call.btr /\ d = Bcs
    OBVIOUS
  <2>3. i \in Nat /\ b \in Nat /\ d \in Nat
    <3>1. Size \in Nat \ {0} /\ Bcs = Size
      BY <1>1, SeekFacts
    <3>2. PICK a \in Nat : call.idx = Size * a /\ Seeks(a, call.btr)
      BY <1>1, SeekFacts
    <3>3. Size * a \in Nat
      BY <3>1
    <3>4. call.btr \in Nat
      BY <3>2 DEF Seeks
    <3>. QED BY <2>2, <3>1, <3>2, <3>3, <3>4, Zenon
  <2>4. Reach' = (i + d) + (b - d) /\ Reach = i + b
    BY <1>1, <2>1, <2>2, Zenon DEF Reach
  <2>5. (i + d) + (b - d) <= i + b
    BY <2>3
  <2>6. Reach' <= Reach
    BY <2>4, <2>5, Zenon
  <2>. QED BY <1>1, <2>1, <2>6, Zenon DEF Sooner
<1>. QED BY <1>1, <1>2, <1>3, AbortSooner

\* The end of a seek is where it was to end, or sooner.
LEMMA SeekEndSooner ==
  ASSUME FatInv, SeekEnd
  PROVE  Sooner
<1>1. call.at = "seek"
  BY DEF SeekEnd, InCall
<1>2. \/ Abort
      \/ /\ Return("OK")
         /\ \/ fil' = [fil EXCEPT !.fptr = call.idx + call.btr]
            \/ \E nsect, items :
                 fil' = [fil EXCEPT !.fptr = call.idx + call.btr, !.dsect = nsect, !.buf = items]
  BY Zenon DEF SeekEnd, DiskRead
<1>3. ASSUME Return("OK"), fil'.fptr = call.idx + call.btr
      PROVE  Sooner
  <2>1. call'.at = "none"
    BY <1>3, ReturnFacts DEF FatInv
  <2>2. PICK i, b : i = call.idx /\ b = call.btr
    OBVIOUS
  <2>3. i \in Nat /\ b \in Nat
    <3>1. Size \in Nat \ {0}
      BY <1>1, SeekFacts
    <3>2. PICK a \in Nat : call.idx = Size * a /\ Seeks(a, call.btr)
      BY <1>1, SeekFacts
    <3>3. Size * a \in Nat
      BY <3>1
    <3>4. call.btr \in Nat
      BY <3>2 DEF Seeks
    <3>. QED BY <2>2, <3>2, <3>3, <3>4, Zenon
  <2>4. Reach' = i + b /\ Reach = i + b
    <3>1. call'.at # "read" /\ call'.at # "seek" /\ call.at # "read"
      BY <1>1, <2>1
    <3>. QED BY <1>1, <1>3, <2>2, <3>1, Zenon DEF Reach
  <2>5. i + b <= i + b
    BY <2>3
  <2>6. Reach' <= Reach
    BY <2>4, <2>5, Zenon
  <2>. QED BY <2>1, <2>6, Zenon DEF Sooner
<1>4. fil' = [fil EXCEPT !.fptr = call.idx + call.btr] => fil'.fptr = call.idx + call.btr
  BY Zenon DEF FatInv, FieldsInv
<1>5. \A nsect, items :
        fil' = [fil EXCEPT !.fptr = call.idx + call.btr, !.dsect = nsect, !.buf = items]
          => fil'.fptr = call.idx + call.btr
  BY Zenon DEF FatInv, FieldsInv
<1>. QED BY <1>1, <1>2, <1>3, <1>4, <1>5, AbortSooner, Zenon

\* Every step of a call.
LEMMA FatStepStep ==
  ASSUME FatInv, FatStep
  PROVE  /\ FatInv' /\ StreamStep
         /\ call.at \in Opening => fil'.fptr = 0 /\ call'.at \in Opening \cup {"none"}
         /\ call.at \in {"read", "seek"} => Sooner
         /\ call.at # "none"
<1>1. FatInv' /\ StreamStep
  BY InitializeStep, InitializedStep, CheckFsStep, FsInfoStep, DirFindStep, DirNextStep,
     ReadLinkStep, ReadSectorStep, ReadBufferStep, SeekLinkStep, SeekEndStep, Zenon DEF FatStep
<1>2. call.at \in Opening => fil'.fptr = 0 /\ call'.at \in Opening \cup {"none"}
  BY OpeningFrame
<1>3. ASSUME call.at \in {"read", "seek"} PROVE Sooner
  <2>1. ~(DiskInitialize \/ Initialized \/ CheckFs \/ FsInfo \/ DirFind \/ DirNext)
    BY <1>3 DEF DiskInitialize, Initialized, CheckFs, FsInfo, DirFind, DirNext, InCall
  <2>. QED BY <2>1, ReadLinkSooner, ReadSectorStep, ReadBufferStep, SeekLinkSooner, SeekEndSooner,
              Zenon DEF FatStep
<1>4. call.at # "none"
  BY DEF FatStep, DiskInitialize, Initialized, CheckFs, FsInfo, DirFind, DirNext,
         ReadLink, ReadSector, ReadBuffer, SeekLink, SeekEnd, InCall
<1>. QED BY <1>1, <1>2, <1>3, <1>4

-----------------------------------------------------------------------------
(* How far a call gets.                                                    *)

\* There may be no file.
LEMMA PositionFacts ==
  ASSUME FatInv
  PROVE  fil.fptr \in Nat /\ fil.fsize \in Nat /\ fil.fptr <= fil.fsize
<1>1. CASE FileOpen
  BY <1>1, OpenFacts
<1>2. CASE ~FileOpen
  <2>1. fil.fptr = 0 /\ fil.fsize = 0
    BY <1>2 DEF FatInv, OpenInv, FileOpen
  <2>. QED BY <2>1
<1>. QED BY <1>1, <1>2

\* f_read gets no further than was asked for.
LEMMA StartReadReach ==
  ASSUME FatInv, NEW n \in Nat \ {0}, StartRead(n)
  PROVE  call'.at \in {"read", "none"} /\ Reach' <= fil.fptr + n
<1>1. PICK p, b : p = fil.fptr /\ b = Smaller(n, fil.fsize - fil.fptr)
  OBVIOUS
<1>2. \/ call' = [Idle EXCEPT !.res = "ERR"] /\ UNCHANGED fil
      \/ call' = Idle /\ UNCHANGED fil
      \/ call' = [Idle EXCEPT !.got = Buffered(b)] /\ fil' = [fil EXCEPT !.fptr = fil.fptr + b]
      \/ call' = [Idle EXCEPT !.at = "read", !.btr = b] /\ UNCHANGED fil
  BY <1>1, Zenon DEF StartRead
<1>3. p \in Nat /\ b \in Nat /\ b <= n
  <2>1. PICK m : m = fil.fsize
    OBVIOUS
  <2>2. m \in Nat /\ p \in Nat /\ p <= m
    BY <1>1, <2>1, PositionFacts, Zenon
  <2>3. m - p \in Nat /\ n \in Nat
    BY <2>2
  <2>4. b = Smaller(n, m - p)
    BY <1>1, <2>1, Zenon
  <2>5. b \in Nat /\ b <= n
    BY <2>3, <2>4, SmallerFacts
  <2>. QED BY <2>2, <2>5
<1>4. CASE call' \in {[Idle EXCEPT !.res = "ERR"], Idle} /\ UNCHANGED fil
  <2>1. call'.at = "none" /\ fil'.fptr = p
    BY <1>1, <1>4, IdleFacts
  <2>2. Reach' = p
    BY <2>1 DEF Reach
  <2>3. p <= p + n
    BY <1>3
  <2>. QED BY <1>1, <2>1, <2>2, <2>3, Zenon
<1>5. CASE call' = [Idle EXCEPT !.got = Buffered(b)] /\ fil' = [fil EXCEPT !.fptr = fil.fptr + b]
  <2>1. call'.at = "none"
    BY <1>5, IdleFacts
  <2>2. fil'.fptr = p + b
    BY <1>1, <1>5, Zenon DEF FatInv, FieldsInv
  <2>3. Reach' = p + b
    BY <2>1, <2>2, Zenon DEF Reach
  <2>4. p + b <= p + n
    BY <1>3
  <2>. QED BY <1>1, <2>1, <2>3, <2>4, Zenon
<1>6. CASE call' = [Idle EXCEPT !.at = "read", !.btr = b] /\ UNCHANGED fil
  <2>1. call'.at = "read" /\ call'.btr = b
    BY <1>6, IdleFacts
  <2>2. Reach' = p + b
    BY <1>1, <1>6, <2>1 DEF Reach
  <2>3. p + b <= p + n
    BY <1>3
  <2>. QED BY <1>1, <2>1, <2>2, <2>3, Zenon
<1>. QED BY <1>2, <1>4, <1>5, <1>6

\* Nor f_lseek.
LEMMA StartSeekReach ==
  ASSUME FatInv, NEW n \in Nat, fil.fptr <= n, StartSeek(n)
  PROVE  call'.at \in {"seek", "none"} /\ Reach' <= n
<1>1. PICK o : o = Smaller(n, fil.fsize)
  OBVIOUS
<1>2. PICK b : b = IF Onward(o) THEN Bcs * ((fil.fptr - 1) \div Bcs) ELSE 0
  OBVIOUS
<1>3. \/ call' = [Idle EXCEPT !.res = "ERR"] /\ UNCHANGED fil
      \/ call' = Idle /\ fil' = [fil EXCEPT !.fptr = 0]
      \/ o # 0 /\ call' = [Idle EXCEPT !.at = "seek", !.idx = b, !.btr = o - b]
  BY <1>1, <1>2, Zenon DEF StartSeek
<1>4. fil.fptr \in Nat /\ fil.fsize \in Nat
  BY PositionFacts
<1>5. o \in Nat /\ o <= n /\ o <= fil.fsize
  BY <1>1, <1>4, SmallerFacts
<1>6. CASE call' = [Idle EXCEPT !.res = "ERR"] /\ UNCHANGED fil
  <2>1. call'.at = "none" /\ fil'.fptr = fil.fptr
    BY <1>6, IdleFacts
  <2>2. Reach' = fil.fptr
    BY <2>1 DEF Reach
  <2>. QED BY <2>1, <2>2, Zenon
<1>7. CASE call' = Idle /\ fil' = [fil EXCEPT !.fptr = 0]
  <2>1. call'.at = "none" /\ fil'.fptr = 0
    BY <1>7, IdleFacts DEF FatInv, FieldsInv
  <2>2. Reach' = 0 /\ 0 <= n
    BY <2>1 DEF Reach
  <2>. QED BY <2>1, <2>2, Zenon
<1>8. CASE o # 0 /\ call' = [Idle EXCEPT !.at = "seek", !.idx = b, !.btr = o - b]
  <2>1. call'.at = "seek" /\ call'.idx = b /\ call'.btr = o - b
    BY <1>8, IdleFacts
  <2>2. b \in Nat
    <3>1. CASE ~Onward(o)
      BY <1>2, <3>1
    <3>2. CASE Onward(o)
      <4>1. PICK p, d : p = fil.fptr /\ d = Bcs
        OBVIOUS
      <4>2. p \in Nat \ {0}
        BY <1>4, <3>2, <4>1 DEF Onward
      <4>3. FileOpen
        BY <4>1, <4>2 DEF FatInv, OpenInv, FileOpen
      <4>4. d \in Nat \ {0}
        <5>1. fil.card \in Card /\ fs.vol = Volume[fil.card]
          BY <4>3, OpenFacts
        <5>. QED BY <4>1, <5>1, Geometry DEF Bcs
      <4>5. b = d * ((p - 1) \div d)
        BY <1>2, <3>2, <4>1, Zenon
      <4>6. p - 1 \in Nat
        BY <4>2
      <4>7. (p - 1) \div d \in Nat
        BY <4>4, <4>6, DivFacts
      <4>. QED BY <4>4, <4>5, <4>7
    <3>. QED BY <3>1, <3>2
  <2>3. Reach' = b + (o - b)
    <3>1. call'.at # "read"
      BY <2>1
    <3>. QED BY <2>1, <3>1, Zenon DEF Reach
  <2>4. b + (o - b) <= n
    BY <1>5, <2>2
  <2>. QED BY <2>1, <2>3, <2>4, Zenon
<1>. QED BY <1>3, <1>6, <1>7, <1>8

-----------------------------------------------------------------------------
(* When no call is served.                                                 *)

\* The socket may change.
LEMMA AsideStep ==
  ASSUME FatInv, UNCHANGED fatVars, SocketInv', Lost => Lost'
  PROVE  FatInv' /\ StreamStep
<1>1. fs' = fs /\ fil' = fil /\ call' = call
  BY DEF fatVars
<1>2. Held /\ Text' = Text /\ (FileOpen' <=> FileOpen) /\ (Mounted' <=> Mounted)
  BY <1>1 DEF Held, Text, FileOpen, Mounted
<1>3. VolumeInv'
  <2>1. CASE Mounted
    BY <1>1, <1>2, <2>1, VolumeStill DEF FatInv
  <2>2. CASE ~Mounted
    BY <1>2, <2>2, Zenon DEF VolumeInv
  <2>. QED BY <2>1, <2>2
<1>4. BufferInv'
  <2>1. ASSUME FileOpen, ~fil.err PROVE Behind(fil.fptr)'
    <3>1. PICK p : p = fil.fptr
      OBVIOUS
    <3>2. Behind(p)
      BY <2>1, <3>1 DEF FatInv, BufferInv
    <3>3. Behind(p)'
      BY <1>1, <1>2, <3>2, BehindStill
    <3>4. fil'.fptr = p
      BY <1>1, <3>1
    <3>. QED BY <3>3, <3>4, Zenon
  <2>. QED BY <1>1, <1>2, <2>1, Zenon DEF BufferInv
<1>5. FieldsInv' /\ OpenInv' /\ DirectoryInv' /\ FileInv' /\ GotInv' /\ ReadingInv' /\ SeekingInv'
      /\ ClusterInv'
  BY <1>1 DEF FatInv, FieldsInv, OpenInv, DirectoryInv, FileInv, GotInv, ReadingInv, ToRead,
              SeekingInv, Seeks, Size, ClusterInv, Reached, Ahead, FileOpen
<1>6. StreamStep
  BY <1>1, <1>2, LoseStep
<1>. QED BY <1>3, <1>4, <1>5, <1>6 DEF FatInv

\* A step that leaves the driver and the file alone.
LEMMA QuietStep ==
  ASSUME FatInv, UNCHANGED <<sdVars, fatVars>>
  PROVE  FatInv' /\ StreamStep
<1>1. SocketInv' /\ (Lost' <=> Lost)
  BY SocketStill DEF FatInv, fatVars
<1>. QED BY <1>1, AsideStep

\* A hand at the socket, and the interrupt.
LEMMA OutsideStep ==
  ASSUME FatInv, Hand \/ (Tick /\ NotCard)
  PROVE  FatInv' /\ StreamStep /\ NotCard
<1>1. NotCard /\ UNCHANGED fatVars /\ fil' = fil
  BY DEF Hand, NotCard, fatVars
<1>2. \/ card' = NoCard /\ awake' = FALSE
      \/ card = NoCard /\ card' \in Card /\ awake' = awake
      \/ card' = card /\ awake' = awake
  BY DEF Hand, Pulled, PutIn, Tick
<1>3. NoCard \notin Card
  BY CardAssumption
<1>4. SocketInv' /\ (Lost => Lost')
  <2>1. /\ card \in Card \cup {NoCard} /\ awake \in BOOLEAN /\ (card = NoCard => ~awake)
        /\ fil.card \in Card \cup {NoCard} /\ (awake /\ fil.card # NoCard => card = fil.card)
    BY DEF FatInv, SocketInv
  <2>2. PICK a, b : a = fil.card /\ b = fil'.card
    OBVIOUS
  <2>3. a = b
    BY <1>1, <2>2
  <2>4. SocketInv'
    <3>1. CASE card' = NoCard /\ awake' = FALSE
      BY <1>1, <2>1, <3>1 DEF SocketInv
    <3>2. CASE card = NoCard /\ card' \in Card /\ awake' = awake
      BY <1>1, <2>1, <3>2 DEF SocketInv
    <3>3. CASE card' = card /\ awake' = awake
      BY <1>1, <2>1, <3>3 DEF SocketInv
    <3>. QED BY <1>2, <3>1, <3>2, <3>3
  <2>5. Lost => Lost'
    BY <1>2, <1>3, <2>1, <2>2, <2>3, Zenon DEF Lost
  <2>. QED BY <2>4, <2>5
<1>. QED BY <1>1, <1>4, AsideStep
-----------------------------------------------------------------------------
(* Where a call may get in the file.                                       *)

\* A call leaves the file at an item.
LEMMA ReachNat == FatInv => Reach \in Nat
<1>1. SUFFICES ASSUME FatInv PROVE Reach \in Nat
  OBVIOUS
<1>2. CASE call.at = "read"
  <2>1. fil.fptr \in Nat /\ call.btr \in Nat
    BY <1>1, <1>2, ReadFacts
  <2>. QED BY <1>2, <2>1 DEF Reach
<1>3. CASE call.at = "seek"
  <2>1. PICK i, b : i = call.idx /\ b = call.btr
    OBVIOUS
  <2>2. i \in Nat /\ b \in Nat
    <3>1. Size \in Nat \ {0}
      BY <1>1, <1>3, SeekFacts
    <3>2. PICK a \in Nat : call.idx = Size * a /\ Seeks(a, call.btr)
      BY <1>1, <1>3, SeekFacts
    <3>3. Size * a \in Nat
      BY <3>1
    <3>4. call.btr \in Nat
      BY <3>2 DEF Seeks
    <3>. QED BY <2>1, <3>2, <3>3, <3>4, Zenon
  <2>3. Reach = i + b
    <3>1. call.at # "read"
      BY <1>3
    <3>. QED BY <1>3, <2>1, <3>1, Zenon DEF Reach
  <2>4. i + b \in Nat
    BY <2>2
  <2>. QED BY <2>3, <2>4
<1>4. CASE call.at \notin {"read", "seek"}
  <2>1. Reach = fil.fptr
    BY <1>4 DEF Reach
  <2>. QED BY <1>1, <2>1, PositionFacts
<1>. QED BY <1>2, <1>3, <1>4

\* So does the call after a step.
LEMMA ReachAfter == FatInv' => (Reach \in Nat)'
BY ReachNat, PTL

-----------------------------------------------------------------------------
(* Whose turn it is to read.                                               *)

\* Whose turn it is once ini_gets or ini_browse is called.
LEMMA ScanTurns ==
  ASSUME "at" \in DOMAIN scan, NEW what, NEW section, NEW index, StartScan(what, section, index)
  PROVE  "at" \in DOMAIN scan' /\ scan'.at = "open"
BY DEF StartScan

\* Whose turn it is once a key is asked for.
LEMMA KeyTurns ==
  ASSUME "at" \in DOMAIN scan, NEW section, NEW key, NEW index, GetKey(section, key, index)
  PROVE  /\ "at" \in DOMAIN scan' /\ "at" \in DOMAIN get'
         /\ scan'.at = "open" /\ get'.at = "sections"
BY ScanTurns DEF GetKey, BrowseSections

\* A step of minIni leaves the turn where it is.
LEMMA IniTurns ==
  ASSUME TurnInv, IniStep, UNCHANGED menuVars
  PROVE  TurnInv' /\ load' = load /\ load.at \notin Header
<1>1. load' = load /\ ui' = ui
  BY DEF menuVars
<1>2. load.at \notin Header
  BY DEF TurnInv, IniStep, Opened, Gets, GetSection, GetValue, Header
<1>3. CASE Opened
  <2>1. /\ scan.at = "open" /\ get' = get /\ "at" \in DOMAIN scan'
    BY <1>3 DEF TurnInv, Opened, EndScan
  <2>. QED BY <1>1, <1>2, <2>1 DEF TurnInv
<1>4. CASE Gets
  <2>1. scan.at = "gets" /\ get' = get
    BY <1>4 DEF Gets
  <2>2. "at" \in DOMAIN scan'
    <3>1. ASSUME NEW line PROVE "at" \in DOMAIN Line(line)
      BY DEF TurnInv, Line, SectionLine, KeyLine, LineBefore, LineInside, KeyOf, Counted
    <3>2. \/ scan' = [scan EXCEPT !.line = @ \o call.got]
          \/ scan' = [scan EXCEPT !.at = "done", !.line = <<>>]
          \/ scan' = [Line(scan.line) EXCEPT !.at = "done", !.line = <<>>]
          \/ scan' = [Line(scan.line) EXCEPT !.line = <<>>]
      BY <1>4, Zenon DEF Gets, EndScan
    <3>. QED BY <3>1, <3>2 DEF TurnInv
  <2>. QED BY <1>1, <1>2, <2>1, <2>2 DEF TurnInv
<1>5. CASE GetSection
  <2>1. get.at = "sections" /\ scan.at = "done"
    BY <1>5 DEF GetSection, Scanned
  <2>2. /\ "at" \in DOMAIN scan' /\ "at" \in DOMAIN get'
        /\ \/ scan' = scan /\ get'.at = "done"
           \/ get'.at \in {"sections", "keys"}
    BY <1>5, ScanTurns DEF TurnInv, GetSection, NextSection, BrowseSections, BrowseKeys
  <2>. QED BY <1>1, <1>2, <2>1, <2>2 DEF TurnInv
<1>6. CASE GetValue
  <2>1. get.at = "keys" /\ scan.at = "done"
    BY <1>6 DEF GetValue, Scanned
  <2>2. /\ "at" \in DOMAIN scan' /\ "at" \in DOMAIN get'
        /\ \/ scan' = scan /\ get'.at = "done"
           \/ get'.at \in {"sections", "keys"}
    BY <1>6, <2>1, ScanTurns DEF TurnInv, GetValue, NextSection, BrowseSections, BrowseKeys
  <2>. QED BY <1>1, <1>2, <2>1, <2>2 DEF TurnInv
<1>. QED BY <1>1, <1>2, <1>3, <1>4, <1>5, <1>6 DEF IniStep

\* So does a step of the menu that does not configure.
LEMMA UiTurns ==
  ASSUME TurnInv, UiStep \/ User
  PROVE  TurnInv' /\ load' = load /\ load.at \notin Header
<1>1. load' = load /\ load.at = "off"
  BY DEF TurnInv, UiStep, User, UiAt, OnlyUi, AutoStart, AutoSection, AutoKey, Poll, LookForCard,
         ReadConfigurationFile, ListSection, CheckRemoved, NoKey, Tab, Down, Up, Enter
<1>2. load.at \notin Header
  BY <1>1 DEF Header
<1>3. CASE AutoStart
  <2>1. ui.at = "autostart" /\ ui'.at = "autosection" /\ "at" \in DOMAIN ui' /\ get' = get
        /\ "at" \in DOMAIN scan' /\ scan'.at = "open"
    BY <1>3, ScanTurns DEF TurnInv, AutoStart, UiAt, BrowseSections
  <2>. QED BY <1>1, <1>2, <2>1 DEF TurnInv
<1>4. CASE AutoSection
  <2>1. ui.at = "autosection" /\ scan.at = "done" /\ "at" \in DOMAIN ui'
    BY <1>4 DEF TurnInv, AutoSection, UiAt, Scanned
  <2>2. \/ /\ ui'.at = "autokey"
           /\ "at" \in DOMAIN scan' /\ "at" \in DOMAIN get' /\ scan'.at = "open" /\ get'.at = "sections"
        \/ ui'.at = "menu" /\ scan' = scan /\ get' = get
    BY <1>4, KeyTurns DEF TurnInv, AutoSection, Quiet
  <2>. QED BY <1>1, <1>2, <2>1, <2>2 DEF TurnInv
<1>5. CASE AutoKey
  <2>1. ui.at = "autokey" /\ get.at = "done" /\ get' = get /\ "at" \in DOMAIN ui'
    BY <1>5 DEF TurnInv, AutoKey, UiAt, LookedUp, Quiet
  <2>2. \/ ui'.at = "config" /\ scan' = scan
        \/ ui'.at = "autosection" /\ "at" \in DOMAIN scan' /\ scan'.at = "open"
    BY <1>5, ScanTurns DEF TurnInv, AutoKey, Quiet, BrowseSections
  <2>. QED BY <1>1, <1>2, <2>1, <2>2 DEF TurnInv
<1>6. CASE ReadConfigurationFile
  <2>1. ui.at = "delay" /\ ui'.at = "list" /\ "at" \in DOMAIN ui' /\ get' = get
        /\ "at" \in DOMAIN scan' /\ scan'.at = "open"
    BY <1>6, ScanTurns DEF TurnInv, ReadConfigurationFile, UiAt, BrowseSections
  <2>. QED BY <1>1, <1>2, <2>1 DEF TurnInv
<1>7. CASE ListSection
  <2>1. ui.at = "list" /\ scan.at = "done" /\ get' = get /\ "at" \in DOMAIN ui'
    BY <1>7 DEF TurnInv, ListSection, UiAt, Scanned, Quiet
  <2>2. \/ ui'.at = "list" /\ "at" \in DOMAIN scan' /\ scan'.at = "open"
        \/ ui'.at = "check" /\ scan' = scan
    BY <1>7, <2>1, ScanTurns DEF TurnInv, ListSection, Quiet, BrowseSections
  <2>. QED BY <1>1, <1>2, <2>1, <2>2 DEF TurnInv
<1>8. CASE Poll \/ LookForCard \/ CheckRemoved \/ NoKey \/ User
  <2>1. scan' = scan /\ get' = get /\ "at" \in DOMAIN ui'
    BY <1>8 DEF TurnInv, OnlyUi, Quiet, Poll, LookForCard, CheckRemoved, NoKey, User, Tab, Down, Up,
                Enter, Forgotten
  <2>2. ui.at \in {"menu", "tab", "check", "keys"}
    BY <1>8 DEF Poll, LookForCard, CheckRemoved, NoKey, User, Tab, Down, Up, Enter, UiAt
  <2>. QED BY <1>1, <1>2, <2>1, <2>2 DEF TurnInv
<1>. QED BY <1>1, <1>2, <1>3, <1>4, <1>5, <1>6, <1>7, <1>8 DEF UiStep

-----------------------------------------------------------------------------
(* What each part does with the file.                                      *)

\* minIni begins to open the file.
LEMMA ScanFat ==
  ASSUME FatInv, NEW what, NEW section, NEW index, StartScan(what, section, index)
  PROVE  FatInv' /\ StreamStep
<1>1. StartOpen(CONFIG_FILE_NAME)
  BY DEF StartScan
<1>. QED BY <1>1, OpenStarts

\* So does what asks for a key.
LEMMA KeyFat ==
  ASSUME FatInv, NEW section, NEW key, NEW index, GetKey(section, key, index)
  PROVE  FatInv' /\ StreamStep
BY ScanFat DEF GetKey, BrowseSections

\* One byte is read.
LEMMA ByteFat ==
  ASSUME FatInv, Finished, StartRead(1)
  PROVE  FatInv' /\ StreamStep
<1>1. call.at = "none" /\ 1 \in Nat \ {0}
  BY DEF Finished, InCall
<1>. QED BY <1>1, StartReadStep

\* One sector is read.
LEMMA SectorFat ==
  ASSUME FatInv, Finished, StartRead(SectorSize)
  PROVE  FatInv' /\ StreamStep
<1>1. call.at = "none" /\ SectorSize \in Nat \ {0}
  BY SectorAssumption DEF Finished, InCall
<1>. QED BY <1>1, StartReadStep

\* A step of minIni is one of the stream.
LEMMA IniFat ==
  ASSUME FatInv, IniStep
  PROVE  FatInv' /\ StreamStep
<1>1. CASE Opened
  <2>1. Finished /\ (StartRead(1) \/ UNCHANGED <<fatVars, sdVars>>)
    BY <1>1, Zenon DEF Opened, EndScan
  <2>. QED BY <2>1, ByteFat, QuietStep
<1>2. CASE Gets
  <2>1. Finished /\ (StartRead(1) \/ UNCHANGED <<fatVars, sdVars>>)
    BY <1>2, Zenon DEF Gets, EndScan
  <2>. QED BY <2>1, ByteFat, QuietStep
<1>3. CASE GetSection
  <2>1. \/ UNCHANGED <<fatVars, sdVars>>
        \/ StartScan("keys", get.section, 0)
        \/ StartScan("sections", "", get.s + 1)
    BY <1>3, Zenon DEF GetSection, NextSection, BrowseSections, BrowseKeys
  <2>. QED BY <2>1, ScanFat, QuietStep
<1>4. CASE GetValue
  <2>1. \/ UNCHANGED <<fatVars, sdVars>>
        \/ StartScan("keys", get.section, get.k + 1)
        \/ StartScan("sections", "", get.s + 1)
    BY <1>4, Zenon DEF GetValue, NextSection, BrowseSections, BrowseKeys
  <2>. QED BY <2>1, ScanFat, QuietStep
<1>. QED BY <1>1, <1>2, <1>3, <1>4 DEF IniStep

\* So is a step of the menu.
LEMMA UiFat ==
  ASSUME FatInv, UiStep \/ User
  PROVE  FatInv' /\ StreamStep
<1>1. CASE AutoStart \/ ReadConfigurationFile
  BY <1>1, ScanFat DEF AutoStart, ReadConfigurationFile, BrowseSections
<1>2. CASE AutoSection
  BY <1>2, KeyFat, QuietStep DEF AutoSection, Quiet
<1>3. CASE AutoKey
  BY <1>3, ScanFat, QuietStep DEF AutoKey, Quiet, BrowseSections
<1>4. CASE ListSection
  <2>1. UNCHANGED <<fatVars, sdVars>> \/ \E n : BrowseSections(n)
    BY <1>4, Zenon DEF ListSection, Quiet
  <2>. QED BY <2>1, ScanFat, QuietStep DEF BrowseSections
<1>5. CASE Poll \/ LookForCard \/ CheckRemoved \/ NoKey \/ User
  <2>1. UNCHANGED <<fatVars, sdVars>>
    BY <1>5 DEF OnlyUi, Quiet, Poll, LookForCard, CheckRemoved, NoKey, User, Tab, Down, Up, Enter
  <2>. QED BY <2>1, QuietStep
<1>. QED BY <1>1, <1>2, <1>3, <1>4, <1>5 DEF UiStep

-----------------------------------------------------------------------------
(* uiConfig.                                                               *)

\* A number in the header of a bit file.
LEMMA LengthFacts ==
  ASSUME FatInv, Got("length")
  PROVE  Number[call.got[1].text] \in Nat
<1>1. call.got \in Seq(FileItems \cup {Junk}) /\ call.got # <<>>
  BY DEF FatInv, GotInv, Got
<1>2. call.got[1] \in FileItems \cup {Junk}
  BY <1>1
<1>3. call.got[1] # Junk /\ Kind(call.got[1]) = "length"
  BY DEF Got, Kind
<1>4. PICK c \in Card : \E f \in DOMAIN Files[c] : \E i \in DOMAIN Files[c][f] :
             call.got[1] = Files[c][f][i]
  BY <1>2, <1>3 DEF FileItems
<1>. QED BY <1>3, <1>4, NumberAssumption, Zenon

\* Outside the header nothing is said of it.
LEMMA HeaderStays ==
  ASSUME HeaderInv, load'.at \notin Header
  PROVE  HeaderInv'
BY DEF HeaderInv, Header

\* The byte that follows.
LEMMA ByteReach ==
  ASSUME NEW n \in Nat
  PROVE  FatInv /\ Finished /\ Reach <= n /\ StartRead(1)
           => FatInv' /\ StreamStep /\ call'.at \in {"read", "none"} /\ Reach' <= n + 1
<1>1. SUFFICES ASSUME FatInv /\ Finished /\ Reach <= n /\ StartRead(1)
               PROVE  FatInv' /\ StreamStep /\ call'.at \in {"read", "none"} /\ Reach' <= n + 1
  OBVIOUS
<1>2. FatInv' /\ StreamStep
  BY <1>1, ByteFat
<1>3. Reach = fil.fptr
  BY <1>1 DEF Reach, Finished, InCall
<1>4. call'.at \in {"read", "none"} /\ Reach' <= fil.fptr + 1
  <2>1. 1 \in Nat \ {0}
    OBVIOUS
  <2>. QED BY <1>1, <2>1, StartReadReach
<1>5. PICK p, r : p = fil.fptr /\ r = Reach'
  OBVIOUS
<1>6. p \in Nat /\ p <= n /\ r <= p + 1
  BY <1>1, <1>3, <1>4, <1>5, PositionFacts, Zenon
<1>7. r \in Nat
  BY <1>2, <1>5, ReachAfter
<1>8. r <= n + 1
  BY <1>6, <1>7
<1>. QED BY <1>2, <1>4, <1>5, <1>8, Zenon

\* A place ahead.
LEMMA SkipReach ==
  ASSUME NEW m \in Nat, NEW n \in Nat, m <= n
  PROVE  FatInv /\ Finished /\ Reach <= m /\ StartSeek(n)
           => FatInv' /\ StreamStep /\ call'.at \in {"seek", "none"} /\ Reach' <= n
<1>1. SUFFICES ASSUME FatInv /\ Finished /\ Reach <= m /\ StartSeek(n)
               PROVE  FatInv' /\ StreamStep /\ call'.at \in {"seek", "none"} /\ Reach' <= n
  OBVIOUS
<1>2. call.at = "none" /\ Reach = fil.fptr
  BY <1>1 DEF Reach, Finished, InCall
<1>3. fil.fptr <= n
  <2>1. PICK p : p = fil.fptr
    OBVIOUS
  <2>2. p \in Nat /\ p <= m
    BY <1>1, <1>2, <2>1, PositionFacts, Zenon
  <2>3. p <= n
    BY <2>2
  <2>. QED BY <2>1, <2>3
<1>. QED BY <1>1, <1>2, <1>3, StartSeekStep, StartSeekReach
\* Everything that is kept.
Kept == FatInv' /\ StreamStep /\ TurnInv' /\ HeaderInv'

\* A key is looked for.
LEMMA AskedKeeps ==
  ASSUME FatInv, TurnInv, HeaderInv, ui.at = "config", UNCHANGED ui,
         "at" \in DOMAIN load', "pos" \in DOMAIN load', load'.at \notin Header,
         NEW section, NEW key, NEW index, GetKey(section, key, index)
  PROVE  Kept
<1>1. FatInv' /\ StreamStep
  BY KeyFat
<1>2. /\ "at" \in DOMAIN scan' /\ "at" \in DOMAIN get'
      /\ scan'.at = "open" /\ get'.at = "sections"
  BY KeyTurns DEF TurnInv
<1>3. TurnInv'
  BY <1>2 DEF TurnInv
<1>. QED BY <1>1, <1>3, HeaderStays DEF Kept

\* The loader asks for a key.
LEMMA AskForKeeps ==
  ASSUME FatInv, TurnInv, HeaderInv, load.at # "off" \/ ui.at = "config", UNCHANGED ui,
         NEW key, key \notin Header, NEW index, AskFor(key, index)
  PROVE  Kept
<1>1. "at" \in DOMAIN load' /\ "pos" \in DOMAIN load' /\ load'.at = key
  BY DEF AskFor, TurnInv
<1>2. ui.at = "config"
  BY DEF TurnInv
<1>3. GetKey(ui.selected, key, index)
  BY DEF AskFor
<1>. QED BY <1>1, <1>2, <1>3, AskedKeeps

\* A file is read while no key is looked for.
LEMMA OnlyFile ==
  ASSUME TurnInv, load.at # "off", UNCHANGED <<ui, iniVars>>,
         "at" \in DOMAIN load', "pos" \in DOMAIN load', load'.at \in Header => get.at = "done"
  PROVE  TurnInv'
BY DEF TurnInv, iniVars

\* The loader opens a file.
LEMMA OpenedKeeps ==
  ASSUME FatInv, TurnInv, HeaderInv, load.at # "off", get.at = "done", UNCHANGED <<ui, iniVars>>,
         NEW at, at \in {"ramopen", "bitopen", "rawopen"}, load'.at = at,
         "at" \in DOMAIN load', "pos" \in DOMAIN load',
         NEW name, StartOpen(name)
  PROVE  Kept
<1>1. FatInv' /\ StreamStep
  BY OpenStarts
<1>2. TurnInv'
  BY OnlyFile
<1>3. fil'.fptr = 0 /\ call'.at \in Opening
  BY DEF StartOpen, NoFile, Idle, Opening
<1>4. HeaderInv'
  BY <1>3 DEF HeaderInv
<1>. QED BY <1>1, <1>2, <1>4 DEF Kept

\* The loader reads the next sector to send.
LEMMA SectorKeeps ==
  ASSUME FatInv, TurnInv, HeaderInv, load.at # "off", UNCHANGED <<ui, iniVars>>,
         Finished, StartRead(SectorSize), load'.at \in {"ramread", "feed"},
         "at" \in DOMAIN load', "pos" \in DOMAIN load'
  PROVE  Kept
<1>1. FatInv' /\ StreamStep
  BY SectorFat
<1>2. load'.at \notin Header
  BY DEF Header
<1>3. TurnInv'
  BY <1>2, OnlyFile
<1>. QED BY <1>1, <1>2, <1>3, HeaderStays DEF Kept

\* uiConfig is done.
LEMMA LoopKeeps ==
  ASSUME FatInv, TurnInv, HeaderInv, load.at # "off", get.at = "done", Load("off"),
         ui' = [ui EXCEPT !.at = "loop"], Quiet
  PROVE  Kept
<1>1. UNCHANGED <<sdVars, fatVars, scan, get>>
  BY DEF Quiet
<1>2. FatInv' /\ StreamStep
  BY <1>1, QuietStep
<1>3. load'.at = "off" /\ "at" \in DOMAIN load' /\ "pos" \in DOMAIN load'
  BY DEF Load, TurnInv
<1>4. ui'.at = "loop" /\ "at" \in DOMAIN ui'
  BY DEF TurnInv
<1>5. scan.at \notin {"open", "gets"}
  BY DEF TurnInv
<1>6. TurnInv'
  BY <1>1, <1>3, <1>4, <1>5 DEF TurnInv, Header
<1>7. HeaderInv'
  BY <1>3, HeaderStays DEF Header
<1>. QED BY <1>2, <1>6, <1>7 DEF Kept

\* The ROMs and the RAM.
LEMMA RomKeeps ==
  ASSUME FatInv, TurnInv, HeaderInv,
         Config \/ RomKey \/ RamOpened \/ RamRead \/ ClearKey
  PROVE  Kept
<1>1. {"rom", "ramclear", "bitstream", "rawbitstream", "spimaster", "ramopen", "ramread"} \cap Header = {}
  BY DEF Header
<1>2. CASE Config
  <2>1. /\ ui.at = "config" /\ UNCHANGED ui /\ GetKey(ui.selected, "rom", 0)
        /\ load'.at = "rom" /\ "at" \in DOMAIN load' /\ "pos" \in DOMAIN load'
    BY <1>2 DEF Config, UiAt, OnlyLoad, TurnInv
  <2>2. load'.at \notin Header
    BY <1>1, <2>1
  <2>. QED BY <2>1, <2>2, AskedKeeps
<1>3. CASE RomKey
  <2>1. /\ load.at = "rom" /\ get.at = "done" /\ UNCHANGED ui
        /\ \/ AskFor("ramclear", 0)
           \/ /\ UNCHANGED iniVars /\ \E file : StartOpen(file)
              /\ load'.at = "ramopen" /\ "at" \in DOMAIN load' /\ "pos" \in DOMAIN load'
    <3>1. \/ AskFor("ramclear", 0)
          \/ /\ UNCHANGED iniVars
             /\ \E file, addr :
                  StartOpen(file) /\ load' = [load EXCEPT !.at = "ramopen", !.file = file, !.addr = addr]
      BY <1>3, Zenon DEF RomKey
    <3>2. ASSUME NEW file, NEW addr, load' = [load EXCEPT !.at = "ramopen", !.file = file, !.addr = addr]
          PROVE  load'.at = "ramopen" /\ "at" \in DOMAIN load' /\ "pos" \in DOMAIN load'
      BY <3>2 DEF TurnInv
    <3>3. load.at = "rom" /\ get.at = "done" /\ UNCHANGED ui
      BY <1>3 DEF RomKey, LoadAt, LookedUp, OnlyLoad
    <3>. QED BY <3>1, <3>2, <3>3
  <2>. QED BY <1>1, <2>1, AskForKeeps, OpenedKeeps
<1>4. CASE RamOpened
  <2>1. /\ load.at = "ramopen" /\ Finished /\ UNCHANGED ui
        /\ \/ AskFor("rom", load.index + 1)
           \/ Load("ramread") /\ StartRead(SectorSize) /\ UNCHANGED iniVars
    BY <1>4 DEF RamOpened, LoadAt
  <2>2. CASE AskFor("rom", load.index + 1)
    BY <1>1, <2>1, <2>2, AskForKeeps
  <2>3. CASE Load("ramread") /\ StartRead(SectorSize) /\ UNCHANGED iniVars
    <3>1. load'.at = "ramread" /\ "at" \in DOMAIN load' /\ "pos" \in DOMAIN load'
      BY <2>3 DEF Load, TurnInv
    <3>. QED BY <2>1, <2>3, <3>1, SectorKeeps
  <2>. QED BY <2>1, <2>2, <2>3
<1>5. CASE RamRead
  <2>1. /\ load.at = "ramread" /\ Finished /\ UNCHANGED ui
        /\ \/ AskFor("rom", load.index + 1)
           \/ load' = [load EXCEPT !.buffer = Filled] /\ StartRead(SectorSize) /\ UNCHANGED iniVars
    BY <1>5 DEF RamRead, LoadAt
  <2>2. CASE AskFor("rom", load.index + 1)
    BY <1>1, <2>1, <2>2, AskForKeeps
  <2>3. CASE load' = [load EXCEPT !.buffer = Filled] /\ StartRead(SectorSize) /\ UNCHANGED iniVars
    <3>1. load'.at = "ramread" /\ "at" \in DOMAIN load' /\ "pos" \in DOMAIN load'
      BY <2>1, <2>3 DEF TurnInv
    <3>. QED BY <2>1, <2>3, <3>1, SectorKeeps
  <2>. QED BY <2>1, <2>2, <2>3
<1>6. CASE ClearKey
  <2>1. load.at = "ramclear" /\ UNCHANGED ui
    BY <1>6 DEF ClearKey, LoadAt
  <2>2. \/ AskFor("bitstream", 0)
        \/ /\ GetKey(ui.selected, "ramclear", load.index + 1)
           /\ \E addr, length :
                load' = [load EXCEPT !.addr = addr, !.length = length, !.index = @ + 1]
    BY <1>6, Zenon DEF ClearKey
  <2>3. CASE AskFor("bitstream", 0)
    BY <1>1, <2>1, <2>3, AskForKeeps
  <2>4. ASSUME GetKey(ui.selected, "ramclear", load.index + 1), NEW addr, NEW length,
               load' = [load EXCEPT !.addr = addr, !.length = length, !.index = @ + 1]
        PROVE  Kept
    <3>1. load'.at = "ramclear" /\ "at" \in DOMAIN load' /\ "pos" \in DOMAIN load' /\ ui.at = "config"
      BY <2>1, <2>4 DEF TurnInv
    <3>2. load'.at \notin Header
      BY <1>1, <3>1
    <3>. QED BY <2>1, <2>4, <3>1, <3>2, AskedKeeps
  <2>. QED BY <2>2, <2>3, <2>4
<1>. QED BY <1>2, <1>3, <1>4, <1>5, <1>6

\* The bitstream is found, or there is none.
LEMMA BitKeeps ==
  ASSUME FatInv, TurnInv, HeaderInv,
         BitKey \/ RawKey \/ RawOpened \/ FeedFpga \/ SpiMaster
  PROVE  Kept
<1>1. {"rawbitstream", "spimaster", "feed"} \cap Header = {}
  BY DEF Header
<1>2. ASSUME NEW key, NEW at, at \in {"bitopen", "rawopen"}, key # "off", ConfigureFrom(key, at)
      PROVE  Kept
  <2>1. /\ load.at # "off" /\ get.at = "done" /\ UNCHANGED <<ui, iniVars>> /\ Load(at)
        /\ StartOpen(FileName(scan.value))
    BY <1>2 DEF ConfigureFrom, LoadAt, LookedUp
  <2>2. load'.at = at /\ "at" \in DOMAIN load' /\ "pos" \in DOMAIN load'
    BY <2>1 DEF Load, TurnInv
  <2>. QED BY <1>2, <2>1, <2>2, OpenedKeeps
<1>3. CASE BitKey
  <2>1. \/ ConfigureFrom("bitstream", "bitopen")
        \/ load.at = "bitstream" /\ UNCHANGED ui /\ AskFor("rawbitstream", 0)
    BY <1>3 DEF BitKey, LoadAt, OnlyLoad
  <2>. QED BY <1>1, <1>2, <2>1, AskForKeeps
<1>4. CASE RawKey
  <2>1. \/ ConfigureFrom("rawbitstream", "rawopen")
        \/ /\ load.at = "rawbitstream" /\ get.at = "done" /\ Load("off")
           /\ ui' = [ui EXCEPT !.at = "loop"] /\ Quiet
    BY <1>4 DEF RawKey, LoadAt, LookedUp
  <2>. QED BY <1>2, <2>1, LoopKeeps
<1>5. CASE RawOpened
  <2>1. /\ load.at = "rawopen" /\ Finished /\ UNCHANGED ui
        /\ \/ AskFor("spimaster", 0)
           \/ Load("feed") /\ StartRead(SectorSize) /\ UNCHANGED iniVars
    BY <1>5 DEF RawOpened, Step, LoadAt, OnlyLoad
  <2>2. CASE AskFor("spimaster", 0)
    BY <1>1, <2>1, <2>2, AskForKeeps
  <2>3. CASE Load("feed") /\ StartRead(SectorSize) /\ UNCHANGED iniVars
    <3>1. load'.at = "feed" /\ "at" \in DOMAIN load' /\ "pos" \in DOMAIN load'
      BY <2>3 DEF Load, TurnInv
    <3>. QED BY <2>1, <2>3, <3>1, SectorKeeps
  <2>. QED BY <2>1, <2>2, <2>3
<1>6. CASE FeedFpga
  <2>1. /\ load.at = "feed" /\ Finished /\ UNCHANGED ui
        /\ \/ AskFor("spimaster", 0)
           \/ load' = [load EXCEPT !.buffer = Filled] /\ StartRead(SectorSize) /\ UNCHANGED iniVars
    BY <1>6 DEF FeedFpga, LoadAt
  <2>2. CASE AskFor("spimaster", 0)
    BY <1>1, <2>1, <2>2, AskForKeeps
  <2>3. CASE load' = [load EXCEPT !.buffer = Filled] /\ StartRead(SectorSize) /\ UNCHANGED iniVars
    <3>1. load'.at = "feed" /\ "at" \in DOMAIN load' /\ "pos" \in DOMAIN load'
      BY <2>1, <2>3 DEF TurnInv
    <3>. QED BY <2>1, <2>3, <3>1, SectorKeeps
  <2>. QED BY <2>1, <2>2, <2>3
<1>7. CASE SpiMaster
  <2>1. /\ load.at = "spimaster" /\ get.at = "done" /\ Load("off")
        /\ ui' = [ui EXCEPT !.at = "loop"] /\ Quiet
    BY <1>7 DEF SpiMaster, LoadAt, LookedUp
  <2>. QED BY <2>1, LoopKeeps
<1>. QED BY <1>3, <1>4, <1>5, <1>6, <1>7

\* What the header's step does to the file is within bounds.
LEMMA HeaderKeeps ==
  ASSUME FatInv, TurnInv, HeaderInv, load.at \in Header, UNCHANGED <<ui, iniVars>>,
         FatInv' /\ StreamStep, "at" \in DOMAIN load', "pos" \in DOMAIN load', HeaderInv'
  PROVE  Kept
<1>1. load.at # "off" /\ get.at = "done"
  BY DEF Header, TurnInv
<1>. QED BY <1>1, OnlyFile DEF Kept

\* The loader asks for the mode of the SPI bus.
LEMMA StepAsks ==
  ASSUME FatInv, TurnInv, HeaderInv, load.at # "off", OnlyLoad, AskFor("spimaster", 0)
  PROVE  Kept
<1>1. "spimaster" \notin Header /\ UNCHANGED ui
  BY DEF Header, OnlyLoad
<1>. QED BY <1>1, AskForKeeps

\* readBitFileHeader and what follows it.
LEMMA BitFileKeeps ==
  ASSUME FatInv, TurnInv, HeaderInv,
         BitOpened \/ Magic \/ Field \/ Skip \/ Data \/ Sought
  PROVE  Kept
<1>1. CASE BitOpened
  <2>1. /\ load.at = "bitopen" /\ Finished /\ OnlyLoad
        /\ \/ AskFor("spimaster", 0)
           \/ Load("magic") /\ StartRead(1) /\ UNCHANGED iniVars
    BY <1>1 DEF BitOpened, Step, LoadAt
  <2>2. ASSUME Load("magic"), StartRead(1), UNCHANGED iniVars PROVE Kept
    <3>1. load'.at = "magic" /\ "at" \in DOMAIN load' /\ "pos" \in DOMAIN load'
      BY <2>2 DEF Load, TurnInv
    <3>2. Reach <= 0
      <4>1. Reach = 0
        BY <2>1 DEF Reach, HeaderInv, Finished, InCall
      <4>. QED BY <4>1
    <3>3. FatInv' /\ StreamStep /\ call'.at \in {"read", "none"} /\ Reach' <= 0 + 1
      <4>1. 0 \in Nat
        OBVIOUS
      <4>. QED BY <2>1, <2>2, <3>2, <4>1, ByteReach
    <3>4. HeaderInv'
      <4>1. 0 + 1 = 1
        OBVIOUS
      <4>2. Reach' <= 1
        BY <3>3, <4>1, Zenon
      <4>. QED BY <3>1, <3>3, <4>2, Zenon DEF HeaderInv
    <3>. QED BY <2>1, <2>2, <3>1, <3>3, <3>4, HeaderKeeps DEF Header, OnlyLoad
  <2>. QED BY <2>1, <2>2, StepAsks
<1>2. CASE Magic
  <2>1. /\ load.at = "magic" /\ Finished /\ OnlyLoad
        /\ \/ AskFor("spimaster", 0)
           \/ load' = [load EXCEPT !.at = "field", !.pos = 1, !.index = 1] /\ StartRead(1) /\ UNCHANGED iniVars
    BY <1>2 DEF Magic, Step, LoadAt
  <2>2. ASSUME load' = [load EXCEPT !.at = "field", !.pos = 1, !.index = 1], StartRead(1), UNCHANGED iniVars
        PROVE  Kept
    <3>1. load'.at = "field" /\ load'.pos = 1 /\ "at" \in DOMAIN load' /\ "pos" \in DOMAIN load'
      BY <2>2 DEF TurnInv
    <3>2. Reach <= 1
      BY <2>1 DEF HeaderInv
    <3>3. FatInv' /\ StreamStep /\ call'.at \in {"read", "none"} /\ Reach' <= 1 + 1
      <4>1. 1 \in Nat
        OBVIOUS
      <4>. QED BY <2>1, <2>2, <3>2, <4>1, ByteReach
    <3>4. HeaderInv'
      <4>1. 1 \in Nat
        OBVIOUS
      <4>. QED BY <3>1, <3>3, <4>1, Zenon DEF HeaderInv
    <3>. QED BY <2>1, <2>2, <3>1, <3>3, <3>4, HeaderKeeps DEF Header, OnlyLoad
  <2>. QED BY <2>1, <2>2, StepAsks
<1>3. ASSUME NEW pos \in Nat, load.at \in {"field", "data"}, load.pos + 1 <= pos,
             NEW at, at \in {"skip", "sought"}, Finished, OnlyLoad,
             load' = [load EXCEPT !.at = at, !.pos = pos], StartSeek(pos), UNCHANGED iniVars
      PROVE  Kept
  <2>1. load'.at = at /\ load'.pos = pos /\ "at" \in DOMAIN load' /\ "pos" \in DOMAIN load'
    BY <1>3 DEF TurnInv
  <2>2. PICK m : m = load.pos + 1
    OBVIOUS
  <2>3. m \in Nat /\ Reach <= m /\ m <= pos
    <3>1. load.pos \in Nat /\ Reach <= load.pos + 1
      BY <1>3 DEF HeaderInv
    <3>2. m \in Nat
      BY <2>2, <3>1
    <3>. QED BY <1>3, <2>2, <3>1, <3>2, Zenon
  <2>4. FatInv' /\ StreamStep /\ call'.at \in {"seek", "none"} /\ Reach' <= pos
    BY <1>3, <2>3, SkipReach
  <2>5. HeaderInv'
    BY <1>3, <2>1, <2>4, Zenon DEF HeaderInv
  <2>. QED BY <1>3, <2>1, <2>4, <2>5, HeaderKeeps DEF Header, OnlyLoad
<1>4. CASE Field
  <2>1. PICK pos : pos = load.pos + 1 + Number[call.got[1].text]
    OBVIOUS
  <2>2. /\ load.at = "field" /\ Finished /\ OnlyLoad
        /\ \/ AskFor("spimaster", 0)
           \/ /\ Got("length") /\ load' = [load EXCEPT !.at = "skip", !.pos = pos]
              /\ StartSeek(pos) /\ UNCHANGED iniVars
    BY <1>4, <2>1, Zenon DEF Field, Step, LoadAt
  <2>3. ASSUME Got("length") PROVE pos \in Nat /\ load.pos + 1 <= pos
    <3>1. PICK n, k : n = Number[call.got[1].text] /\ k = load.pos
      OBVIOUS
    <3>2. n \in Nat /\ k \in Nat
      BY <2>2, <2>3, <3>1, LengthFacts DEF HeaderInv
    <3>3. k + 1 + n \in Nat /\ k + 1 <= k + 1 + n
      BY <3>2
    <3>. QED BY <2>1, <3>1, <3>3, Zenon
  <2>. QED BY <1>3, <2>2, <2>3, StepAsks
<1>5. CASE Data
  <2>1. PICK pos : pos = load.pos + 1
    OBVIOUS
  <2>2. /\ load.at = "data" /\ Finished /\ OnlyLoad
        /\ \/ AskFor("spimaster", 0)
           \/ /\ load' = [load EXCEPT !.at = "sought", !.pos = pos]
              /\ StartSeek(pos) /\ UNCHANGED iniVars
    BY <1>5, <2>1, Zenon DEF Data, Step, LoadAt
  <2>3. pos \in Nat /\ load.pos + 1 <= pos
    <3>1. load.pos \in Nat
      BY <2>2 DEF HeaderInv
    <3>. QED BY <2>1, <3>1
  <2>. QED BY <1>3, <2>2, <2>3, StepAsks
<1>6. CASE Skip
  <2>1. /\ load.at = "skip" /\ Finished /\ OnlyLoad
        /\ \/ AskFor("spimaster", 0)
           \/ /\ StartRead(1) /\ UNCHANGED iniVars
              /\ \E at \in {"field", "data"} : \E index : load' = [load EXCEPT !.at = at, !.index = index]
    BY <1>6, Zenon DEF Skip, Step, LoadAt
  <2>2. ASSUME StartRead(1), UNCHANGED iniVars, NEW at \in {"field", "data"}, NEW index,
               load' = [load EXCEPT !.at = at, !.index = index]
        PROVE  Kept
    <3>1. load'.at = at /\ load'.pos = load.pos /\ "at" \in DOMAIN load' /\ "pos" \in DOMAIN load'
      BY <2>2 DEF TurnInv
    <3>2. PICK m : m = load.pos
      OBVIOUS
    <3>3. m \in Nat /\ Reach <= m
      BY <2>1, <3>2 DEF HeaderInv
    <3>4. FatInv' /\ StreamStep /\ call'.at \in {"read", "none"} /\ Reach' <= m + 1
      BY <2>1, <2>2, <3>3, ByteReach
    <3>5. HeaderInv'
      BY <2>2, <3>1, <3>2, <3>3, <3>4, Zenon DEF HeaderInv
    <3>. QED BY <2>1, <2>2, <3>1, <3>4, <3>5, HeaderKeeps DEF Header, OnlyLoad
  <2>. QED BY <2>1, <2>2, StepAsks
<1>7. CASE Sought
  <2>1. /\ load.at = "sought" /\ Finished /\ OnlyLoad
        /\ \/ AskFor("spimaster", 0)
           \/ Load("feed") /\ StartRead(SectorSize) /\ UNCHANGED iniVars
    BY <1>7 DEF Sought, Step, LoadAt
  <2>2. ASSUME Load("feed"), StartRead(SectorSize), UNCHANGED iniVars PROVE Kept
    <3>1. load'.at = "feed" /\ "at" \in DOMAIN load' /\ "pos" \in DOMAIN load'
      BY <2>2 DEF Load, TurnInv
    <3>. QED BY <2>1, <2>2, <3>1, SectorKeeps DEF OnlyLoad
  <2>. QED BY <2>1, <2>2, StepAsks
<1>. QED BY <1>1, <1>2, <1>4, <1>5, <1>6, <1>7

-----------------------------------------------------------------------------
(* The stream.                                                             *)

CardInv == FatInv /\ TurnInv /\ HeaderInv

\* A step of a call, while the program waits for it.
LEMMA CallKeeps ==
  ASSUME CardInv, FatStep, UNCHANGED <<iniVars, menuVars>>
  PROVE  Kept
<1>1. /\ FatInv' /\ StreamStep
      /\ call.at \in Opening => fil'.fptr = 0 /\ call'.at \in Opening \cup {"none"}
      /\ call.at \in {"read", "seek"} => Sooner
      /\ call.at # "none"
  BY FatStepStep DEF CardInv
<1>2. load' = load /\ ui' = ui /\ scan' = scan /\ get' = get
  BY DEF iniVars, menuVars
<1>3. TurnInv'
  BY <1>2 DEF CardInv, TurnInv
<1>4. ASSUME NEW n \in Nat, call.at \in {"read", "seek"}, Reach <= n
      PROVE  Reach' <= n
  <2>1. PICK q, r : q = Reach /\ r = Reach'
    OBVIOUS
  <2>2. q \in Nat /\ r \in Nat
    BY <1>1, <2>1, ReachNat, ReachAfter DEF CardInv
  <2>3. r <= q /\ q <= n
    BY <1>1, <1>4, <2>1, Zenon DEF Sooner
  <2>4. r <= n
    BY <2>2, <2>3
  <2>. QED BY <2>1, <2>4
<1>5. HeaderInv'
  <2>1. HeaderInv
    BY DEF CardInv
  <2>2. CASE load.at = "bitopen"
    <3>1. fil'.fptr = 0 /\ call'.at \in Opening \cup {"none"}
      BY <1>1, <2>1, <2>2 DEF HeaderInv
    <3>. QED BY <1>2, <2>2, <3>1 DEF HeaderInv
  <2>3. CASE load.at = "magic"
    <3>1. call.at = "read" /\ Reach <= 1 /\ 1 \in Nat
      BY <1>1, <2>1, <2>3 DEF HeaderInv
    <3>2. call'.at \in {"read", "none"} /\ Reach' <= 1
      BY <1>1, <1>4, <3>1 DEF Sooner
    <3>. QED BY <1>2, <2>3, <3>2 DEF HeaderInv
  <2>4. CASE load.at \in {"field", "data"}
    <3>1. call.at = "read" /\ load.pos \in Nat /\ Reach <= load.pos + 1
      BY <1>1, <2>1, <2>4 DEF HeaderInv
    <3>2. load.pos + 1 \in Nat
      BY <3>1
    <3>3. call'.at \in {"read", "none"}
      BY <1>1, <3>1 DEF Sooner
    <3>4. Reach' <= load.pos + 1
      BY <1>4, <3>1, <3>2
    <3>. QED BY <1>2, <2>4, <3>1, <3>3, <3>4 DEF HeaderInv
  <2>5. CASE load.at \in {"skip", "sought"}
    <3>1. call.at = "seek" /\ load.pos \in Nat /\ Reach <= load.pos
      BY <1>1, <2>1, <2>5 DEF HeaderInv
    <3>2. call'.at \in {"seek", "none"}
      BY <1>1, <3>1 DEF Sooner
    <3>3. Reach' <= load.pos
      BY <1>4, <3>1
    <3>. QED BY <1>2, <2>5, <3>1, <3>2, <3>3 DEF HeaderInv
  <2>6. CASE load.at \notin Header
    BY <1>2, <2>1, <2>6, HeaderStays
  <2>. QED BY <2>2, <2>3, <2>4, <2>5, <2>6 DEF Header
<1>. QED BY <1>1, <1>3, <1>5 DEF Kept

\* Every step keeps the invariant, and is one of the stream or none.
LEMMA NextKeeps ==
  ASSUME CardInv, [Next]_vars
  PROVE  CardInv' /\ StreamStep
<1>1. FatInv /\ TurnInv /\ HeaderInv
  BY DEF CardInv
<1>2. CASE FatStep /\ UNCHANGED <<iniVars, menuVars>>
  BY <1>2, CallKeeps DEF Kept, CardInv
<1>3. CASE IniStep /\ UNCHANGED menuVars
  <2>1. FatInv' /\ StreamStep
    BY <1>1, <1>3, IniFat
  <2>2. TurnInv' /\ load' = load /\ load.at \notin Header
    BY <1>1, <1>3, IniTurns
  <2>. QED BY <1>1, <2>1, <2>2, HeaderStays DEF CardInv
<1>4. CASE UiStep \/ User
  <2>1. FatInv' /\ StreamStep
    BY <1>1, <1>4, UiFat
  <2>2. TurnInv' /\ load' = load /\ load.at \notin Header
    BY <1>1, <1>4, UiTurns
  <2>. QED BY <1>1, <2>1, <2>2, HeaderStays DEF CardInv
<1>5. CASE LoadStep
  <2>1. Kept
    BY <1>1, <1>5, RomKeeps, BitKeeps, BitFileKeeps, Zenon DEF LoadStep
  <2>. QED BY <2>1 DEF Kept, CardInv
<1>6. CASE Hand \/ (Tick /\ NotCard)
  <2>1. FatInv' /\ StreamStep /\ NotCard
    BY <1>1, <1>6, OutsideStep
  <2>2. load' = load /\ ui' = ui /\ scan' = scan /\ get' = get /\ fil' = fil /\ call' = call
    BY <2>1 DEF NotCard, fatVars, iniVars, menuVars
  <2>3. TurnInv' /\ HeaderInv'
    BY <1>1, <2>2 DEF TurnInv, HeaderInv, Reach
  <2>. QED BY <2>1, <2>3 DEF CardInv
<1>7. CASE UNCHANGED vars
  <2>1. UNCHANGED <<sdVars, fatVars>> /\ load' = load /\ ui' = ui /\ scan' = scan /\ get' = get
        /\ fil' = fil /\ call' = call
    BY <1>7 DEF vars, fatVars, iniVars, menuVars
  <2>2. TurnInv' /\ HeaderInv'
    BY <1>1, <2>1 DEF TurnInv, HeaderInv, Reach
  <2>. QED BY <1>1, <2>1, <2>2, QuietStep DEF CardInv
<1>. QED BY <1>2, <1>3, <1>4, <1>5, <1>6, <1>7 DEF Next, Program

\* It holds in the beginning.
LEMMA StreamStarts ==
  ASSUME Init
  PROVE  CardInv /\ Stream!Init
<1>1. fil = NoFile /\ call = Idle /\ fs = [vol |-> NoVolume, winsect |-> NoSector, win |-> <<>>]
      /\ card \in Card \cup {NoCard} /\ awake = FALSE
  BY DEF Init, FatInit, SdInit
<1>2. /\ fil.card = NoCard /\ fil.name = "" /\ fil.err = FALSE /\ fil.fptr = 0 /\ fil.fsize = 0
      /\ DOMAIN fil = {"card", "name", "err", "sclust", "fsize", "fptr", "clust", "dsect", "buf"}
  BY <1>1 DEF NoFile
<1>3. /\ call.at = "none" /\ call.got = <<>> /\ call.linked = FALSE /\ call.idx = 0
      /\ DOMAIN call = {"at", "res", "got", "btr", "name", "todo", "clust", "idx", "linked"}
  BY <1>1 DEF Idle
<1>4. DOMAIN fs = {"vol", "winsect", "win"}
  BY <1>1
<1>5. SocketInv /\ FieldsInv /\ OpenInv /\ VolumeInv /\ DirectoryInv
  <2>1. SocketInv
    BY <1>1, <1>2 DEF SocketInv
  <2>2. FieldsInv
    BY <1>2, <1>3, <1>4 DEF FieldsInv
  <2>3. OpenInv
    BY <1>2, <1>3 DEF OpenInv, Opening
  <2>4. VolumeInv /\ DirectoryInv
    BY <1>2, <1>3 DEF VolumeInv, DirectoryInv, Mounted, Opening
  <2>. QED BY <2>1, <2>2, <2>3, <2>4
<1>6. FileInv /\ ClusterInv /\ BufferInv /\ ReadingInv /\ SeekingInv /\ GotInv
  <2>1. FileInv /\ ClusterInv /\ BufferInv /\ ReadingInv /\ SeekingInv
    BY <1>2, <1>3 DEF FileInv, ClusterInv, BufferInv, FileOpen, ReadingInv, SeekingInv
  <2>2. <<>> \in Seq(FileItems \cup {Junk})
    OBVIOUS
  <2>. QED BY <1>3, <2>1, <2>2, Zenon DEF GotInv
<1>7. TurnInv /\ HeaderInv
  BY DEF Init, IniInit, MenuInit, TurnInv, HeaderInv, Header
<1>8. Stream!Init
  BY <1>2, <1>3 DEF Stream!Init, Text, Lost
<1>. QED BY <1>5, <1>6, <1>7, <1>8 DEF CardInv, FatInv

\* f_open, f_read and f_lseek (ff.c) deliver a file of one card in order,
\* whatever its clusters and the caller's portions, and stop within a sector
\* when the card is pulled: for every card that is formatted as FAT has it.
THEOREM FilesStream == Spec => StreamSpec
<1>1. Init => CardInv /\ Stream!Init
  BY StreamStarts
<1>2. CardInv /\ [Next]_vars => CardInv' /\ [Stream!Next]_(Stream!stream)
  BY NextKeeps DEF StreamStep, Stream!stream
<1>. QED BY <1>1, <1>2, PTL DEF Spec, StreamSpec, Stream!Spec
=============================================================================
