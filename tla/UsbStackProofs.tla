--------------------------- MODULE UsbStackProofs ---------------------------
(***************************************************************************)
(* The device stack by itself: what each of its functions does to a        *)
(* device, for every request and every buffer, and the invariant           *)
(* of endpoint 0 and of the application's endpoint that the interrupt      *)
(* handler, the serial interface engine and the application keep.          *)
(*                                                                         *)
(* An invariant is a conjunction over one device, as a function is an      *)
(* operator on devices; LinkProofs carries it through the steps of the     *)
(* link.  Each function has a lemma that says which fields it leaves       *)
(* alone (Kept) and what becomes of the descriptors; each event has one    *)
(* that says that the invariant is preserved (...Preserves).               *)
(***************************************************************************)
EXTENDS UsbStack, TLAPS

-----------------------------------------------------------------------------
(* The shape of a device: its fields, its descriptors, and how they change.*)

Fields ==
  {"state", "address", "config", "bd", "sie", "ustat", "pktDis", "stallIF", "setup", "cur", "next",
   "pin", "transfer", "short", "flag1", "flag2", "both", "timer", "inBusy", "source", "pos", "count",
   "outBusy", "outCount", "staged", "enabled", "cpu", "pp", "terminated", "rx", "tx", "outHandle",
   "inHandle", "boot", "fresh", "events"}

BdFields == {"own", "stall", "dts", "check", "setup", "cnt"}

Bit == {0, 1}

IsBd(b) ==
  /\ b = [f \in BdFields |-> b[f]]
  /\ b.own \in BOOLEAN /\ b.stall \in BOOLEAN /\ b.dts \in Bit

IsPair(t) == t = [x \in 0 .. 1 |-> t[x]] /\ IsBd(t[0]) /\ IsBd(t[1])

IsBdt(t) == t = [p \in Pipes |-> t[p]] /\ \A p \in Pipes : IsPair(t[p])

Entry == [pipe : Pipes, b : Bit]

\* A device with its fields, their types.
IsDev(d) == d = [f \in Fields |-> d[f]]

Flags(d) ==
  /\ d.pktDis \in BOOLEAN /\ d.flag1 \in BOOLEAN /\ d.flag2 \in BOOLEAN /\ d.both \in BOOLEAN
  /\ d.inBusy \in BOOLEAN /\ d.outBusy \in BOOLEAN

Sane(d) ==
  /\ IsDev(d) /\ IsBdt(d.bd) /\ Flags(d)
  /\ d.sie \in [Pipes -> Bit] /\ d.ustat \in Seq(Entry)
  /\ d.cur \in Bit /\ d.next \in Bit /\ d.pin \in Bit
  /\ d.timer \in Nat /\ d.setup \in Request
  /\ d.cpu \in [Pipes1 -> Bit \cup {Null}] /\ d.pp \in [Pipes1 -> Bit]
  /\ d.outHandle \in Bit \cup {Null} /\ d.inHandle \in Bit \cup {Null}

\* e is d, but for some fields.
Kept(d, e, S) == \A f \in Fields \ S : e[f] = d[f]

\* Handing a descriptor over keeps what is not written.
LEMMA GivenFact ==
  ASSUME NEW b, IsBd(b), NEW s \in BOOLEAN, NEW t \in Bit, NEW c
  PROVE  LET g == Given(b, s, t, c)
         IN  IsBd(g) /\ g.own /\ g.stall = s /\ g.dts = t /\ g.check = c
             /\ g.setup = b.setup /\ g.cnt = b.cnt
BY DEF IsBd, BdFields, Given

\* Taking one back keeps its toggle.
LEMMA BackFact ==
  ASSUME NEW b, IsBd(b)
  PROVE  IsBd(Back(b)) /\ ~Back(b).own /\ ~Back(b).stall /\ ~Back(b).setup /\ Back(b).dts = b.dts
BY DEF IsBd, BdFields, Back, NoBd

\* A table of descriptors with one of them replaced.
LEMMA PutFact ==
  ASSUME NEW t, IsBdt(t), NEW p \in Pipes, NEW x \in Bit, NEW v, IsBd(v)
  PROVE  LET u == [t EXCEPT ![p][x] = v]
         IN  /\ IsBdt(u) /\ u[p][x] = v /\ u[p][1 - x] = t[p][1 - x]
             /\ \A q \in Pipes \ {p} : u[q] = t[q]
<1>. DEFINE w == [t[p] EXCEPT ![x] = v]
            u == [t EXCEPT ![p] = w]
<1>1. IsPair(t[p]) /\ t = [q \in Pipes |-> t[q]]
  BY DEF IsBdt
<1>2. x \in 0 .. 1 /\ 1 - x \in 0 .. 1 /\ 1 - x # x
  BY DEF Bit
<1>3. w[x] = v /\ w[1 - x] = t[p][1 - x] /\ w = [y \in 0 .. 1 |-> w[y]]
  BY <1>1, <1>2 DEF IsPair
<1>4. IsPair(w)
  BY <1>1, <1>2, <1>3 DEF IsPair, Bit
<1>. HIDE DEF w
<1>5. u[p] = w /\ (\A q \in Pipes \ {p} : u[q] = t[q]) /\ u = [q \in Pipes |-> u[q]]
  BY <1>1
<1>6. IsBdt(u)
  BY <1>4, <1>5 DEF IsBdt
<1>. QED BY <1>3, <1>5, <1>6 DEF w

\* Descriptor x of pipe p is the only one that changes, and v what it becomes.
Put(d, e, p, x, v) ==
  /\ e.bd[p][x] = v /\ e.bd[p][1 - x] = d.bd[p][1 - x]
  /\ \A q \in Pipes \ {p} : e.bd[q] = d.bd[q]

\* The same, of a device.
LEMMA PutEffect ==
  ASSUME NEW d, IsBdt(d.bd), NEW p \in Pipes, NEW x \in Bit, NEW v, IsBd(v),
         NEW e, e.bd = [d.bd EXCEPT ![p][x] = v]
  PROVE  IsBdt(e.bd) /\ Put(d, e, p, x, v)
<1>. DEFINE t == d.bd
            u == [t EXCEPT ![p][x] = v]
<1>1. IsBdt(t) /\ e.bd = u
  OBVIOUS
<1>. HIDE DEF t
<1>2. IsBdt(u) /\ u[p][x] = v /\ u[p][1 - x] = t[p][1 - x] /\ \A q \in Pipes \ {p} : u[q] = t[q]
  BY <1>1, PutFact
<1>. HIDE DEF u
<1>. QED BY <1>1, <1>2 DEF Put, t

\* The next packet of a read with k bytes to go is in the buffer of descriptor x.
Packet(d, e, x, k) ==
  LET n == Lesser(k, Ep0Size)
  IN  /\ e.count = k - n /\ e.pos = d.pos + n
      /\ e.staged = [source |-> d.source, pos |-> d.pos]
      /\ e.short = IF k >= Ep0Size THEN d.short
                   ELSE IF d.short = "notUsed" THEN "pending" ELSE "sent"
      /\ e.bd["in0"][x].cnt = n

\* USBCtrlTrfTxService fills a buffer and hands nothing over.
LEMMA TxEffect ==
  ASSUME NEW d, Sane(d)
  PROVE  LET e == TxService(d)
         IN  /\ Sane(e) /\ Kept(d, e, {"short", "count", "staged", "pos", "bd"})
             /\ Packet(d, e, d.pin, d.count)
             /\ e.bd["in0"][d.pin].own = d.bd["in0"][d.pin].own
             /\ e.bd["in0"][1 - d.pin] = d.bd["in0"][1 - d.pin]
             /\ \A q \in Pipes \ {"in0"} : e.bd[q] = d.bd[q]
<1>. DEFINE n == Lesser(d.count, Ep0Size)
            e == TxService(d)
            v == [d.bd["in0"][d.pin] EXCEPT !.cnt = n]
<1>1. DOMAIN d = Fields
  BY DEF Sane, IsDev
<1>2. IsDev(e)
  BY <1>1 DEF IsDev, TxService
<1>3. e.bd = [d.bd EXCEPT !["in0"][d.pin] = v]
  BY <1>1 DEF TxService, Fields
<1>4. Kept(d, e, {"short", "count", "staged", "pos", "bd"})
  BY <1>1 DEF TxService, Kept
<1>5. IsBd(d.bd["in0"][d.pin])
  BY DEF Sane, IsBdt, IsPair, Bit, Pipes
<1>6. IsBd(v) /\ v.own = d.bd["in0"][d.pin].own /\ v.cnt = n
  <2>. HIDE DEF n
  <2>1. DOMAIN d.bd["in0"][d.pin] = BdFields
    BY <1>5 DEF IsBd
  <2>2. v.cnt = n
    BY <2>1 DEF BdFields
  <2>. QED BY <1>5, <2>2 DEF IsBd, BdFields
<1>9. /\ e.count = d.count - n /\ e.pos = d.pos + n
      /\ e.staged = [source |-> d.source, pos |-> d.pos]
      /\ e.short = IF d.count >= Ep0Size THEN d.short
                   ELSE IF d.short = "notUsed" THEN "pending" ELSE "sent"
  BY <1>1 DEF TxService, Fields
<1>. HIDE DEF v, e
<1>. HIDE DEF n
<1>7. IsBdt(e.bd) /\ Put(d, e, "in0", d.pin, v)
  <2>1. IsBdt(d.bd) /\ d.pin \in Bit /\ "in0" \in Pipes
    BY DEF Sane, Pipes
  <2>. QED BY <1>3, <1>6, <2>1, PutEffect
<1>8. Sane(e)
  BY <1>2, <1>4, <1>7 DEF Sane, Kept, Fields, Flags
<1>10. Packet(d, e, d.pin, d.count)
  BY <1>6, <1>7, <1>9 DEF Packet, Put, n
<1>. QED BY <1>4, <1>6, <1>7, <1>8, <1>10 DEF e, Put

\* The fields whose values the invariants do not look at.
Untyped == {"state", "address", "config", "stallIF", "transfer", "short", "source", "pos",
            "count", "outCount", "staged", "enabled", "terminated", "rx", "tx", "boot",
            "fresh", "events"}

\* Fields outside the invariant change nothing of it.
LEMMA SaneStill ==
  ASSUME NEW d, Sane(d), NEW e, IsDev(e), Kept(d, e, Untyped)
  PROVE  Sane(e) /\ e.bd = d.bd
BY DEF Sane, Kept, Untyped, Fields, Flags

\* Every entry of the table is a descriptor.
LEMMA BdOf ==
  ASSUME NEW t, IsBdt(t), NEW p \in Pipes, NEW x \in Bit
  PROVE  IsBd(t[p][x])
BY DEF IsBdt, IsPair, Bit

\* What Given makes of b.
IsGiven(b, g, s, t) ==
  IsBd(g) /\ g.own /\ g.stall = s /\ g.dts = t /\ g.setup = b.setup /\ g.cnt = b.cnt

\* Given does what IsGiven says.
LEMMA GivenIs ==
  ASSUME NEW b, IsBd(b), NEW s \in BOOLEAN, NEW t \in Bit, NEW c
  PROVE  IsGiven(b, Given(b, s, t, c), s, t)
BY GivenFact DEF IsGiven

\* One descriptor is handed to the SIE.
Gives(d, e, p, x, s, t) ==
  /\ IsGiven(d.bd[p][x], e.bd[p][x], s, t) /\ e.bd[p][1 - x] = d.bd[p][1 - x]
  /\ \A q \in Pipes \ {p} : e.bd[q] = d.bd[q]

\* One descriptor handed over, the rest of the device kept.
LEMMA GiveStep ==
  ASSUME NEW d, Sane(d), NEW p \in Pipes, NEW x \in Bit, NEW s \in BOOLEAN, NEW t \in Bit, NEW c,
         NEW e, e = [d EXCEPT !.bd[p][x] = Given(@, s, t, c)]
  PROVE  Sane(e) /\ Kept(d, e, {"bd"}) /\ Gives(d, e, p, x, s, t)
<1>1. DOMAIN d = Fields /\ IsBdt(d.bd)
  BY DEF Sane, IsDev
<1>2. IsDev(e) /\ Kept(d, e, {"bd"})
  BY <1>1 DEF IsDev, Kept
<1>. DEFINE v == Given(d.bd[p][x], s, t, c)
<1>3. e.bd = [d.bd EXCEPT ![p][x] = v]
  BY <1>1 DEF Fields
<1>4. IsBdt(e.bd) /\ Gives(d, e, p, x, s, t)
  <2>1. IsGiven(d.bd[p][x], v, s, t)
    BY <1>1, BdOf, GivenIs
  <2>. HIDE DEF v
  <2>2. IsBdt(e.bd) /\ Put(d, e, p, x, v)
    BY <1>1, <1>3, <2>1, PutEffect DEF IsGiven
  <2>. QED BY <2>1, <2>2 DEF Put, Gives
<1>5. Sane(e)
  BY <1>2, <1>4 DEF Sane, Kept, Fields, Flags
<1>. QED BY <1>2, <1>4, <1>5

\* USBCtrlEPAllowDataStage hands over one descriptor, with its stall bit clear.
LEMMA DataStageEffect ==
  ASSUME NEW d, Sane(d)
  PROVE  LET e == AllowDataStage(d)
         IN  /\ Sane(e) /\ Kept(d, e, {"short", "count", "staged", "pos", "bd"})
             /\ IF d.transfer = "RX" THEN Gives(d, e, "out0", d.next, FALSE, 1)
                ELSE /\ \A q \in Pipes \ {"in0"} : e.bd[q] = d.bd[q]
                     /\ e.bd["in0"][1 - d.pin] = d.bd["in0"][1 - d.pin]
                     /\ e.bd["in0"][d.pin].own /\ ~e.bd["in0"][d.pin].stall
                     /\ e.bd["in0"][d.pin].dts = 1
                     /\ Packet(d, e, d.pin, Lesser(d.count, d.setup.len))
<1>. DEFINE e == AllowDataStage(d)
<1>1. DOMAIN d = Fields /\ IsBdt(d.bd) /\ d.next \in Bit /\ d.pin \in Bit
  BY DEF Sane, IsDev
<1>2. {"in0", "out0"} \subseteq Pipes /\ FALSE \in BOOLEAN /\ 1 \in Bit
  BY DEF Pipes, Bit
<1>3. CASE d.transfer = "RX"
  <2>1. e = [d EXCEPT !.bd["out0"][d.next] = Given(@, FALSE, 1, TRUE)]
    BY <1>3 DEF AllowDataStage
  <2>. HIDE DEF e
  <2>2. Sane(e) /\ Kept(d, e, {"bd"}) /\ Gives(d, e, "out0", d.next, FALSE, 1)
    BY <1>1, <1>2, <2>1, GiveStep
  <2>. QED BY <1>3, <2>2 DEF e, Kept
<1>4. CASE d.transfer # "RX"
  <2>. DEFINE c == [d EXCEPT !.count = Lesser(@, d.setup.len)]
              t == TxService(c)
  <2>1. IsDev(c) /\ Kept(d, c, {"count"})
    BY <1>1 DEF IsDev, Kept
  <2>2. e = [t EXCEPT !.bd["in0"][t.pin] = Given(@, FALSE, 1, TRUE)]
    BY <1>4 DEF AllowDataStage
  <2>8. c.count = Lesser(d.count, d.setup.len)
    BY <1>1 DEF Fields
  <2>. HIDE DEF c, e
  <2>3. Sane(c) /\ c.bd = d.bd /\ c.pin = d.pin
    BY <2>1, SaneStill DEF Kept, Untyped, Fields
  <2>4. /\ Sane(t) /\ Kept(c, t, {"short", "count", "staged", "pos", "bd"})
        /\ t.bd["in0"][1 - c.pin] = c.bd["in0"][1 - c.pin]
        /\ \A q \in Pipes \ {"in0"} : t.bd[q] = c.bd[q]
        /\ Packet(c, t, c.pin, c.count)
    BY <2>3, TxEffect
  <2>. HIDE DEF t
  <2>5. t.pin = d.pin /\ t.pin \in Bit
    BY <1>1, <2>3, <2>4 DEF Kept, Fields
  <2>6. Sane(e) /\ Kept(t, e, {"bd"}) /\ Gives(t, e, "in0", t.pin, FALSE, 1)
    BY <1>2, <2>2, <2>4, <2>5, GiveStep
  <2>7. Kept(d, e, {"short", "count", "staged", "pos", "bd"})
    BY <2>1, <2>4, <2>6 DEF Kept
  <2>9. Packet(d, t, d.pin, Lesser(d.count, d.setup.len))
    BY <2>1, <2>3, <2>4, <2>8 DEF Packet, Kept, Fields
  <2>10. Packet(d, e, d.pin, Lesser(d.count, d.setup.len))
    <3>1. /\ e.count = t.count /\ e.pos = t.pos /\ e.staged = t.staged /\ e.short = t.short
          /\ e.bd["in0"][d.pin].cnt = t.bd["in0"][d.pin].cnt
      BY <2>5, <2>6 DEF Kept, Fields, Gives, IsGiven
    <3>. QED BY <2>9, <3>1 DEF Packet
  <2>. QED BY <1>4, <2>3, <2>4, <2>5, <2>6, <2>7, <2>10 DEF e, Gives, IsGiven
<1>. QED BY <1>3, <1>4

\* One descriptor replaced, the rest of the device kept.
LEMMA PutStep ==
  ASSUME NEW d, Sane(d), NEW p \in Pipes, NEW x \in Bit, NEW v, IsBd(v),
         NEW e, e = [d EXCEPT !.bd[p][x] = v]
  PROVE  Sane(e) /\ Kept(d, e, {"bd"}) /\ Put(d, e, p, x, v)
<1>1. DOMAIN d = Fields /\ IsBdt(d.bd)
  BY DEF Sane, IsDev
<1>2. IsDev(e) /\ Kept(d, e, {"bd"})
  BY <1>1 DEF IsDev, Kept
<1>3. e.bd = [d.bd EXCEPT ![p][x] = v]
  BY <1>1 DEF Fields
<1>4. IsBdt(e.bd) /\ Put(d, e, p, x, v)
  <2>. DEFINE t == d.bd
              u == [t EXCEPT ![p][x] = v]
  <2>1. IsBdt(t) /\ e.bd = u
    BY <1>1, <1>3
  <2>. HIDE DEF t
  <2>2. IsBdt(u) /\ u[p][x] = v /\ u[p][1 - x] = t[p][1 - x] /\ \A q \in Pipes \ {p} : u[q] = t[q]
    BY <2>1, PutFact
  <2>. HIDE DEF u
  <2>. QED BY <2>1, <2>2 DEF Put, t
<1>5. Sane(e)
  BY <1>2, <1>4 DEF Sane, Kept, Fields, Flags
<1>. QED BY <1>2, <1>4, <1>5

\* Both descriptors of pipe p change.
PutBoth(d, e, p, x, v, w) ==
  /\ e.bd[p][x] = v /\ e.bd[p][1 - x] = w
  /\ \A q \in Pipes \ {p} : e.bd[q] = d.bd[q]

\* Both descriptors of a pipe replaced.
LEMMA PutBothStep ==
  ASSUME NEW p \in Pipes, NEW x \in Bit, NEW y \in Bit, x # y,
         NEW w, IsBd(w), NEW v, IsBd(v), NEW e, NEW d, Sane(d),
         e = [d EXCEPT !.bd[p][x] = v, !.bd[p][y] = w]
  PROVE  Sane(e) /\ Kept(d, e, {"bd"}) /\ PutBoth(d, e, p, x, v, w)
<1>. DEFINE m == [d EXCEPT !.bd[p][x] = v]
<1>1. e = [m EXCEPT !.bd[p][y] = w]
  OBVIOUS
<1>2. m = [d EXCEPT !.bd[p][x] = v]
  OBVIOUS
<1>. HIDE DEF m
<1>3. Sane(m)
  BY <1>2, PutStep
<1>4. Kept(d, m, {"bd"}) /\ Put(d, m, p, x, v)
  BY <1>2, PutStep
<1>5. Sane(e) /\ Kept(m, e, {"bd"}) /\ Put(m, e, p, y, w)
  BY <1>1, <1>3, PutStep
<1>6. 1 - y = x /\ 1 - x = y
  BY DEF Bit
<1>. QED BY <1>4, <1>5, <1>6 DEF Kept, Put, PutBoth

\* Endpoint 0 has two pipes, and each two descriptors.
LEMMA Ep0Pipes == {"in0", "out0"} \subseteq Pipes /\ {TRUE, FALSE} = BOOLEAN /\ {0, 1} = Bit
BY DEF Pipes, Bit

\* AllowStatusStage opens the status stage of a write or of a read, once.
StageOpened(d, e) ==
  /\ e.flag1 /\ e.flag2
  /\ IF d.transfer = "RX"
       THEN /\ \A q \in Pipes \ {"in0"} : e.bd[q] = d.bd[q]
            /\ e.bd["in0"][1 - d.pin] = d.bd["in0"][1 - d.pin]
            /\ e.bd["in0"][d.pin].own /\ ~e.bd["in0"][d.pin].stall
            /\ e.both = d.both
       ELSE /\ \A q \in Pipes \ {"out0"} : e.bd[q] = d.bd[q]
            /\ e.bd["out0"][d.cur].own /\ e.bd["out0"][d.cur].stall
            /\ e.bd["out0"][d.next].own /\ ~e.bd["out0"][d.next].stall
            /\ e.both

\* USBCtrlEPAllowStatusStage opens the stage once, and only after Open.
LEMMA StatusStageEffect ==
  ASSUME NEW d, Sane(d), d.transfer = "TX" => d.next = 1 - d.cur
  PROVE  LET e == AllowStatusStage(d)
         IN  /\ Sane(e) /\ Kept(d, e, {"flag1", "flag2", "both", "bd"})
             /\ IF ~d.flag1 /\ ~d.flag2 /\ d.transfer \in {"RX", "TX"}
                  THEN StageOpened(d, e)
                  ELSE e.bd = d.bd /\ e.both = d.both /\ e.flag1
                       /\ (d.flag1 => e.flag2 = d.flag2)
<1>. DEFINE e == AllowStatusStage(d)
            c == [d EXCEPT !.flag1 = TRUE, !.flag2 = TRUE]
<1>1. DOMAIN d = Fields
  BY DEF Sane, IsDev
<1>2. IsDev(c) /\ Kept(d, c, {"flag1", "flag2"}) /\ c.flag1 /\ c.flag2 /\ c.flag1 \in BOOLEAN /\ c.flag2 \in BOOLEAN
  <2>1. IsDev(c)
    BY <1>1 DEF IsDev
  <2>2. Kept(d, c, {"flag1", "flag2"})
    BY <1>1 DEF Kept
  <2>. QED BY <1>1, <2>1, <2>2 DEF Fields
<1>3. CASE d.flag1
  BY <1>3 DEF AllowStatusStage, Kept
<1>4. CASE ~d.flag1 /\ (d.flag2 \/ d.transfer \notin {"RX", "TX"})
  <2>1. e = c
    BY <1>4 DEF AllowStatusStage
  <2>. HIDE DEF e, c
  <2>2. Sane(c)
    BY <1>2 DEF Sane, Kept, Fields, Flags
  <2>3. c.bd = d.bd /\ c.both = d.both
    BY <1>2 DEF Kept, Fields
  <2>. QED BY <1>2, <1>4, <2>1, <2>2, <2>3 DEF e, Kept
<1>5. CASE ~d.flag1 /\ ~d.flag2 /\ d.transfer = "RX"
  <2>. DEFINE g == Given(c.bd["in0"][d.pin], FALSE, 1, TRUE)
              v == [g EXCEPT !.cnt = 0]
  <2>1. e = [c EXCEPT !.bd["in0"][d.pin] = v]
    BY <1>5 DEF AllowStatusStage
  <2>. HIDE DEF e, c
  <2>2. Sane(c)
    BY <1>2 DEF Sane, Kept, Fields, Flags
  <2>3. c.bd = d.bd /\ c.both = d.both /\ c.pin = d.pin /\ d.pin \in Bit
    BY <1>2 DEF Sane, Kept, Fields
  <2>4. IsBd(c.bd["in0"][d.pin])
    BY <2>2, <2>3, BdOf, Ep0Pipes DEF Sane
  <2>5. IsBd(v) /\ v.own /\ ~v.stall
    <3>1. IsGiven(c.bd["in0"][d.pin], g, FALSE, 1)
      BY <2>4, GivenIs, Ep0Pipes
    <3>. HIDE DEF g
    <3>. QED BY <3>1 DEF IsGiven, IsBd, BdFields
  <2>. HIDE DEF v
  <2>6. Sane(e) /\ Kept(c, e, {"bd"}) /\ Put(c, e, "in0", d.pin, v)
    BY <2>1, <2>2, <2>3, <2>5, Ep0Pipes, PutStep
  <2>7. Kept(d, e, {"flag1", "flag2", "both", "bd"}) /\ e.flag1 /\ e.flag2 /\ e.both = d.both
    BY <1>2, <2>3, <2>6 DEF Kept, Fields
  <2>. QED BY <1>5, <2>3, <2>5, <2>6, <2>7 DEF e, Put, StageOpened
<1>6. CASE ~d.flag1 /\ ~d.flag2 /\ d.transfer = "TX"
  <2>. DEFINE v == Given(c.bd["out0"][d.cur], TRUE, 0, FALSE)
              w == Given(c.bd["out0"][d.next], FALSE, 0, FALSE)
              k == [c EXCEPT !.both = TRUE]
  <2>1. e = [c EXCEPT !.both = TRUE, !.bd["out0"][d.cur] = v, !.bd["out0"][d.next] = w]
    BY <1>6 DEF AllowStatusStage
  <2>. HIDE DEF e, c
  <2>2. IsDev(k) /\ Kept(c, k, {"both"}) /\ k.both /\ k.both \in BOOLEAN
    BY <1>2 DEF IsDev, Kept, Fields
  <2>3. Sane(c)
    BY <1>2 DEF Sane, Kept, Fields, Flags
  <2>4. c.bd = d.bd /\ d.cur \in Bit /\ d.next \in Bit /\ d.next # d.cur
    BY <1>2, <1>6 DEF Sane, Kept, Fields, Bit
  <2>5. IsGiven(d.bd["out0"][d.cur], v, TRUE, 0) /\ IsGiven(d.bd["out0"][d.next], w, FALSE, 0)
    <3>1. IsBd(d.bd["out0"][d.cur]) /\ IsBd(d.bd["out0"][d.next])
      BY <2>4, BdOf, Ep0Pipes DEF Sane
    <3>. QED BY <2>4, <3>1, Ep0Pipes, GivenIs
  <2>. HIDE DEF v, w
  <2>6. e = [k EXCEPT !.bd["out0"][d.cur] = v, !.bd["out0"][d.next] = w]
    BY <2>1
  <2>. HIDE DEF k
  <2>7. Sane(k)
    BY <2>2, <2>3 DEF Sane, Kept, Fields, Flags
  <2>8. Sane(e) /\ Kept(k, e, {"bd"}) /\ PutBoth(k, e, "out0", d.cur, v, w)
    BY <2>4, <2>5, <2>6, <2>7, Ep0Pipes, PutBothStep DEF IsGiven
  <2>9. Kept(d, e, {"flag1", "flag2", "both", "bd"}) /\ e.flag1 /\ e.flag2 /\ e.both
    BY <1>2, <2>2, <2>8 DEF Kept, Fields
  <2>10. k.bd = d.bd
    BY <2>2, <2>4 DEF Kept, Fields
  <2>. QED BY <1>6, <2>4, <2>5, <2>8, <2>9, <2>10 DEF e, IsGiven, PutBoth, StageOpened
<1>. QED BY <1>3, <1>4, <1>5, <1>6

-----------------------------------------------------------------------------
(* The stages of a control transfer.                                       *)

\* A refusal arms one descriptor of each pipe, both stalled.
LEMMA RefuseEffect ==
  ASSUME NEW d, Sane(d)
  PROVE  LET e == Refuse(d)
         IN  /\ Sane(e) /\ Kept(d, e, {"bd"})
             /\ \A q \in Pipes1 : e.bd[q] = d.bd[q]
             /\ e.bd["in0"][1 - d.pin] = d.bd["in0"][1 - d.pin]
             /\ e.bd["out0"][1 - d.next] = d.bd["out0"][1 - d.next]
             /\ IsGiven(d.bd["out0"][d.next], e.bd["out0"][d.next], TRUE, 0)
             /\ IsGiven(d.bd["in0"][d.pin], e.bd["in0"][d.pin], TRUE, 0)
<1>. DEFINE e == Refuse(d)
            m == [d EXCEPT !.bd["out0"][d.next] = Given(@, TRUE, 0, TRUE)]
<1>1. e = [m EXCEPT !.bd["in0"][d.pin] = Given(@, TRUE, 0, FALSE)]
  BY DEF Refuse, ForSetup
<1>2. m = [d EXCEPT !.bd["out0"][d.next] = Given(@, TRUE, 0, TRUE)]
  OBVIOUS
<1>. HIDE DEF m, e
<1>3. d.next \in Bit /\ d.pin \in Bit /\ {"out0", "in0"} \subseteq Pipes /\ TRUE \in BOOLEAN /\ 0 \in Bit
  BY Ep0Pipes DEF Sane
<1>4. Sane(m) /\ Kept(d, m, {"bd"}) /\ Gives(d, m, "out0", d.next, TRUE, 0)
  BY <1>2, <1>3, GiveStep
<1>5. Sane(e) /\ Kept(m, e, {"bd"}) /\ Gives(m, e, "in0", d.pin, TRUE, 0)
  BY <1>1, <1>3, <1>4, GiveStep
<1>6. Kept(d, e, {"bd"})
  BY <1>4, <1>5 DEF Kept
<1>. QED BY <1>4, <1>5, <1>6 DEF Gives, e, Pipes, Pipes1

\* What a SETUP leaves for the SIE: the data or the status stage, or a refusal.
Served(c, e) ==
  /\ ~e.pktDis /\ e.cur = c.cur /\ e.next = c.next /\ e.pin = c.pin
  /\ \A q \in Pipes1 : e.bd[q] = c.bd[q]
  /\ e.bd["in0"][1 - c.pin] = c.bd["in0"][1 - c.pin]
  /\ (e.bd["in0"][c.pin].own /\ ~e.bd["in0"][c.pin].stall) => e.flag1
  /\ ~e.flag1 => ~e.flag2
  /\ e.both <=> e.transfer = "TX"
  /\ IF e.both
       THEN /\ e.flag1 /\ c.next = 1 - c.cur
            /\ e.bd["out0"][c.cur].own /\ e.bd["out0"][c.cur].stall /\ e.bd["out0"][c.next].own
       ELSE e.bd["out0"][c.next].own /\ e.bd["out0"][1 - c.next] = c.bd["out0"][1 - c.next]

\* Which stage it is: the data of a read, the data or the status of a write,
\* or neither.
StageLeft(c, e) ==
  LET b == e.bd["in0"][c.pin]
  IN  /\ c.inBusy => b.own /\ ~b.stall
      /\ e.both <=> c.inBusy /\ ToHost(c.setup)
      /\ e.both => b.dts = 1 /\ Packet(c, e, c.pin, Lesser(c.count, c.setup.len))
      /\ ~c.inBusy /\ c.outBusy => ~e.flag1 /\ e.transfer = "RX"
      /\ ~c.inBusy /\ ~c.outBusy => e.transfer = "WAIT_SETUP" /\ b.own /\ b.stall

ServeFields == {"pktDis", "flag1", "flag2", "both", "bd", "transfer", "short", "count",
                "staged", "pos"}

\* USBCtrlEPServiceComplete, in each of its four cases.
LEMMA CompleteEffect ==
  ASSUME NEW c, Sane(c), c.inBusy /\ ToHost(c.setup) => c.next = 1 - c.cur,
         ~c.both, c.transfer = "WAIT_SETUP", ~c.flag1 => ~c.flag2, ~c.bd["in0"][c.pin].own
  PROVE  LET e == ServiceComplete(c)
         IN  Sane(e) /\ Kept(c, e, ServeFields) /\ Served(c, e) /\ StageLeft(c, e)
<1>. DEFINE e == ServiceComplete(c)
            d == PacketsOn(c)
            Open(k) == [k EXCEPT !.flag1 = FALSE, !.flag2 = FALSE]
<1>1. DOMAIN c = Fields
  BY DEF Sane, IsDev
<1>2. IsDev(d) /\ Kept(c, d, {"pktDis"}) /\ ~d.pktDis /\ d.pktDis \in BOOLEAN
  <2>1. IsDev(d)
    BY <1>1 DEF IsDev, PacketsOn
  <2>2. Kept(c, d, {"pktDis"})
    BY <1>1 DEF Kept, PacketsOn
  <2>. QED BY <1>1, <2>1, <2>2 DEF Fields, PacketsOn
<1>. HIDE DEF d
<1>3. Sane(d) /\ d.bd = c.bd /\ d.cur = c.cur /\ d.next = c.next /\ d.pin = c.pin
      /\ ~d.both /\ d.transfer = "WAIT_SETUP" /\ (~d.flag1 => ~d.flag2)
  BY <1>2 DEF Sane, Kept, Fields, Flags
<1>10. d.inBusy = c.inBusy /\ d.outBusy = c.outBusy /\ d.setup = c.setup
  BY <1>2 DEF Kept, Fields
<1>4. ASSUME NEW k, Sane(k)
      PROVE  /\ Sane(Open(k)) /\ Kept(k, Open(k), {"flag1", "flag2"})
             /\ ~Open(k).flag1 /\ ~Open(k).flag2 /\ Open(k).bd = k.bd
  <2>1. DOMAIN k = Fields
    BY <1>4 DEF Sane, IsDev
  <2>. DEFINE o == Open(k)
  <2>2. IsDev(o) /\ Kept(k, o, {"flag1", "flag2"}) /\ o.flag1 = FALSE /\ o.flag2 = FALSE
    <3>1. IsDev(o)
      BY <2>1 DEF IsDev
    <3>2. Kept(k, o, {"flag1", "flag2"})
      BY <2>1 DEF Kept
    <3>. QED BY <2>1, <3>1, <3>2 DEF Fields
  <2>. HIDE DEF o
  <2>3. Sane(o) /\ o.bd = k.bd
    BY <1>4, <2>2 DEF Sane, Kept, Fields, Flags
  <2>. QED BY <2>2, <2>3 DEF o
<1>5. CASE ~d.inBusy /\ d.outBusy
  <2>. DEFINE r == [d EXCEPT !.transfer = "RX"]
              a == AllowDataStage(r)
  <2>1. e = Open(a)
    BY <1>5 DEF ServiceComplete, d
  <2>2. IsDev(r) /\ Kept(d, r, {"transfer"}) /\ r.transfer = "RX"
    BY <1>3 DEF Sane, IsDev, Kept, Fields
  <2>. HIDE DEF r, e, Open
  <2>3. Sane(r) /\ r.bd = d.bd /\ r.pin = d.pin /\ r.next = d.next
    BY <1>3, <2>2, SaneStill DEF Kept, Untyped, Fields
  <2>4. /\ Sane(a) /\ Kept(r, a, {"short", "count", "staged", "pos", "bd"})
        /\ Gives(r, a, "out0", r.next, FALSE, 1)
    BY <2>2, <2>3, DataStageEffect
  <2>. HIDE DEF a
  <2>5. Sane(e) /\ Kept(a, e, {"flag1", "flag2"}) /\ ~e.flag1 /\ ~e.flag2 /\ e.bd = a.bd
    BY <1>4, <2>1, <2>4
  <2>6. Kept(c, e, ServeFields)
    BY <1>2, <2>2, <2>4, <2>5 DEF Kept, ServeFields
  <2>7. ~e.pktDis /\ e.cur = c.cur /\ e.next = c.next /\ e.pin = c.pin /\ ~e.both /\ e.transfer = "RX"
    BY <1>2, <1>3, <2>2, <2>4, <2>5 DEF Kept, Fields
  <2>8. Served(c, e)
    BY <1>3, <2>3, <2>4, <2>5, <2>7 DEF Served, Gives, IsGiven, Pipes, Pipes1
  <2>9. StageLeft(c, e)
    BY <1>5, <1>10, <2>5, <2>7 DEF StageLeft
  <2>. QED BY <2>5, <2>6, <2>8, <2>9 DEF e
<1>6. CASE ~d.inBusy /\ ~d.outBusy
  <2>1. e = Refuse(d)
    BY <1>6 DEF ServiceComplete, d
  <2>. HIDE DEF e
  <2>2. /\ Sane(e) /\ Kept(d, e, {"bd"})
        /\ \A q \in Pipes1 : e.bd[q] = d.bd[q]
        /\ e.bd["in0"][1 - d.pin] = d.bd["in0"][1 - d.pin]
        /\ e.bd["out0"][1 - d.next] = d.bd["out0"][1 - d.next]
        /\ IsGiven(d.bd["out0"][d.next], e.bd["out0"][d.next], TRUE, 0)
        /\ IsGiven(d.bd["in0"][d.pin], e.bd["in0"][d.pin], TRUE, 0)
    BY <1>3, <2>1, RefuseEffect
  <2>3. /\ ~e.pktDis /\ e.cur = c.cur /\ e.next = c.next /\ e.pin = c.pin /\ ~e.both
        /\ e.transfer = "WAIT_SETUP" /\ (~e.flag1 => ~e.flag2)
    BY <1>2, <1>3, <2>2 DEF Kept, Fields
  <2>4. Kept(c, e, ServeFields)
    BY <1>2, <2>2 DEF Kept, ServeFields
  <2>5. Served(c, e)
    BY <1>3, <2>2, <2>3 DEF Served, IsGiven
  <2>6. StageLeft(c, e)
    BY <1>3, <1>6, <1>10, <2>2, <2>3 DEF StageLeft, IsGiven
  <2>. QED BY <2>2, <2>4, <2>5, <2>6 DEF e
<1>7. CASE d.inBusy /\ ToHost(d.setup)
  <2>. DEFINE r == [d EXCEPT !.transfer = "TX"]
              a == AllowDataStage(r)
              o == Open(a)
  <2>1. e = AllowStatusStage(o)
    BY <1>7 DEF ServiceComplete, d
  <2>2. IsDev(r) /\ Kept(d, r, {"transfer"}) /\ r.transfer = "TX"
    BY <1>3 DEF Sane, IsDev, Kept, Fields
  <2>. HIDE DEF r, e, Open
  <2>3. Sane(r) /\ r.bd = d.bd /\ r.pin = d.pin /\ r.next = d.next
    BY <1>3, <2>2, SaneStill DEF Kept, Untyped, Fields
  <2>4. /\ Sane(a) /\ Kept(r, a, {"short", "count", "staged", "pos", "bd"})
        /\ \A q \in Pipes \ {"in0"} : a.bd[q] = r.bd[q]
        /\ a.bd["in0"][1 - r.pin] = r.bd["in0"][1 - r.pin]
        /\ a.bd["in0"][r.pin].own /\ ~a.bd["in0"][r.pin].stall /\ a.bd["in0"][r.pin].dts = 1
        /\ Packet(r, a, r.pin, Lesser(r.count, r.setup.len))
    BY <2>2, <2>3, DataStageEffect
  <2>. HIDE DEF a
  <2>5. Sane(o) /\ Kept(a, o, {"flag1", "flag2"}) /\ ~o.flag1 /\ ~o.flag2 /\ o.bd = a.bd
    BY <1>4, <2>4
  <2>. HIDE DEF o
  <2>6. c.next = 1 - c.cur
    <3>1. c.inBusy /\ ToHost(c.setup)
      BY <1>2, <1>7 DEF Kept, Fields
    <3>. QED BY <3>1
  <2>7. /\ o.transfer = "TX" /\ ~o.pktDis /\ o.cur = c.cur /\ o.next = c.next /\ o.pin = c.pin
        /\ o.next = 1 - o.cur
    BY <1>2, <1>3, <2>2, <2>4, <2>5, <2>6 DEF Kept, Fields
  <2>8. Sane(e) /\ Kept(o, e, {"flag1", "flag2", "both", "bd"}) /\ StageOpened(o, e)
    BY <2>1, <2>5, <2>7, StatusStageEffect
  <2>9. Kept(c, e, ServeFields)
    BY <1>2, <2>2, <2>4, <2>5, <2>8 DEF Kept, ServeFields
  <2>10. /\ ~e.pktDis /\ e.cur = c.cur /\ e.next = c.next /\ e.pin = c.pin /\ e.transfer = "TX"
    BY <2>7, <2>8 DEF Kept, Fields
  <2>11. Served(c, e)
    BY <1>3, <2>3, <2>4, <2>5, <2>6, <2>7, <2>8, <2>10 DEF Served, StageOpened, Pipes, Pipes1
  <2>12. e.bd["in0"] = a.bd["in0"] /\ e.both
    BY <2>5, <2>7, <2>8, Ep0Pipes DEF StageOpened
  <2>13. Packet(c, e, c.pin, Lesser(c.count, c.setup.len))
    <3>1. r.count = c.count /\ r.setup = c.setup /\ r.pin = c.pin /\ r.pos = c.pos
          /\ r.source = c.source /\ r.short = c.short
      BY <1>2, <1>3, <2>2 DEF Kept, Fields
    <3>2. e.count = a.count /\ e.pos = a.pos /\ e.staged = a.staged /\ e.short = a.short
      BY <2>5, <2>8 DEF Kept, Fields
    <3>. QED BY <2>4, <2>12, <3>1, <3>2 DEF Packet
  <2>14. StageLeft(c, e)
    BY <1>3, <1>7, <1>10, <2>3, <2>4, <2>12, <2>13 DEF StageLeft
  <2>. QED BY <2>8, <2>9, <2>11, <2>14 DEF e
<1>8. CASE d.inBusy /\ ~ToHost(d.setup)
  <2>. DEFINE r == [d EXCEPT !.transfer = "RX"]
              a == [r EXCEPT !.bd["out0"][d.next] = Given(@, TRUE, 0, FALSE)]
              o == Open(a)
  <2>1. e = AllowStatusStage(o)
    BY <1>8 DEF ServiceComplete, d
  <2>2. IsDev(r) /\ Kept(d, r, {"transfer"}) /\ r.transfer = "RX"
    BY <1>3 DEF Sane, IsDev, Kept, Fields
  <2>3. a = [r EXCEPT !.bd["out0"][d.next] = Given(@, TRUE, 0, FALSE)]
    OBVIOUS
  <2>. HIDE DEF a, r, e, Open
  <2>4. Sane(r) /\ r.bd = d.bd /\ r.pin = d.pin /\ r.next = d.next
    BY <1>3, <2>2, SaneStill DEF Kept, Untyped, Fields
  <2>5. d.next \in Bit /\ "out0" \in Pipes /\ TRUE \in BOOLEAN /\ 0 \in Bit
    BY <1>3, Ep0Pipes DEF Sane
  <2>6. Sane(a) /\ Kept(r, a, {"bd"}) /\ Gives(r, a, "out0", d.next, TRUE, 0)
    BY <2>4, <2>3, <2>5, GiveStep
  <2>7. Sane(o) /\ Kept(a, o, {"flag1", "flag2"}) /\ ~o.flag1 /\ ~o.flag2 /\ o.bd = a.bd
    BY <1>4, <2>6
  <2>. HIDE DEF o
  <2>8. o.transfer = "RX" /\ ~o.pktDis /\ o.cur = c.cur /\ o.next = c.next /\ o.pin = c.pin /\ ~o.both
    BY <1>2, <1>3, <2>2, <2>6, <2>7 DEF Kept, Fields
  <2>9. Sane(e) /\ Kept(o, e, {"flag1", "flag2", "both", "bd"}) /\ StageOpened(o, e)
    BY <2>1, <2>7, <2>8, StatusStageEffect
  <2>10. Kept(c, e, ServeFields)
    BY <1>2, <2>2, <2>6, <2>7, <2>9 DEF Kept, ServeFields
  <2>11. /\ ~e.pktDis /\ e.cur = c.cur /\ e.next = c.next /\ e.pin = c.pin /\ e.transfer = "RX"
    BY <2>8, <2>9 DEF Kept, Fields
  <2>12. Served(c, e)
    BY <1>3, <2>4, <2>6, <2>7, <2>8, <2>9, <2>11 DEF Served, StageOpened, Gives, IsGiven, Pipes, Pipes1
  <2>13. StageLeft(c, e)
    BY <1>8, <1>10, <2>8, <2>9 DEF StageLeft, StageOpened
  <2>. QED BY <2>9, <2>10, <2>12, <2>13 DEF e
<1>9. d.inBusy \in BOOLEAN /\ d.outBusy \in BOOLEAN
  BY <1>3 DEF Sane, Flags
<1>. QED BY <1>5, <1>6, <1>7, <1>8, <1>9

-----------------------------------------------------------------------------
(* Endpoint 1.                                                             *)

\* The pipes of endpoint 1 are not those of endpoint 0.
LEMMA Ep1Pipes == Pipes1 \subseteq Pipes /\ "in0" \notin Pipes1 /\ "out0" \notin Pipes1
                  /\ {"in1", "out1"} = Pipes1 /\ Null \notin Bit
BY DEF Pipes, Pipes1, Null, Bit

\* Of endpoint 1, one pipe.
OnlyPipe(d, e, p) == \A q \in Pipes \ {p} : e.bd[q] = d.bd[q]

\* A device whose descriptors change has those of e; a field of endpoint 1 too.
LEMMA SanePlus ==
  ASSUME NEW d, Sane(d), NEW e, IsDev(e), Kept(d, e, Untyped \cup {"cpu", "outHandle", "inHandle"}),
         e.cpu \in [Pipes1 -> Bit \cup {Null}], e.outHandle \in Bit \cup {Null},
         e.inHandle \in Bit \cup {Null}
  PROVE  Sane(e) /\ e.bd = d.bd
BY DEF Sane, Kept, Untyped, Fields, Flags

\* The firmware's next descriptor is handed over with the toggle it has.
LEMMA TransferEffect ==
  ASSUME NEW d, Sane(d), NEW p \in Pipes1, d.cpu[p] # Null
  PROVE  LET e == TransferOnePacket(d, p)
         IN  /\ Sane(e) /\ Kept(d, e, {"bd", "cpu"}) /\ OnlyPipe(d, e, p)
             /\ d.cpu[p] \in Bit /\ e.cpu = [d.cpu EXCEPT ![p] = 1 - d.cpu[p]]
             /\ IsGiven(d.bd[p][d.cpu[p]], e.bd[p][d.cpu[p]], FALSE, d.bd[p][d.cpu[p]].dts)
             /\ e.bd[p][1 - d.cpu[p]] = d.bd[p][1 - d.cpu[p]]
<1>. DEFINE e == TransferOnePacket(d, p)
            b == d.cpu[p]
            v == Given(d.bd[p][b], FALSE, d.bd[p][b].dts, TRUE)
            m == [d EXCEPT !.bd[p][b] = v]
<1>1. b \in Bit /\ p \in Pipes
  BY Ep1Pipes DEF Sane
<1>2. IsGiven(d.bd[p][b], v, FALSE, d.bd[p][b].dts)
  <2>1. IsBd(d.bd[p][b])
    BY <1>1, BdOf DEF Sane
  <2>2. d.bd[p][b].dts \in Bit /\ FALSE \in BOOLEAN
    BY <2>1 DEF IsBd
  <2>. QED BY <2>1, <2>2, GivenIs
<1>3. e = [d EXCEPT !.bd[p][b] = v, !.cpu[p] = 1 - b]
  BY DEF TransferOnePacket, Advance
<1>4. m = [d EXCEPT !.bd[p][b] = v]
  OBVIOUS
<1>. HIDE DEF v, e
<1>5. e = [m EXCEPT !.cpu[p] = 1 - b]
  BY <1>3
<1>. HIDE DEF m, b
<1>6. Sane(m) /\ Kept(d, m, {"bd"}) /\ Put(d, m, p, b, v)
  BY <1>1, <1>2, <1>4, PutStep DEF IsGiven
<1>7. DOMAIN m = Fields /\ m.cpu = d.cpu /\ m.cpu \in [Pipes1 -> Bit \cup {Null}]
  BY <1>6 DEF Sane, IsDev, Kept, Fields
<1>8. IsDev(e) /\ Kept(m, e, {"cpu"}) /\ e.cpu = [d.cpu EXCEPT ![p] = 1 - b]
  <2>1. IsDev(e)
    BY <1>5, <1>7 DEF IsDev
  <2>2. Kept(m, e, {"cpu"})
    BY <1>5, <1>7 DEF Kept
  <2>. QED BY <1>5, <1>7, <2>1, <2>2 DEF Fields
<1>9. e.cpu \in [Pipes1 -> Bit \cup {Null}]
  BY <1>1, <1>7, <1>8 DEF Bit
<1>10. Sane(e) /\ e.bd = m.bd
  <2>1. Kept(m, e, Untyped \cup {"cpu", "outHandle", "inHandle"})
    BY <1>8 DEF Kept
  <2>2. e.outHandle \in Bit \cup {Null} /\ e.inHandle \in Bit \cup {Null}
    BY <1>6, <1>8 DEF Sane, Kept, Fields
  <2>. QED BY <1>6, <1>8, <1>9, <2>1, <2>2, SanePlus
<1>11. Kept(d, e, {"bd", "cpu"})
  BY <1>6, <1>8 DEF Kept
<1>. QED BY <1>1, <1>2, <1>6, <1>8, <1>10, <1>11 DEF e, b, Put, OnlyPipe

\* USBConfigureEndpoint touches its own pipe.
LEMMA ConfigureEffect ==
  ASSUME NEW d, Sane(d), NEW p \in Pipes1
  PROVE  LET e == ConfigureEndpoint(d, p)
         IN  /\ Sane(e) /\ Kept(d, e, {"bd", "cpu"}) /\ OnlyPipe(d, e, p)
             /\ e.cpu = [d.cpu EXCEPT ![p] = 0]
             /\ ~e.bd[p][0].own /\ e.bd[p][0].dts = 0
             /\ e.bd[p][1].own = d.bd[p][1].own /\ e.bd[p][1].dts = 1
<1>. DEFINE e == ConfigureEndpoint(d, p)
            u == [d.bd[p][0] EXCEPT !.own = FALSE]
            k == [d EXCEPT !.bd[p][0] = u]
            v == [k.bd[p][0] EXCEPT !.dts = 0]
            l == [k EXCEPT !.bd[p][0] = v]
            w == [l.bd[p][1] EXCEPT !.dts = 1]
            m == [l EXCEPT !.bd[p][1] = w]
<1>1. p \in Pipes /\ {0, 1} \subseteq Bit /\ 1 - 0 = 1 /\ 1 - 1 = 0
  BY Ep1Pipes DEF Bit
<1>2. k = [d EXCEPT !.bd[p][0] = u] /\ e = [k EXCEPT !.bd[p][0].dts = 0, !.bd[p][1].dts = 1, !.cpu[p] = 0]
  BY DEF ConfigureEndpoint
<1>3. IsBd(u) /\ ~u.own
  <2>1. IsBd(d.bd[p][0])
    BY <1>1, BdOf DEF Sane
  <2>. QED BY <2>1 DEF IsBd, BdFields
<1>. HIDE DEF u, k, e
<1>4. Sane(k) /\ Kept(d, k, {"bd"}) /\ Put(d, k, p, 0, u)
  BY <1>1, <1>2, <1>3, PutStep
<1>5. l = [k EXCEPT !.bd[p][0] = v] /\ e = [l EXCEPT !.bd[p][1].dts = 1, !.cpu[p] = 0]
  BY <1>2
<1>6. IsBd(v) /\ ~v.own /\ v.dts = 0
  <2>1. IsBd(k.bd[p][0])
    BY <1>1, <1>4, BdOf DEF Sane
  <2>2. ~k.bd[p][0].own
    BY <1>3, <1>4 DEF Put
  <2>. QED BY <2>1, <2>2 DEF IsBd, BdFields, Bit
<1>. HIDE DEF v, l
<1>7. Sane(l) /\ Kept(k, l, {"bd"}) /\ Put(k, l, p, 0, v)
  BY <1>1, <1>4, <1>5, <1>6, PutStep
<1>8. m = [l EXCEPT !.bd[p][1] = w] /\ e = [m EXCEPT !.cpu[p] = 0]
  BY <1>5
<1>9. IsBd(w) /\ w.own = d.bd[p][1].own /\ w.dts = 1
  <2>1. IsBd(l.bd[p][1])
    BY <1>1, <1>7, BdOf DEF Sane
  <2>2. l.bd[p][1] = d.bd[p][1]
    BY <1>1, <1>4, <1>7 DEF Put
  <2>. QED BY <2>1, <2>2 DEF IsBd, BdFields, Bit
<1>. HIDE DEF w, m
<1>10. Sane(m) /\ Kept(l, m, {"bd"}) /\ Put(l, m, p, 1, w)
  BY <1>1, <1>7, <1>8, <1>9, PutStep
<1>11. DOMAIN m = Fields /\ m.cpu = d.cpu /\ m.cpu \in [Pipes1 -> Bit \cup {Null}]
  BY <1>4, <1>7, <1>10 DEF Sane, IsDev, Kept, Fields
<1>12. IsDev(e) /\ Kept(m, e, {"cpu"}) /\ e.cpu = [d.cpu EXCEPT ![p] = 0]
  <2>1. IsDev(e)
    BY <1>8, <1>11 DEF IsDev
  <2>2. Kept(m, e, {"cpu"})
    BY <1>8, <1>11 DEF Kept
  <2>. QED BY <1>8, <1>11, <2>1, <2>2 DEF Fields
<1>13. e.cpu \in [Pipes1 -> Bit \cup {Null}]
  BY <1>1, <1>11, <1>12
<1>14. Sane(e) /\ e.bd = m.bd
  <2>1. Kept(m, e, Untyped \cup {"cpu", "outHandle", "inHandle"})
    BY <1>12 DEF Kept
  <2>2. e.outHandle \in Bit \cup {Null} /\ e.inHandle \in Bit \cup {Null}
    BY <1>10, <1>12 DEF Sane, Kept, Fields
  <2>. QED BY <1>10, <1>12, <1>13, <2>1, <2>2, SanePlus
<1>15. Kept(d, e, {"bd", "cpu"})
  BY <1>4, <1>7, <1>10, <1>12 DEF Kept
<1>16. e.bd[p][0] = v /\ e.bd[p][1] = w
  BY <1>1, <1>7, <1>10, <1>14 DEF Put
<1>. QED BY <1>4, <1>6, <1>7, <1>9, <1>10, <1>12, <1>14, <1>15, <1>16 DEF e, Put, OnlyPipe

\* What EVENT_CONFIGURED leaves: endpoint 1 enabled and a packet awaited.
Initialized(e) ==
  /\ e.enabled /\ e.events = {} /\ ~e.fresh
  /\ e.outHandle = 0 /\ e.inHandle = Null
  /\ e.bd["out1"][0].own /\ ~e.bd["out1"][0].stall /\ ~e.bd["in1"][0].own
  /\ \A p \in Pipes1 : e.bd[p][0].dts = 0 /\ e.bd[p][1].dts = 1
  /\ e.cpu \in [Pipes1 -> Bit] /\ e.cpu["out1"] = 1 /\ e.cpu["in1"] = 0

\* EVENT_CONFIGURED leaves out1 armed and its handle on the armed descriptor.
LEMMA InitializeEffect ==
  ASSUME NEW d, Sane(d)
  PROVE  LET e == AppInitialize(d)
         IN  /\ Sane(e) /\ Initialized(e)
             /\ Kept(d, e, {"inHandle", "boot", "fresh", "events", "bd", "cpu", "enabled", "outHandle"})
             /\ e.bd["in0"] = d.bd["in0"] /\ e.bd["out0"] = d.bd["out0"]
             /\ \A p \in Pipes1 : e.bd[p][1].own = d.bd[p][1].own
<1>. DEFINE e == AppInitialize(d)
            a == [d EXCEPT !.inHandle = Null, !.boot = "idle", !.fresh = FALSE, !.events = {}]
            b == ConfigureEndpoint(a, "out1")
            c == ConfigureEndpoint(b, "in1")
            g == [c EXCEPT !.enabled = TRUE]
            t == TransferOnePacket(g, "out1")
<1>1. g = EnableEndpoint(a) /\ e = [t EXCEPT !.outHandle = g.cpu["out1"]]
  BY DEF AppInitialize, EnableEndpoint
<1>2. /\ IsDev(a) /\ Kept(d, a, {"inHandle", "boot", "fresh", "events"})
      /\ a.inHandle = Null /\ ~a.fresh /\ a.events = {}
  <2>1. DOMAIN d = Fields
    BY DEF Sane, IsDev
  <2>2. IsDev(a)
    BY <2>1 DEF IsDev
  <2>3. Kept(d, a, {"inHandle", "boot", "fresh", "events"})
    BY <2>1 DEF Kept
  <2>. QED BY <2>1, <2>2, <2>3 DEF Fields
<1>. HIDE DEF a, e
<1>3. Sane(a) /\ a.bd = d.bd
  <2>1. Kept(d, a, Untyped \cup {"cpu", "outHandle", "inHandle"})
    BY <1>2 DEF Kept, Untyped
  <2>2. a.cpu \in [Pipes1 -> Bit \cup {Null}] /\ a.outHandle \in Bit \cup {Null}
        /\ a.inHandle \in Bit \cup {Null}
    BY <1>2 DEF Sane, Kept, Fields
  <2>. QED BY <1>2, <2>1, <2>2, SanePlus
<1>4. /\ Sane(b) /\ Kept(a, b, {"bd", "cpu"}) /\ OnlyPipe(a, b, "out1")
      /\ b.cpu = [a.cpu EXCEPT !["out1"] = 0]
      /\ ~b.bd["out1"][0].own /\ b.bd["out1"][0].dts = 0
      /\ b.bd["out1"][1].own = a.bd["out1"][1].own /\ b.bd["out1"][1].dts = 1
  BY <1>3, Ep1Pipes, ConfigureEffect
<1>. HIDE DEF b
<1>5. /\ Sane(c) /\ Kept(b, c, {"bd", "cpu"}) /\ OnlyPipe(b, c, "in1")
      /\ c.cpu = [b.cpu EXCEPT !["in1"] = 0]
      /\ ~c.bd["in1"][0].own /\ c.bd["in1"][0].dts = 0
      /\ c.bd["in1"][1].own = b.bd["in1"][1].own /\ c.bd["in1"][1].dts = 1
  BY <1>4, Ep1Pipes, ConfigureEffect
<1>. HIDE DEF c
<1>6. IsDev(g) /\ Kept(c, g, {"enabled"}) /\ g.enabled
  <2>1. DOMAIN c = Fields
    BY <1>5 DEF Sane, IsDev
  <2>2. IsDev(g)
    BY <2>1 DEF IsDev
  <2>3. Kept(c, g, {"enabled"})
    BY <2>1 DEF Kept
  <2>. QED BY <2>1, <2>2, <2>3 DEF Fields
<1>. HIDE DEF g
<1>7. Sane(g) /\ g.bd = c.bd
  BY <1>5, <1>6, SaneStill DEF Kept, Untyped
<1>8. g.cpu = [p \in Pipes1 |-> 0]
  <2>1. g.cpu = [[a.cpu EXCEPT !["out1"] = 0] EXCEPT !["in1"] = 0]
    BY <1>4, <1>5, <1>6 DEF Kept, Fields
  <2>2. DOMAIN a.cpu = Pipes1
    BY <1>3 DEF Sane
  <2>. QED BY <2>1, <2>2, Ep1Pipes
<1>9. /\ Sane(t) /\ Kept(g, t, {"bd", "cpu"}) /\ OnlyPipe(g, t, "out1")
      /\ t.cpu = [g.cpu EXCEPT !["out1"] = 1 - g.cpu["out1"]]
      /\ t.bd["out1"][0].own /\ ~t.bd["out1"][0].stall
      /\ t.bd["out1"][0].dts = g.bd["out1"][0].dts /\ t.bd["out1"][1] = g.bd["out1"][1]
  <2>1. g.cpu["out1"] = 0 /\ 0 # Null /\ "out1" \in Pipes1
    BY <1>8, Ep1Pipes DEF Null
  <2>2. /\ Sane(t) /\ Kept(g, t, {"bd", "cpu"}) /\ OnlyPipe(g, t, "out1")
        /\ t.cpu = [g.cpu EXCEPT !["out1"] = 1 - g.cpu["out1"]]
        /\ IsGiven(g.bd["out1"][g.cpu["out1"]], t.bd["out1"][g.cpu["out1"]], FALSE,
                   g.bd["out1"][g.cpu["out1"]].dts)
        /\ t.bd["out1"][1 - g.cpu["out1"]] = g.bd["out1"][1 - g.cpu["out1"]]
    BY <1>7, <2>1, TransferEffect
  <2>. QED BY <2>1, <2>2 DEF IsGiven
<1>. HIDE DEF t
<1>10. IsDev(e) /\ Kept(t, e, {"outHandle"}) /\ e.outHandle = 0
  <2>1. DOMAIN t = Fields /\ g.cpu["out1"] = 0
    BY <1>8, <1>9, Ep1Pipes DEF Sane, IsDev
  <2>2. IsDev(e)
    BY <1>1, <2>1 DEF IsDev
  <2>3. Kept(t, e, {"outHandle"})
    BY <1>1, <2>1 DEF Kept
  <2>. QED BY <1>1, <2>1, <2>2, <2>3 DEF Fields
<1>11. Sane(e) /\ e.bd = t.bd
  <2>1. Kept(t, e, Untyped \cup {"cpu", "outHandle", "inHandle"})
    BY <1>10 DEF Kept
  <2>2. e.cpu \in [Pipes1 -> Bit \cup {Null}] /\ e.outHandle \in Bit \cup {Null}
        /\ e.inHandle \in Bit \cup {Null}
    BY <1>9, <1>10 DEF Sane, Kept, Fields, Bit
  <2>. QED BY <1>9, <1>10, <2>1, <2>2, SanePlus
<1>12. Kept(d, e, {"inHandle", "boot", "fresh", "events", "bd", "cpu", "enabled", "outHandle"})
  BY <1>2, <1>4, <1>5, <1>6, <1>9, <1>10 DEF Kept
<1>13. Initialized(e)
  <2>1. e.cpu \in [Pipes1 -> Bit]
    BY <1>8, <1>9, <1>10 DEF Kept, Fields, Bit
  <2>2. e.enabled /\ e.events = {} /\ ~e.fresh /\ e.inHandle = Null
    BY <1>2, <1>4, <1>5, <1>6, <1>9, <1>10 DEF Kept, Fields
  <2>3. e.cpu["out1"] = 1 /\ e.cpu["in1"] = 0
    BY <1>8, <1>9, <1>10, Ep1Pipes DEF Kept, Fields
  <2>4. \A p \in Pipes1 : e.bd[p][0].dts = 0 /\ e.bd[p][1].dts = 1
    BY <1>4, <1>5, <1>7, <1>9, <1>11, Ep1Pipes DEF OnlyPipe
  <2>5. ~e.bd["in1"][0].own
    BY <1>5, <1>7, <1>9, <1>11, Ep1Pipes DEF OnlyPipe
  <2>. QED BY <1>9, <1>10, <1>11, <2>1, <2>2, <2>3, <2>4, <2>5 DEF Initialized
<1>14. e.bd["in0"] = d.bd["in0"] /\ e.bd["out0"] = d.bd["out0"]
  BY <1>3, <1>4, <1>5, <1>7, <1>9, <1>11, Ep0Pipes DEF OnlyPipe
<1>15. \A p \in Pipes1 : e.bd[p][1].own = d.bd[p][1].own
  <2>1. e.bd["out1"][1] = c.bd["out1"][1] /\ e.bd["in1"] = c.bd["in1"]
    BY <1>7, <1>9, <1>11, Ep1Pipes DEF OnlyPipe
  <2>2. c.bd["out1"] = b.bd["out1"] /\ b.bd["in1"] = a.bd["in1"] /\ a.bd = d.bd
    BY <1>3, <1>4, <1>5, Ep1Pipes DEF OnlyPipe
  <2>. QED BY <1>4, <1>5, <2>1, <2>2, Ep1Pipes
<1>. QED BY <1>11, <1>12, <1>13, <1>14, <1>15 DEF e

\* SET_CONFIGURATION starts the descriptors and the turns of the SIE over.
StartedOver(d, e) ==
  /\ e.cur = 0 /\ e.next = 0 /\ e.pin = 0 /\ e.sie = [p \in Pipes |-> 0]
  /\ \A q \in {"in0", "out0"}, x \in Bit : ~e.bd[q][x].own
  /\ e.config = d.setup.arg /\ e.inBusy = TRUE /\ e.pp = [p \in Pipes1 |-> 0]
  /\ \A q \in Pipes1 : ~e.bd[q][1].own
  /\ IF d.setup.arg = 0 THEN e.state = "ADDRESS" /\ ~e.enabled /\ e.fresh = d.fresh
     ELSE e.state = "CONFIGURED" /\ Initialized(e)

ConfigFields ==
  {"bd", "sie", "pp", "terminated", "inBusy", "enabled", "pin", "cur", "next", "config", "state",
   "inHandle", "boot", "fresh", "events", "cpu", "outHandle"}

\* The cleared table.
LEMMA NoBdt ==
  LET t == [p \in Pipes |-> [b \in 0 .. 1 |-> NoBd]]
  IN  IsBdt(t) /\ \A p \in Pipes, x \in Bit : t[p][x] = NoBd
<1>1. IsBd(NoBd)
  BY DEF IsBd, NoBd, BdFields, Bit
<1>2. 0 .. 1 = Bit
  BY DEF Bit
<1>. QED BY <1>1, <1>2 DEF IsBdt, IsPair, Bit

\* SET_CONFIGURATION forgets every descriptor and every turn.
LEMMA SetConfigurationEffect ==
  ASSUME NEW d, Sane(d)
  PROVE  LET e == SetConfiguration(d)
         IN  Sane(e) /\ Kept(d, e, ConfigFields) /\ StartedOver(d, e)
<1>. DEFINE e == SetConfiguration(d)
            a == [d EXCEPT !.bd = [p \in Pipes |-> [b \in 0 .. 1 |-> NoBd]]]
            b == [a EXCEPT !.pp = [p \in Pipes1 |-> 0], !.terminated = [p \in Pipes1 |-> FALSE]]
            c == [b EXCEPT !.sie = [p \in Pipes |-> 0]]
            g == [c EXCEPT !.inBusy = TRUE, !.enabled = FALSE, !.pin = 0, !.cur = 0, !.next = 0,
                           !.config = d.setup.arg]
<1>1. DOMAIN d = Fields
  BY DEF Sane, IsDev
<1>2. e = IF g.config = 0 THEN [g EXCEPT !.state = "ADDRESS"]
                          ELSE [AppInitialize(g) EXCEPT !.state = "CONFIGURED"]
  BY DEF SetConfiguration, PingPongReset, NoEpData, ClearBdt
<1>3. IsDev(a) /\ Kept(d, a, {"bd"}) /\ a.bd = [p \in Pipes |-> [x \in 0 .. 1 |-> NoBd]]
  <2>1. IsDev(a)
    BY <1>1 DEF IsDev
  <2>2. Kept(d, a, {"bd"})
    BY <1>1 DEF Kept
  <2>. QED BY <1>1, <2>1, <2>2 DEF Fields
<1>. HIDE DEF a
<1>4. IsDev(b) /\ Kept(a, b, {"pp", "terminated"}) /\ b.pp = [p \in Pipes1 |-> 0]
  <2>1. DOMAIN a = Fields
    BY <1>3 DEF IsDev
  <2>2. IsDev(b)
    BY <2>1 DEF IsDev
  <2>3. Kept(a, b, {"pp", "terminated"})
    BY <2>1 DEF Kept
  <2>. QED BY <2>1, <2>2, <2>3 DEF Fields
<1>. HIDE DEF b
<1>5. IsDev(c) /\ Kept(b, c, {"sie"}) /\ c.sie = [p \in Pipes |-> 0]
  <2>1. DOMAIN b = Fields
    BY <1>4 DEF IsDev
  <2>2. IsDev(c)
    BY <2>1 DEF IsDev
  <2>3. Kept(b, c, {"sie"})
    BY <2>1 DEF Kept
  <2>. QED BY <2>1, <2>2, <2>3 DEF Fields
<1>. HIDE DEF c
<1>6. /\ IsDev(g) /\ Kept(c, g, {"inBusy", "enabled", "pin", "cur", "next", "config"})
      /\ g.inBusy = TRUE /\ ~g.enabled /\ g.pin = 0 /\ g.cur = 0 /\ g.next = 0
      /\ g.config = d.setup.arg
  <2>2. DOMAIN c = Fields
    BY <1>5 DEF IsDev
  <2>1. IsDev(g) /\ Kept(c, g, {"inBusy", "enabled", "pin", "cur", "next", "config"})
    <3>1. IsDev(g)
      BY <2>2 DEF IsDev
    <3>2. Kept(c, g, {"inBusy", "enabled", "pin", "cur", "next", "config"})
      BY <2>2 DEF Kept
    <3>. QED BY <3>1, <3>2
  <2>3. g.inBusy = TRUE /\ ~g.enabled /\ g.config = d.setup.arg
    BY <2>2 DEF Fields
  <2>4. g.pin = 0 /\ g.cur = 0 /\ g.next = 0
    BY <2>2 DEF Fields
  <2>. QED BY <2>1, <2>3, <2>4
<1>. HIDE DEF g, e
<1>7. Kept(d, g, {"bd", "sie", "pp", "terminated", "inBusy", "enabled", "pin", "cur", "next", "config"})
  BY <1>3, <1>4, <1>5, <1>6 DEF Kept
<1>8. /\ g.bd = [p \in Pipes |-> [x \in 0 .. 1 |-> NoBd]] /\ g.sie = [p \in Pipes |-> 0]
      /\ g.pp = [p \in Pipes1 |-> 0]
  BY <1>3, <1>4, <1>5, <1>6 DEF Kept, Fields
<1>9. Sane(g)
  <2>1. IsBdt(g.bd)
    BY <1>8, NoBdt
  <2>2. g.sie \in [Pipes -> Bit] /\ g.pp \in [Pipes1 -> Bit]
    BY <1>8 DEF Bit
  <2>3. Flags(g)
    BY <1>6, <1>7 DEF Sane, Kept, Fields, Flags
  <2>4. /\ g.ustat \in Seq(Entry) /\ g.timer \in Nat /\ g.setup \in Request
        /\ g.cpu \in [Pipes1 -> Bit \cup {Null}]
        /\ g.outHandle \in Bit \cup {Null} /\ g.inHandle \in Bit \cup {Null}
    BY <1>7 DEF Sane, Kept, Fields
  <2>5. g.cur \in Bit /\ g.next \in Bit /\ g.pin \in Bit
    BY <1>6 DEF Bit
  <2>. QED BY <1>6, <2>1, <2>2, <2>3, <2>4, <2>5 DEF Sane
<1>10. \A q \in {"in0", "out0"}, x \in Bit : ~g.bd[q][x].own
  BY <1>8, NoBdt, Ep0Pipes DEF NoBd
<1>14. \A q \in Pipes1 : ~g.bd[q][1].own
  BY <1>8, NoBdt, Ep1Pipes DEF NoBd, Bit
<1>11. CASE d.setup.arg = 0
  <2>1. IsDev(e) /\ Kept(g, e, {"state"}) /\ e.state = "ADDRESS"
    BY <1>2, <1>6, <1>11 DEF IsDev, Kept, Fields
  <2>2. Sane(e) /\ e.bd = g.bd
    BY <1>9, <2>1, SaneStill DEF Kept, Untyped
  <2>3. Kept(d, e, ConfigFields)
    BY <1>7, <2>1 DEF Kept, ConfigFields
  <2>4. /\ e.cur = 0 /\ e.next = 0 /\ e.pin = 0 /\ e.sie = g.sie /\ ~e.enabled
        /\ e.config = d.setup.arg /\ e.inBusy = TRUE /\ e.pp = g.pp /\ e.fresh = d.fresh
    BY <1>6, <1>7, <2>1 DEF Kept, Fields
  <2>. QED BY <1>8, <1>10, <1>11, <1>14, <2>1, <2>2, <2>3, <2>4 DEF e, StartedOver
<1>12. CASE d.setup.arg # 0
  <2>. DEFINE i == AppInitialize(g)
  <2>1. e = [i EXCEPT !.state = "CONFIGURED"]
    BY <1>2, <1>6, <1>12
  <2>2. /\ Sane(i) /\ Initialized(i)
        /\ Kept(g, i, {"inHandle", "boot", "fresh", "events", "bd", "cpu", "enabled", "outHandle"})
        /\ i.bd["in0"] = g.bd["in0"] /\ i.bd["out0"] = g.bd["out0"]
        /\ \A p \in Pipes1 : i.bd[p][1].own = g.bd[p][1].own
    BY <1>9, InitializeEffect
  <2>. HIDE DEF i
  <2>3. DOMAIN i = Fields
    BY <2>2 DEF Sane, IsDev
  <2>4. IsDev(e) /\ Kept(i, e, {"state"}) /\ e.state = "CONFIGURED"
    BY <2>1, <2>3 DEF IsDev, Kept, Fields
  <2>5. Sane(e) /\ e.bd = i.bd
    BY <2>2, <2>4, SaneStill DEF Kept, Untyped
  <2>6. Kept(d, e, ConfigFields)
    BY <1>7, <2>2, <2>4 DEF Kept, ConfigFields
  <2>7. /\ e.cur = 0 /\ e.next = 0 /\ e.pin = 0 /\ e.sie = g.sie
        /\ e.config = d.setup.arg /\ e.inBusy = TRUE /\ e.pp = g.pp
    BY <1>6, <2>2, <2>4 DEF Kept, Fields
  <2>8. Initialized(e)
    BY <2>2, <2>4, <2>5 DEF Initialized, Kept, Fields
  <2>9. \A q \in {"in0", "out0"}, x \in Bit : ~e.bd[q][x].own
    BY <1>10, <2>2, <2>5
  <2>10. \A q \in Pipes1 : ~e.bd[q][1].own
    BY <1>14, <2>2, <2>5
  <2>. QED BY <1>8, <1>12, <2>4, <2>5, <2>6, <2>7, <2>8, <2>9, <2>10 DEF e, StartedOver
<1>. QED BY <1>11, <1>12

\* What a halt, or its end, does to endpoint 1: the firmware still has a next
\* descriptor, and what is taken from the SIE is an event.
Halting1(d, e) ==
  /\ \A q \in Pipes1 : d.cpu[q] \in Bit => e.cpu[q] \in Bit
  /\ d.events \subseteq e.events
  /\ \A q \in Pipes1, x \in Bit : d.bd[q][x].own => e.bd[q][x].own \/ q \in e.events

\* A halt of pipe p: the firmware's next descriptor is the one the FIFO names
\* next, and the SIE has it to stall with.
Halted1(d, e, p) ==
  /\ e.cpu = [d.cpu EXCEPT ![p] = d.pp[p]] /\ e.events = d.events
  /\ e.bd[p][d.pp[p]].own /\ e.bd[p][d.pp[p]].stall
  /\ e.bd[p][d.pp[p]].dts = d.bd[p][d.pp[p]].dts
  /\ e.bd[p][1 - d.pp[p]] = d.bd[p][1 - d.pp[p]]

\* The end of one: the firmware has both, and the next packet is a DATA0.
Cleared1(d, e, p) ==
  /\ e.cpu = [d.cpu EXCEPT ![p] = d.pp[p]]
  /\ \A x \in Bit : ~e.bd[p][x].own
  /\ e.bd[p][d.pp[p]].dts = 0 /\ e.bd[p][1 - d.pp[p]].dts = 1

\* Setting a halt hands descriptors over and takes none.
LEMMA SetHaltEffect ==
  ASSUME NEW d, Sane(d), NEW p \in Pipes1
  PROVE  LET e == SetHalt(d, p)
         IN  /\ Sane(e) /\ Kept(d, e, {"cpu", "terminated", "bd"}) /\ OnlyPipe(d, e, p)
             /\ Halting1(d, e) /\ Halted1(d, e, p)
<1>. DEFINE e == SetHalt(d, p)
            b == d.pp[p]
            v == Given(d.bd[p][b], TRUE, d.bd[p][b].dts, d.bd[p][b].check)
            y == [d.terminated EXCEPT ![p] = @ \/ d.bd[p][b].own]
            a == [d EXCEPT !.cpu[p] = b, !.terminated = y]
<1>1. b \in Bit /\ p \in Pipes /\ DOMAIN d = Fields /\ d.cpu \in [Pipes1 -> Bit \cup {Null}]
  BY Ep1Pipes DEF Sane, IsDev
<1>2. IsGiven(d.bd[p][b], v, TRUE, d.bd[p][b].dts)
  <2>1. IsBd(d.bd[p][b])
    BY <1>1, BdOf DEF Sane
  <2>2. d.bd[p][b].dts \in Bit /\ TRUE \in BOOLEAN
    BY <2>1 DEF IsBd
  <2>. QED BY <2>1, <2>2, GivenIs
<1>3. e = [d EXCEPT !.cpu[p] = b, !.terminated = y, !.bd[p][b] = v]
  BY DEF SetHalt
<1>. HIDE DEF v, e, y
<1>4. e = [a EXCEPT !.bd[p][b] = v]
  BY <1>3
<1>5. IsDev(a) /\ Kept(d, a, {"cpu", "terminated"}) /\ a.cpu = [d.cpu EXCEPT ![p] = b]
  <2>1. IsDev(a)
    BY <1>1 DEF IsDev
  <2>2. Kept(d, a, {"cpu", "terminated"})
    BY <1>1 DEF Kept
  <2>. QED BY <1>1, <2>1, <2>2 DEF Fields
<1>. HIDE DEF a, b
<1>6. Sane(a) /\ a.bd = d.bd
  <2>1. Kept(d, a, Untyped \cup {"cpu", "outHandle", "inHandle"})
    BY <1>5 DEF Kept, Untyped
  <2>2. a.cpu \in [Pipes1 -> Bit \cup {Null}]
    BY <1>1, <1>5
  <2>3. a.outHandle \in Bit \cup {Null} /\ a.inHandle \in Bit \cup {Null}
    BY <1>5 DEF Sane, Kept, Fields
  <2>. QED BY <1>5, <2>1, <2>2, <2>3, SanePlus
<1>7. Sane(e) /\ Kept(a, e, {"bd"}) /\ Put(a, e, p, b, v)
  BY <1>1, <1>2, <1>4, <1>6, PutStep DEF IsGiven
<1>8. Kept(d, e, {"cpu", "terminated", "bd"}) /\ OnlyPipe(d, e, p)
  BY <1>5, <1>6, <1>7 DEF Kept, Put, OnlyPipe
<1>9. Halting1(d, e)
  <2>1. e.cpu = [d.cpu EXCEPT ![p] = b] /\ e.events = d.events
    BY <1>5, <1>7 DEF Kept, Fields
  <2>2. \A q \in Pipes1 : d.cpu[q] \in Bit => e.cpu[q] \in Bit
    BY <1>1, <2>1
  <2>3. ASSUME NEW q \in Pipes1, NEW x \in Bit, d.bd[q][x].own
        PROVE  e.bd[q][x].own
    <3>1. CASE q = p
      BY <1>1, <1>2, <1>6, <1>7, <2>3, <3>1 DEF Put, IsGiven, Bit
    <3>2. CASE q # p
      BY <1>6, <1>7, <2>3, <3>2, Ep1Pipes DEF Put
    <3>. QED BY <3>1, <3>2
  <2>. QED BY <2>1, <2>2, <2>3 DEF Halting1
<1>10. Halted1(d, e, p)
  BY <1>2, <1>5, <1>6, <1>7 DEF b, Kept, Fields, Put, IsGiven, Halted1
<1>. QED BY <1>7, <1>8, <1>9, <1>10 DEF e

\* Ending one takes a descriptor only with EVENT_TRANSFER_TERMINATED.
LEMMA ClearHaltEffect ==
  ASSUME NEW d, Sane(d), NEW p \in Pipes1
  PROVE  LET e == ClearHalt(d, p)
         IN  /\ Sane(e) /\ Kept(d, e, {"cpu", "terminated", "events", "bd"}) /\ OnlyPipe(d, e, p)
             /\ Halting1(d, e) /\ Cleared1(d, e, p)
<1>. DEFINE e == ClearHalt(d, p)
            b == d.pp[p]
            o == Advance(b)
            v == [d.bd[p][o] EXCEPT !.own = FALSE, !.dts = 1]
            w == [d.bd[p][b] EXCEPT !.own = FALSE, !.dts = 0, !.stall = FALSE]
            y == IF d.terminated[p] \/ \E x \in 0 .. 1 : d.bd[p][x].own
                   THEN d.events \cup {p} ELSE d.events
            a == [d EXCEPT !.cpu[p] = b, !.terminated[p] = FALSE, !.events = y]
<1>1. /\ b \in Bit /\ o \in Bit /\ o # b /\ p \in Pipes /\ DOMAIN d = Fields
      /\ d.cpu \in [Pipes1 -> Bit \cup {Null}]
  BY Ep1Pipes DEF Sane, IsDev, Advance, Bit
<1>2. IsBd(v) /\ IsBd(w) /\ ~v.own /\ ~w.own /\ v.dts = 1 /\ w.dts = 0
  <2>1. IsBd(d.bd[p][o]) /\ IsBd(d.bd[p][b])
    BY <1>1, BdOf DEF Sane
  <2>. HIDE DEF o, b
  <2>. QED BY <2>1 DEF IsBd, BdFields, Bit
<1>3. e = [d EXCEPT !.cpu[p] = b, !.terminated[p] = FALSE, !.events = y,
                    !.bd[p][o] = v, !.bd[p][b] = w]
  BY DEF ClearHalt
<1>4. /\ d.events \subseteq y
      /\ \A x \in Bit : d.bd[p][x].own => p \in y
  BY DEF Bit
<1>. HIDE DEF v, w, e, y
<1>5. e = [a EXCEPT !.bd[p][o] = v, !.bd[p][b] = w]
  BY <1>3
<1>6. IsDev(a) /\ Kept(d, a, {"cpu", "terminated", "events"}) /\ a.cpu = [d.cpu EXCEPT ![p] = b]
      /\ a.events = y
  <2>1. IsDev(a)
    BY <1>1 DEF IsDev
  <2>2. Kept(d, a, {"cpu", "terminated", "events"})
    BY <1>1 DEF Kept
  <2>. QED BY <1>1, <2>1, <2>2 DEF Fields
<1>. HIDE DEF a, b, o
<1>7. Sane(a) /\ a.bd = d.bd
  <2>1. Kept(d, a, Untyped \cup {"cpu", "outHandle", "inHandle"})
    BY <1>6 DEF Kept, Untyped
  <2>2. a.cpu \in [Pipes1 -> Bit \cup {Null}]
    BY <1>1, <1>6
  <2>3. a.outHandle \in Bit \cup {Null} /\ a.inHandle \in Bit \cup {Null}
    BY <1>6 DEF Sane, Kept, Fields
  <2>. QED BY <1>6, <2>1, <2>2, <2>3, SanePlus
<1>8. Sane(e) /\ Kept(a, e, {"bd"}) /\ PutBoth(a, e, p, o, v, w)
  <2>1. IsBd(v) /\ IsBd(w) /\ Sane(a)
    BY <1>2, <1>7
  <2>2. p \in Pipes /\ o \in Bit /\ b \in Bit /\ o # b
    BY <1>1
  <2>. QED BY <1>5, <2>1, <2>2, PutBothStep, Zenon
<1>9. Kept(d, e, {"cpu", "terminated", "events", "bd"}) /\ OnlyPipe(d, e, p)
  BY <1>6, <1>7, <1>8 DEF Kept, PutBoth, OnlyPipe
<1>10. Halting1(d, e)
  <2>1. e.cpu = [d.cpu EXCEPT ![p] = b] /\ e.events = y
    BY <1>6, <1>8 DEF Kept, Fields
  <2>2. \A q \in Pipes1 : d.cpu[q] \in Bit => e.cpu[q] \in Bit
    BY <1>1, <2>1
  <2>3. ASSUME NEW q \in Pipes1, NEW x \in Bit, d.bd[q][x].own
        PROVE  e.bd[q][x].own \/ q \in e.events
    <3>1. CASE q = p
      BY <1>4, <2>1, <2>3, <3>1
    <3>2. CASE q # p
      BY <1>7, <1>8, <2>3, <3>2, Ep1Pipes DEF PutBoth
    <3>. QED BY <3>1, <3>2
  <2>. QED BY <1>4, <2>1, <2>2, <2>3 DEF Halting1
<1>11. Cleared1(d, e, p)
  <2>1. /\ e.bd[p][o] = v /\ e.bd[p][1 - o] = w /\ 1 - o = b /\ o = 1 - b
    BY <1>1, <1>8 DEF PutBoth, Bit
  <2>2. e.cpu = [d.cpu EXCEPT ![p] = b]
    BY <1>6, <1>8 DEF Kept, Fields
  <2>3. ~v.own /\ ~w.own /\ w.dts = 0 /\ v.dts = 1
    BY <1>2
  <2>4. e.bd[p][b] = w /\ e.bd[p][1 - b] = v
    BY <2>1
  <2>5. \A x \in Bit : x = o \/ x = b
    BY <1>1 DEF Bit
  <2>6. \A x \in Bit : ~e.bd[p][x].own
    BY <2>1, <2>3, <2>4, <2>5
  <2>. QED BY <2>2, <2>3, <2>4, <2>6 DEF b, Cleared1
<1>. QED BY <1>8, <1>9, <1>10, <1>11 DEF e

-----------------------------------------------------------------------------
(* Requests.                                                               *)

BusyFields == {"inBusy", "source", "pos", "count", "outBusy", "outCount"}

\* The fields of inPipes and outPipes are not the descriptors'.
LEMMA BusyEffect ==
  ASSUME NEW d, Sane(d), NEW e, IsDev(e), Kept(d, e, BusyFields),
         e.inBusy \in BOOLEAN, e.outBusy \in BOOLEAN
  PROVE  Sane(e) /\ e.bd = d.bd
BY DEF Sane, Kept, BusyFields, Fields, Flags

\* USBEP0SendRAMPtr touches no descriptor.
LEMMA SendEffect ==
  ASSUME NEW d, Sane(d), NEW k
  PROVE  LET e == Send(d, k)
         IN  /\ Sane(e) /\ Kept(d, e, BusyFields) /\ e.bd = d.bd
             /\ e.inBusy /\ e.outBusy = d.outBusy
             /\ e.source = k /\ e.pos = 0 /\ e.count = SizeOf[k]
<1>. DEFINE e == Send(d, k)
<1>1. DOMAIN d = Fields /\ d.inBusy \in BOOLEAN /\ d.outBusy \in BOOLEAN
  BY DEF Sane, IsDev, Flags
<1>2. IsDev(e) /\ Kept(d, e, BusyFields) /\ e.inBusy = TRUE /\ e.outBusy = d.outBusy
  <2>1. IsDev(e) /\ Kept(d, e, BusyFields)
    BY <1>1 DEF Send, IsDev, Kept, BusyFields
  <2>2. e.inBusy = TRUE /\ e.outBusy = d.outBusy
    BY <1>1 DEF Send, Fields
  <2>. QED BY <2>1, <2>2
<1>4. e.source = k /\ e.pos = 0 /\ e.count = SizeOf[k]
  BY <1>1 DEF Send, Fields
<1>. HIDE DEF e
<1>3. Sane(e) /\ e.bd = d.bd
  BY <1>1, <1>2, BusyEffect
<1>. QED BY <1>2, <1>3, <1>4 DEF e

\* Nor does the acknowledgement of a request without data.
LEMMA AcknowledgeEffect ==
  ASSUME NEW d, Sane(d)
  PROVE  LET e == Acknowledge(d)
         IN  /\ Sane(e) /\ Kept(d, e, BusyFields) /\ e.bd = d.bd
             /\ e.inBusy /\ e.outBusy = d.outBusy
<1>. DEFINE e == Acknowledge(d)
<1>1. DOMAIN d = Fields /\ d.inBusy \in BOOLEAN /\ d.outBusy \in BOOLEAN
  BY DEF Sane, IsDev, Flags
<1>2. IsDev(e) /\ Kept(d, e, BusyFields) /\ e.inBusy = TRUE /\ e.outBusy = d.outBusy
  <2>1. IsDev(e)
    BY <1>1 DEF IsDev, Acknowledge
  <2>2. Kept(d, e, BusyFields)
    BY <1>1 DEF Kept, Acknowledge, BusyFields
  <2>. QED BY <1>1, <2>1, <2>2 DEF Fields, Acknowledge, BusyFields
<1>. HIDE DEF e
<1>3. Sane(e) /\ e.bd = d.bd
  BY <1>1, <1>2, BusyEffect
<1>. QED BY <1>2, <1>3 DEF e

\* What the handlers of a SETUP's request have done, for the endpoints: SET_CONFIGURATION
\* has started them over; a request that leaves endpoint 0 as it is may have halted endpoint 1.
PrepareFields == ConfigFields \cup BusyFields

Prepared(c, e) ==
  \/ c.setup.kind = "setConfiguration" /\ StartedOver(c, e)
  \/ /\ e.bd["in0"] = c.bd["in0"] /\ e.bd["out0"] = c.bd["out0"]
     /\ e.cur = c.cur /\ e.next = c.next /\ e.pin = c.pin /\ e.sie = c.sie
     /\ e.state \in {c.state, "ADR_PENDING"}
     /\ e.enabled = c.enabled /\ e.fresh = c.fresh /\ e.outHandle = c.outHandle
     /\ Halting1(c, e)

\* A request that only sets those fields is prepared.
LEMMA BusyPrepared ==
  ASSUME NEW d, NEW e, Kept(d, e, BusyFields), e.bd = d.bd
  PROVE  Kept(d, e, PrepareFields) /\ Prepared(d, e)
BY DEF Kept, BusyFields, PrepareFields, Prepared, Halting1, Fields

\* Endpoint 1 as it was.
Same1(d, e) ==
  (\A q \in Pipes1 : e.bd[q] = d.bd[q]) /\ e.cpu = d.cpu /\ e.events = d.events

\* What the request in d has made of endpoint 1 and of the device's state, in e.
Request1(d, e) ==
  LET k == d.setup.kind
      p == d.setup.pipe
  IN  IF k = "setConfiguration"
        THEN /\ e.config = d.setup.arg
             /\ e.pp = [q \in Pipes1 |-> 0] /\ e.sie = [q \in Pipes |-> 0]
             /\ \A q \in Pipes1 : ~e.bd[q][1].own
             /\ IF d.setup.arg = 0 THEN e.state = "ADDRESS" /\ ~e.enabled /\ e.fresh = d.fresh
                ELSE e.state = "CONFIGURED" /\ Initialized(e)
        ELSE /\ e.config = d.config /\ e.pp = d.pp /\ e.sie = d.sie /\ e.enabled = d.enabled
             /\ e.fresh = d.fresh /\ e.outHandle = d.outHandle /\ e.inHandle = d.inHandle
             /\ e.state = IF k = "setAddress" THEN "ADR_PENDING" ELSE d.state
             /\ IF k \in {"setHalt", "clearHalt"} /\ d.state = "CONFIGURED"
                  THEN /\ \A q \in Pipes1 \ {p} : e.bd[q] = d.bd[q]
                       /\ k = "setHalt" => Halted1(d, e, p)
                       /\ k = "clearHalt" => Cleared1(d, e, p)
                  ELSE Same1(d, e)

\* What a read will send is what was asked for.
Filled(d) ==
  d.inBusy /\ ToHost(d.setup) =>
    d.source = d.setup.kind /\ d.pos = 0 /\ d.count = SizeOf[d.setup.kind]

\* A handler of requests may claim the one there is, to answer or to receive.
Asked(d, e) ==
  /\ d.inBusy => e.inBusy
  /\ Filled(d) => Filled(e)
  /\ e.outBusy => d.outBusy \/ d.setup.kind = "setReport"

\* Neither the address nor the configuration is set, nor a halt.
Plain(d) ==
  /\ d.setup.kind \notin {"setAddress", "setConfiguration"}
  /\ ~(d.setup.kind \in {"setHalt", "clearHalt"} /\ d.state = "CONFIGURED")

\* Any other request leaves endpoint 1 and the state as they are.
LEMMA PlainRequest ==
  ASSUME NEW d, Plain(d), NEW e, Kept(d, e, BusyFields), e.bd = d.bd
  PROVE  Request1(d, e)
<1>1. /\ e.config = d.config /\ e.pp = d.pp /\ e.sie = d.sie /\ e.enabled = d.enabled
      /\ e.fresh = d.fresh /\ e.outHandle = d.outHandle /\ e.inHandle = d.inHandle
      /\ e.state = d.state /\ e.cpu = d.cpu /\ e.events = d.events
  BY DEF Kept, BusyFields, Fields
<1>. QED BY <1>1 DEF Plain, Request1, Same1

\* USBCheckStdRequest, whatever the request.
LEMMA StdEffect ==
  ASSUME NEW d, Sane(d)
  PROVE  LET e == CheckStdRequest(d)
         IN  /\ Sane(e) /\ Kept(d, e, PrepareFields) /\ Prepared(d, e)
             /\ Request1(d, e) /\ Asked(d, e)
             /\ d.setup.kind \in {"setAddress", "setConfiguration"} => e.inBusy
<1>. DEFINE e == CheckStdRequest(d)
            k == d.setup.kind
<1>1. CASE k \in {"device", "configuration", "getConfiguration", "getStatus"}
  <2>1. e = Send(d, k)
    BY <1>1 DEF CheckStdRequest
  <2>. HIDE DEF e, k
  <2>2. /\ Sane(e) /\ Kept(d, e, BusyFields) /\ e.bd = d.bd
        /\ e.inBusy /\ e.outBusy = d.outBusy
        /\ e.source = k /\ e.pos = 0 /\ e.count = SizeOf[k]
    BY <2>1, SendEffect
  <2>3. e.setup = d.setup
    BY <2>2 DEF Kept, BusyFields, Fields
  <2>4. Asked(d, e)
    BY <2>2, <2>3 DEF Asked, Filled, k
  <2>5. Request1(d, e)
    BY <1>1, <2>2, PlainRequest DEF Plain, k
  <2>. QED BY <2>2, <2>4, <2>5, BusyPrepared DEF e
<1>2. CASE k = "setAddress"
  <2>. DEFINE a == Acknowledge(d)
  <2>1. e = [a EXCEPT !.state = "ADR_PENDING"]
    BY <1>2 DEF CheckStdRequest
  <2>2. /\ Sane(a) /\ Kept(d, a, BusyFields) /\ a.bd = d.bd
        /\ a.inBusy /\ a.outBusy = d.outBusy
    BY AcknowledgeEffect
  <2>. HIDE DEF e, a, k
  <2>3. DOMAIN a = Fields
    BY <2>2 DEF Sane, IsDev
  <2>4. IsDev(e) /\ Kept(a, e, {"state"}) /\ e.state = "ADR_PENDING"
    <3>1. IsDev(e)
      BY <2>1, <2>3 DEF IsDev
    <3>2. Kept(a, e, {"state"})
      BY <2>1, <2>3 DEF Kept
    <3>. QED BY <2>1, <2>3, <3>1, <3>2 DEF Fields
  <2>5. Sane(e) /\ e.bd = a.bd
    BY <2>2, <2>4, SaneStill DEF Kept, Untyped
  <2>6. Kept(d, e, BusyFields \cup {"state"})
    BY <2>2, <2>4 DEF Kept
  <2>7. Kept(d, e, PrepareFields)
    BY <2>6 DEF Kept, PrepareFields, ConfigFields
  <2>8. Prepared(d, e)
    BY <2>2, <2>4, <2>5, <2>6 DEF Kept, Prepared, Halting1, BusyFields, Fields
  <2>9. /\ e.config = d.config /\ e.pp = d.pp /\ e.sie = d.sie /\ e.enabled = d.enabled
        /\ e.fresh = d.fresh /\ e.outHandle = d.outHandle /\ e.inHandle = d.inHandle
        /\ e.cpu = d.cpu /\ e.events = d.events /\ e.setup = d.setup
    BY <2>6 DEF Kept, BusyFields, Fields
  <2>10. Request1(d, e)
    BY <1>2, <2>2, <2>4, <2>5, <2>9 DEF Request1, Same1, k
  <2>11. e.inBusy /\ e.outBusy = d.outBusy
    BY <2>2, <2>4 DEF Kept, Fields
  <2>12. Asked(d, e)
    BY <1>2, <2>9, <2>11, StackAssumption DEF Asked, Filled, ToHost, Reads, k
  <2>. QED BY <2>5, <2>7, <2>8, <2>10, <2>11, <2>12 DEF e
<1>3. CASE k = "setConfiguration"
  <2>1. e = SetConfiguration(d)
    BY <1>3 DEF CheckStdRequest
  <2>. HIDE DEF e
  <2>2. Sane(e) /\ Kept(d, e, ConfigFields) /\ StartedOver(d, e)
    BY <2>1, SetConfigurationEffect
  <2>3. Kept(d, e, PrepareFields)
    BY <2>2 DEF Kept, PrepareFields
  <2>4. Request1(d, e)
    BY <1>3, <2>2 DEF Request1, StartedOver
  <2>5. e.inBusy /\ e.outBusy = d.outBusy /\ e.setup = d.setup
    BY <2>2 DEF Kept, ConfigFields, Fields, StartedOver
  <2>6. Asked(d, e)
    BY <1>3, <2>5, StackAssumption DEF Asked, Filled, ToHost, Reads
  <2>. QED BY <1>3, <2>2, <2>3, <2>4, <2>5, <2>6 DEF e, Prepared
<1>4. CASE k \in {"setHalt", "clearHalt"} /\ d.state = "CONFIGURED"
  <2>. DEFINE a == IF k = "setHalt" THEN SetHalt(d, d.setup.pipe) ELSE ClearHalt(d, d.setup.pipe)
  <2>1. e = Acknowledge(a)
    BY <1>4 DEF CheckStdRequest, FeatureRequest
  <2>2. d.setup.pipe \in Pipes1
    BY DEF Sane, Request
  <2>3. /\ Sane(a) /\ Kept(d, a, {"cpu", "terminated", "events", "bd"})
        /\ OnlyPipe(d, a, d.setup.pipe) /\ Halting1(d, a)
        /\ IF k = "setHalt" THEN Halted1(d, a, d.setup.pipe) ELSE Cleared1(d, a, d.setup.pipe)
    <3>1. CASE k = "setHalt"
      BY <2>2, <3>1, SetHaltEffect DEF Kept
    <3>2. CASE k # "setHalt"
      BY <2>2, <3>2, ClearHaltEffect
    <3>. QED BY <3>1, <3>2
  <2>. HIDE DEF a, k, e
  <2>4. /\ Sane(e) /\ Kept(a, e, BusyFields) /\ e.bd = a.bd
        /\ e.inBusy /\ e.outBusy = a.outBusy
    BY <2>1, <2>3, AcknowledgeEffect
  <2>5. Kept(d, e, {"cpu", "terminated", "events", "bd"} \cup BusyFields)
    BY <2>3, <2>4 DEF Kept
  <2>6. Kept(d, e, PrepareFields)
    BY <2>5 DEF Kept, PrepareFields, ConfigFields
  <2>7. Halting1(d, e)
    BY <2>3, <2>4 DEF Halting1, Kept, BusyFields, Fields
  <2>8. e.bd["in0"] = d.bd["in0"] /\ e.bd["out0"] = d.bd["out0"]
    BY <2>2, <2>3, <2>4, Ep0Pipes, Ep1Pipes DEF OnlyPipe
  <2>9. /\ e.cur = d.cur /\ e.next = d.next /\ e.pin = d.pin /\ e.sie = d.sie /\ e.state = d.state
        /\ e.enabled = d.enabled /\ e.fresh = d.fresh /\ e.outHandle = d.outHandle
    BY <2>5 DEF Kept, BusyFields, Fields
  <2>10. Prepared(d, e)
    BY <2>7, <2>8, <2>9 DEF Prepared
  <2>11. /\ e.config = d.config /\ e.pp = d.pp /\ e.inHandle = d.inHandle /\ e.setup = d.setup
         /\ e.cpu = a.cpu /\ e.events = a.events /\ a.outBusy = d.outBusy
    BY <2>3, <2>4, <2>5 DEF Kept, BusyFields, Fields
  <2>12. IF k = "setHalt" THEN Halted1(d, e, d.setup.pipe) ELSE Cleared1(d, e, d.setup.pipe)
    <3>. DEFINE p == d.setup.pipe
    <3>1. Halted1(d, a, p) => Halted1(d, e, p)
      <4>. HIDE DEF p
      <4>. QED BY <2>4, <2>11 DEF Halted1
    <3>2. Cleared1(d, a, p) => Cleared1(d, e, p)
      <4>. HIDE DEF p
      <4>. QED BY <2>4, <2>11 DEF Cleared1
    <3>. QED BY <2>3, <3>1, <3>2
  <2>13. \A q \in Pipes1 \ {d.setup.pipe} : e.bd[q] = d.bd[q]
    BY <2>3, <2>4, Ep1Pipes DEF OnlyPipe
  <2>14. Request1(d, e)
    BY <1>4, <2>9, <2>11, <2>12, <2>13 DEF Request1, k
  <2>15. Asked(d, e)
    BY <1>4, <2>4, <2>11, StackAssumption DEF Asked, Filled, ToHost, Reads, k
  <2>. QED BY <1>4, <2>4, <2>6, <2>10, <2>14, <2>15 DEF e, k
<1>5. CASE \/ k \in {"setHalt", "clearHalt"} /\ d.state # "CONFIGURED"
           \/ k \notin {"device", "configuration", "getConfiguration", "getStatus", "setAddress",
                        "setConfiguration", "setHalt", "clearHalt"}
  <2>1. e = d
    BY <1>5 DEF CheckStdRequest, FeatureRequest
  <2>. HIDE DEF e
  <2>2. Kept(d, e, BusyFields)
    BY <2>1 DEF Kept
  <2>3. Request1(d, e)
    BY <1>5, <2>1, <2>2, PlainRequest DEF Plain
  <2>4. Asked(d, e)
    BY <2>1 DEF Asked
  <2>. QED BY <1>5, <2>1, <2>2, <2>3, <2>4, BusyPrepared DEF e
<1>. QED BY <1>1, <1>2, <1>3, <1>4, <1>5

\* USBCheckHIDRequest, whatever the request.
LEMMA HidEffect ==
  ASSUME NEW d, Sane(d)
  PROVE  LET e == CheckHIDRequest(d)
         IN  Sane(e) /\ Kept(d, e, BusyFields) /\ e.bd = d.bd /\ Asked(d, e)
<1>. DEFINE e == CheckHIDRequest(d)
            k == d.setup.kind
<1>1. CASE k \in {"report", "getIdle"} \/ (k = "hid" /\ d.config = 1)
  <2>1. e = Send(d, k)
    BY <1>1 DEF CheckHIDRequest
  <2>. HIDE DEF e, k
  <2>2. /\ Sane(e) /\ Kept(d, e, BusyFields) /\ e.bd = d.bd
        /\ e.inBusy /\ e.outBusy = d.outBusy
        /\ e.source = k /\ e.pos = 0 /\ e.count = SizeOf[k]
    BY <2>1, SendEffect
  <2>3. e.setup = d.setup
    BY <2>2 DEF Kept, BusyFields, Fields
  <2>4. Asked(d, e)
    BY <2>2, <2>3 DEF Asked, Filled, k
  <2>. QED BY <2>2, <2>4 DEF e
<1>2. CASE k = "setIdle"
  <2>1. e = Acknowledge(d)
    BY <1>2 DEF CheckHIDRequest
  <2>. HIDE DEF e, k
  <2>2. /\ Sane(e) /\ Kept(d, e, BusyFields) /\ e.bd = d.bd
        /\ e.inBusy /\ e.outBusy = d.outBusy
    BY <2>1, AcknowledgeEffect
  <2>3. e.setup = d.setup
    BY <2>2 DEF Kept, BusyFields, Fields
  <2>4. Asked(d, e)
    BY <1>2, <2>2, <2>3, StackAssumption DEF Asked, Filled, ToHost, Reads, k
  <2>. QED BY <2>2, <2>4 DEF e
<1>3. CASE k = "setReport" /\ ReportHandler
  <2>1. e = [d EXCEPT !.outBusy = TRUE, !.outCount = d.setup.len]
    BY <1>3 DEF CheckHIDRequest
  <2>. HIDE DEF e, k
  <2>2. DOMAIN d = Fields /\ d.inBusy \in BOOLEAN
    BY DEF Sane, IsDev, Flags
  <2>3. IsDev(e) /\ Kept(d, e, BusyFields) /\ e.outBusy = TRUE /\ e.inBusy = d.inBusy
    <3>1. IsDev(e)
      BY <2>1, <2>2 DEF IsDev
    <3>2. Kept(d, e, BusyFields)
      BY <2>1, <2>2 DEF Kept, BusyFields
    <3>. QED BY <2>1, <2>2, <3>1, <3>2 DEF Fields, BusyFields
  <2>4. Sane(e) /\ e.bd = d.bd
    BY <2>2, <2>3, BusyEffect
  <2>5. e.setup = d.setup
    BY <2>3 DEF Kept, BusyFields, Fields
  <2>6. Asked(d, e)
    BY <1>3, <2>3, <2>5, StackAssumption DEF Asked, Filled, ToHost, Reads, k
  <2>. QED BY <2>3, <2>4, <2>6 DEF e
<1>4. CASE /\ k \notin {"report", "getIdle", "setIdle"}
           /\ ~(k = "hid" /\ d.config = 1) /\ ~(k = "setReport" /\ ReportHandler)
  <2>1. e = d
    BY <1>4 DEF CheckHIDRequest
  <2>. QED BY <2>1 DEF Kept, Asked
<1>. QED BY <1>1, <1>2, <1>3, <1>4

-----------------------------------------------------------------------------
(* A SETUP, and the other two transactions of endpoint 0.                  *)

\* The SETUP handler takes both IN descriptors back, and one OUT.
LEMMA CancelledEffect ==
  ASSUME NEW d, Sane(d)
  PROVE  LET e == Cancelled(d)
         IN  /\ Sane(e) /\ Kept(d, e, {"bd"}) /\ \A q \in Pipes1 : e.bd[q] = d.bd[q]
             /\ \A x \in Bit : ~e.bd["in0"][x].own
             /\ e.bd["out0"][1 - d.next] = d.bd["out0"][1 - d.next]
<1>. DEFINE e == Cancelled(d)
            i == [x \in 0 .. 1 |-> Back(d.bd["in0"][x])]
            a == [d EXCEPT !.bd["in0"] = i]
            v == Back(d.bd["out0"][d.next])
<1>1. DOMAIN d = Fields /\ IsBdt(d.bd) /\ d.next \in Bit /\ DOMAIN d.bd = Pipes
  BY DEF Sane, IsDev, IsBdt
<1>2. e = [d EXCEPT !.bd["in0"] = i, !.bd["out0"][d.next] = v]
  BY DEF Cancelled
<1>3. IsPair(i) /\ \A x \in Bit : ~i[x].own
  <2>1. \A x \in Bit : IsBd(d.bd["in0"][x])
    BY <1>1, BdOf, Ep0Pipes
  <2>2. \A x \in Bit : IsBd(Back(d.bd["in0"][x])) /\ ~Back(d.bd["in0"][x]).own
    BY <2>1, BackFact
  <2>. QED BY <2>2 DEF IsPair, Bit
<1>4. IsBd(v)
  BY <1>1, BdOf, Ep0Pipes, BackFact
<1>. HIDE DEF e, i, v
<1>5. e = [a EXCEPT !.bd["out0"][d.next] = v]
  BY <1>2
<1>6. IsDev(a) /\ Kept(d, a, {"bd"}) /\ a.bd = [d.bd EXCEPT !["in0"] = i]
  <2>1. IsDev(a)
    BY <1>1 DEF IsDev
  <2>2. Kept(d, a, {"bd"})
    BY <1>1 DEF Kept
  <2>. QED BY <1>1, <2>1, <2>2 DEF Fields
<1>. HIDE DEF a
<1>7. /\ a.bd["in0"] = i /\ \A q \in Pipes \ {"in0"} : a.bd[q] = d.bd[q]
      /\ a.bd = [p \in Pipes |-> a.bd[p]]
  BY <1>1, <1>6, Ep0Pipes
<1>8. IsBdt(a.bd)
  BY <1>1, <1>3, <1>7 DEF IsBdt
<1>9. Sane(a)
  BY <1>6, <1>8 DEF Sane, Kept, Fields, Flags
<1>10. Sane(e) /\ Kept(a, e, {"bd"}) /\ Put(a, e, "out0", d.next, v)
  BY <1>1, <1>4, <1>5, <1>9, Ep0Pipes, PutStep
<1>11. Kept(d, e, {"bd"})
  BY <1>6, <1>10 DEF Kept
<1>. QED BY <1>3, <1>7, <1>10, <1>11, Ep0Pipes, Ep1Pipes DEF e, Put

\* What the request has done to endpoint 1.
Endpoint1(d, e) ==
  \/ e.state = "ADDRESS" /\ ~e.enabled
  \/ e.state = "CONFIGURED" /\ Initialized(e)
  \/ /\ e.state \in {d.state, "ADR_PENDING"}
     /\ e.enabled = d.enabled /\ e.fresh = d.fresh /\ e.outHandle = d.outHandle
     /\ Halting1(d, e)

\* Control transfers: what the stages mean to the descriptors of endpoint 0.
Stage0(d) ==
  /\ d.both <=> d.transfer = "TX"
  /\ d.both => d.flag1
  /\ ~d.flag1 => ~d.flag2
  /\ d.bd["in0"][d.pin].own /\ ~d.bd["in0"][d.pin].stall => d.flag1

\* Endpoint 0 after a SETUP has been dealt with.
SetupDone(d, e) ==
  /\ ~e.pktDis /\ Stage0(e) /\ Endpoint1(d, e)
  /\ \/ e.sie = d.sie /\ e.cur = d.cur /\ e.next = d.next /\ e.pin = d.pin
     \/ e.sie = [p \in Pipes |-> 0] /\ e.cur = 0 /\ e.next = 0 /\ e.pin = 0
  /\ ~e.bd["in0"][1 - e.pin].own
  /\ e.bd["out0"][e.next].own
  /\ e.bd["out0"][1 - e.next].own => e.both /\ e.bd["out0"][1 - e.next].stall
  /\ e.both => e.bd["out0"][1 - e.next].own

\* Two devices of which that can be said alike.
Alike1(d, e) ==
  /\ e.config = d.config /\ e.pp = d.pp /\ e.sie = d.sie /\ e.enabled = d.enabled
  /\ e.fresh = d.fresh /\ e.outHandle = d.outHandle /\ e.inHandle = d.inHandle
  /\ e.state = d.state /\ Same1(d, e)

\* What else the handler does makes no difference to it.
LEMMA RequestCarried ==
  ASSUME NEW d, NEW b, NEW c, NEW e, d.setup = b.setup, b.setup.pipe \in Pipes1,
         Alike1(d, b), Request1(b, c), Alike1(c, e)
  PROVE  Request1(d, e)
<1>. DEFINE p == b.setup.pipe
<1>1. Halted1(b, c, p) => Halted1(d, e, p)
  <2>. HIDE DEF p
  <2>1. p \in Pipes1
    BY DEF p
  <2>2. d.pp = b.pp /\ d.cpu = b.cpu /\ d.events = b.events /\ d.bd[p] = b.bd[p]
        /\ e.cpu = c.cpu /\ e.events = c.events /\ e.bd[p] = c.bd[p]
    BY <2>1 DEF Alike1, Same1
  <2>. QED BY <2>2 DEF Halted1
<1>2. Cleared1(b, c, p) => Cleared1(d, e, p)
  <2>. HIDE DEF p
  <2>1. p \in Pipes1
    BY DEF p
  <2>2. d.pp = b.pp /\ d.cpu = b.cpu /\ e.cpu = c.cpu /\ e.bd[p] = c.bd[p]
    BY <2>1 DEF Alike1, Same1
  <2>. QED BY <2>2 DEF Cleared1
<1>3. Initialized(c) => Initialized(e)
  BY Ep1Pipes DEF Initialized, Alike1, Same1
<1>. HIDE DEF p
<1>4. CASE b.setup.kind = "setConfiguration"
  BY <1>3, <1>4 DEF Request1, Alike1, Same1
<1>5. CASE b.setup.kind # "setConfiguration"
  <2>1. CASE b.setup.kind \in {"setHalt", "clearHalt"} /\ b.state = "CONFIGURED"
    BY <1>1, <1>2, <1>5, <2>1 DEF Request1, Alike1, Same1, p
  <2>2. CASE ~(b.setup.kind \in {"setHalt", "clearHalt"} /\ b.state = "CONFIGURED")
    BY <1>5, <2>2 DEF Request1, Alike1, Same1
  <2>. QED BY <2>1, <2>2
<1>. QED BY <1>4, <1>5

\* What the handler of a SETUP has answered, or will receive: a read is under
\* way, from the first byte of what was asked for, or refused.
Replied(e) ==
  LET b == e.bd["in0"][e.pin]
      k == e.setup.kind
      n == Lesser(SizeOf[k], e.setup.len)
  IN  /\ b.own \/ (~e.flag1 /\ e.transfer = "RX")
      /\ k \in {"setAddress", "setConfiguration"} => b.own /\ ~b.stall
      /\ e.both => /\ ToHost(e.setup) /\ b.own /\ ~b.stall /\ b.dts = 1
                   /\ b.cnt = Lesser(n, Ep0Size) /\ e.source = k
                   /\ e.staged = [source |-> k, pos |-> 0]
                   /\ e.pos = 0 + Lesser(n, Ep0Size) /\ e.count = n - Lesser(n, Ep0Size)
                   /\ e.short = IF n >= Ep0Size THEN "notUsed" ELSE "pending"
      /\ ToHost(e.setup) /\ ~e.both => e.transfer = "WAIT_SETUP" /\ b.own /\ b.stall

SetupFields == PrepareFields \cup ServeFields

\* After USBCtrlTrfSetupHandler the descriptors, the stages and the turns fit.
LEMMA SetupEffect ==
  ASSUME NEW d, Sane(d), d.next = 1 - d.cur, ~d.flag1 => ~d.flag2, ~d.bd["out0"][d.cur].own
  PROVE  LET e == SetupHandler(d)
         IN  /\ Sane(e) /\ Kept(d, e, SetupFields) /\ SetupDone(d, e)
             /\ Request1(d, e) /\ Replied(e)
<1>. DEFINE e == SetupHandler(d)
            a == Cancelled(d)
            b == [a EXCEPT !.short = "notUsed", !.both = FALSE, !.transfer = "WAIT_SETUP",
                           !.inBusy = FALSE, !.count = 0, !.outBusy = FALSE, !.outCount = 0]
            c == CheckStdRequest(b)
            h == CheckHIDRequest(c)
<1>1. e = ServiceComplete(h)
  BY DEF SetupHandler
<1>2. /\ Sane(a) /\ Kept(d, a, {"bd"}) /\ \A q \in Pipes1 : a.bd[q] = d.bd[q]
      /\ \A x \in Bit : ~a.bd["in0"][x].own
      /\ a.bd["out0"][1 - d.next] = d.bd["out0"][1 - d.next]
  BY CancelledEffect
<1>. HIDE DEF e, a
<1>3. /\ IsDev(b)
      /\ Kept(a, b, {"short", "both", "transfer", "inBusy", "count", "outBusy", "outCount"})
      /\ ~b.both /\ b.transfer = "WAIT_SETUP" /\ b.both \in BOOLEAN /\ b.inBusy = FALSE
      /\ b.outBusy = FALSE /\ b.short = "notUsed"
  <2>1. DOMAIN a = Fields
    BY <1>2 DEF Sane, IsDev
  <2>2. IsDev(b) /\ Kept(a, b, {"short", "both", "transfer", "inBusy", "count", "outBusy", "outCount"})
    BY <2>1 DEF IsDev, Kept
  <2>3. b.both = FALSE /\ b.transfer = "WAIT_SETUP"
    BY <2>1 DEF Fields
  <2>4. b.inBusy = FALSE /\ b.outBusy = FALSE /\ b.short = "notUsed"
    BY <2>1 DEF Fields
  <2>. QED BY <2>2, <2>3, <2>4
<1>. HIDE DEF b
<1>4. Sane(b) /\ b.bd = a.bd
  BY <1>2, <1>3 DEF Sane, Kept, Fields, Flags
<1>5. /\ Sane(c) /\ Kept(b, c, PrepareFields) /\ Prepared(b, c)
      /\ Request1(b, c) /\ Asked(b, c)
      /\ b.setup.kind \in {"setAddress", "setConfiguration"} => c.inBusy
  BY <1>4, StdEffect
<1>. HIDE DEF c
<1>6. Sane(h) /\ Kept(c, h, BusyFields) /\ h.bd = c.bd /\ Asked(c, h)
  BY <1>5, HidEffect
<1>. HIDE DEF h
<1>7. /\ d.cur \in Bit /\ d.next \in Bit /\ 1 - d.next = d.cur
      /\ b.cur = d.cur /\ b.next = d.next /\ b.pin = d.pin /\ b.sie = d.sie /\ b.setup = d.setup
      /\ b.flag1 = d.flag1 /\ b.flag2 = d.flag2 /\ b.state = d.state /\ b.enabled = d.enabled
      /\ b.fresh = d.fresh /\ b.outHandle = d.outHandle /\ b.cpu = d.cpu /\ b.events = d.events
  <2>1. Kept(d, b, {"bd", "short", "both", "transfer", "inBusy", "count", "outBusy", "outCount"})
    BY <1>2, <1>3 DEF Kept
  <2>2. d.cur \in Bit /\ d.next \in Bit /\ 1 - d.next = d.cur
    BY DEF Sane, Bit
  <2>. QED BY <2>1, <2>2 DEF Kept, Fields
<1>8. /\ h.setup = d.setup /\ h.flag1 = d.flag1 /\ h.flag2 = d.flag2 /\ ~h.both
      /\ h.transfer = "WAIT_SETUP"
      /\ h.cur = c.cur /\ h.next = c.next /\ h.pin = c.pin /\ h.sie = c.sie /\ h.state = c.state
      /\ h.enabled = c.enabled /\ h.fresh = c.fresh /\ h.outHandle = c.outHandle /\ h.cpu = c.cpu
      /\ h.events = c.events /\ h.inHandle = c.inHandle
  BY <1>3, <1>5, <1>6, <1>7 DEF Kept, PrepareFields, ConfigFields, BusyFields, Fields
<1>9. \/ /\ h.sie = d.sie /\ h.cur = d.cur /\ h.next = d.next /\ h.pin = d.pin
         /\ h.bd["out0"][1 - h.next] = d.bd["out0"][d.cur]
      \/ /\ h.sie = [p \in Pipes |-> 0] /\ h.cur = 0 /\ h.next = 0 /\ h.pin = 0
         /\ ~h.bd["out0"][1 - h.next].own /\ h.setup.kind = "setConfiguration"
  <2>1. CASE b.setup.kind = "setConfiguration" /\ StartedOver(b, c)
    BY <1>6, <1>7, <1>8, <2>1 DEF StartedOver, Bit
  <2>2. CASE ~(b.setup.kind = "setConfiguration" /\ StartedOver(b, c))
    BY <1>2, <1>4, <1>5, <1>6, <1>7, <1>8, <2>2 DEF Prepared
  <2>. QED BY <2>1, <2>2
<1>10. \A x \in Bit : ~h.bd["in0"][x].own
  BY <1>2, <1>4, <1>5, <1>6 DEF Prepared, StartedOver
<1>11. Endpoint1(d, h)
  <2>1. CASE b.setup.kind = "setConfiguration" /\ StartedOver(b, c)
    BY <1>6, <1>8, <2>1 DEF StartedOver, Endpoint1, Initialized
  <2>2. CASE ~(b.setup.kind = "setConfiguration" /\ StartedOver(b, c))
    <3>1. /\ c.state \in {b.state, "ADR_PENDING"} /\ c.enabled = b.enabled /\ c.fresh = b.fresh
          /\ c.outHandle = b.outHandle /\ Halting1(b, c)
      BY <1>5, <2>2 DEF Prepared
    <3>2. Halting1(d, h)
      BY <1>2, <1>4, <1>6, <1>7, <1>8, <3>1 DEF Halting1
    <3>. QED BY <1>7, <1>8, <3>1, <3>2 DEF Endpoint1
  <2>. QED BY <2>1, <2>2
<1>12. h.inBusy /\ ToHost(h.setup) => h.next = 1 - h.cur
  <2>1. ToHost(h.setup) => h.setup.kind # "setConfiguration"
    BY StackAssumption DEF ToHost, Reads
  <2>. QED BY <1>9, <2>1
<1>13. h.pin \in Bit /\ h.next \in Bit /\ h.cur \in Bit
  BY <1>6 DEF Sane
<1>14. Sane(e) /\ Kept(h, e, ServeFields) /\ Served(h, e) /\ StageLeft(h, e)
  BY <1>1, <1>6, <1>8, <1>10, <1>12, <1>13, CompleteEffect
<1>15. Kept(d, e, SetupFields)
  <2>1. Kept(d, b, SetupFields)
    BY <1>2, <1>3 DEF Kept, SetupFields, ServeFields, PrepareFields, BusyFields
  <2>2. Kept(b, h, SetupFields)
    BY <1>5, <1>6 DEF Kept, SetupFields, PrepareFields
  <2>3. Kept(h, e, SetupFields)
    BY <1>14 DEF Kept, SetupFields
  <2>. QED BY <2>1, <2>2, <2>3 DEF Kept
<1>16. /\ e.sie = h.sie /\ e.cur = h.cur /\ e.next = h.next /\ e.pin = h.pin /\ e.state = h.state
       /\ e.enabled = h.enabled /\ e.fresh = h.fresh /\ e.outHandle = h.outHandle
       /\ e.cpu = h.cpu /\ e.events = h.events /\ e.inHandle = h.inHandle
  BY <1>14 DEF Kept, ServeFields, Fields
<1>17. Stage0(e)
  BY <1>14, <1>16 DEF Served, Stage0
<1>18. Endpoint1(d, e)
  BY <1>11, <1>14, <1>16, Ep1Pipes DEF Endpoint1, Initialized, Halting1, Served
<1>19. \/ e.sie = d.sie /\ e.cur = d.cur /\ e.next = d.next /\ e.pin = d.pin
       \/ e.sie = [p \in Pipes |-> 0] /\ e.cur = 0 /\ e.next = 0 /\ e.pin = 0
  BY <1>9, <1>16
<1>20. ~e.bd["in0"][1 - e.pin].own
  <2>1. 1 - h.pin \in Bit
    BY <1>13 DEF Bit
  <2>. QED BY <1>10, <1>14, <1>16, <2>1 DEF Served
<1>21. ~h.bd["out0"][1 - h.next].own
  BY <1>9
<1>22. /\ e.bd["out0"][e.next].own
       /\ e.bd["out0"][1 - e.next].own => e.both /\ e.bd["out0"][1 - e.next].stall
       /\ e.both => e.bd["out0"][1 - e.next].own
  <2>1. h.next = 1 - h.cur => h.cur = 1 - h.next
    BY <1>13 DEF Bit
  <2>. QED BY <1>14, <1>16, <1>21, <2>1 DEF Served
<1>23. Request1(d, e)
  <2>1. Alike1(d, b)
    <3>1. Kept(d, b, {"bd", "short", "both", "transfer", "inBusy", "count", "outBusy", "outCount"})
      BY <1>2, <1>3 DEF Kept
    <3>. QED BY <1>2, <1>4, <3>1 DEF Alike1, Same1, Kept, Fields
  <2>2. Alike1(c, e)
    <3>1. Kept(c, e, BusyFields \cup ServeFields)
      BY <1>6, <1>14 DEF Kept
    <3>2. \A q \in Pipes1 : e.bd[q] = c.bd[q]
      BY <1>6, <1>14 DEF Served
    <3>. QED BY <3>1, <3>2 DEF Alike1, Same1, Kept, BusyFields, ServeFields, Fields
  <2>3. b.setup = d.setup /\ b.setup.pipe \in Pipes1
    BY <1>4, <1>7 DEF Sane, Request
  <2>. QED BY <1>5, <2>1, <2>2, <2>3, RequestCarried
<1>24. Replied(e)
  <2>1. c.setup = d.setup /\ h.short = "notUsed" /\ e.setup = h.setup /\ e.source = h.source
    BY <1>3, <1>5, <1>6, <1>7, <1>14 DEF Kept, PrepareFields, ConfigFields, BusyFields, ServeFields, Fields
  <2>2. Filled(h)
    BY <1>3, <1>5, <1>6 DEF Asked, Filled
  <2>3. h.outBusy => d.setup.kind = "setReport"
    BY <1>3, <1>5, <1>6, <1>7, <2>1 DEF Asked
  <2>4. d.setup.kind \in {"setAddress", "setConfiguration"} => h.inBusy
    BY <1>5, <1>6, <1>7 DEF Asked
  <2>5. ToHost(e.setup) => ~h.outBusy
    BY <1>8, <2>1, <2>3, StackAssumption DEF ToHost, Reads
  <2>6. h.inBusy \in BOOLEAN /\ h.outBusy \in BOOLEAN
    BY <1>6 DEF Sane, Flags
  <2>. DEFINE k == e.setup.kind
              n == Lesser(SizeOf[k], e.setup.len)
              v == e.bd["in0"][e.pin]
  <2>7. v.own \/ (~e.flag1 /\ e.transfer = "RX")
    BY <1>14, <1>16, <2>6 DEF StageLeft
  <2>8. k \in {"setAddress", "setConfiguration"} => v.own /\ ~v.stall
    BY <1>8, <1>14, <1>16, <2>1, <2>4 DEF StageLeft
  <2>9. ToHost(e.setup) /\ ~e.both => e.transfer = "WAIT_SETUP" /\ v.own /\ v.stall
    BY <1>14, <1>16, <2>1, <2>5, <2>6 DEF StageLeft
  <2>10. ASSUME e.both PROVE ToHost(e.setup) /\ v.own /\ ~v.stall /\ v.dts = 1
    BY <1>14, <1>16, <2>1, <2>10 DEF StageLeft
  <2>11. ASSUME e.both
         PROVE  /\ v.cnt = Lesser(n, Ep0Size) /\ e.source = k
                /\ e.staged = [source |-> k, pos |-> 0]
                /\ e.pos = 0 + Lesser(n, Ep0Size) /\ e.count = n - Lesser(n, Ep0Size)
                /\ e.short = IF n >= Ep0Size THEN "notUsed" ELSE "pending"
    <3>1. h.inBusy /\ ToHost(h.setup) /\ Packet(h, e, h.pin, Lesser(h.count, h.setup.len))
      BY <1>14, <2>11 DEF StageLeft
    <3>2. h.source = k /\ h.pos = 0 /\ h.count = SizeOf[k]
      BY <2>1, <2>2, <3>1 DEF Filled
    <3>3. Lesser(h.count, h.setup.len) = n /\ e.pin = h.pin /\ e.source = k
      BY <1>16, <2>1, <3>2
    <3>. HIDE DEF n, k
    <3>. QED BY <2>1, <3>1, <3>2, <3>3 DEF Packet
  <2>. QED BY <2>7, <2>8, <2>9, <2>10, <2>11 DEF Replied
<1>. QED BY <1>14, <1>15, <1>17, <1>18, <1>19, <1>20, <1>22, <1>23, <1>24 DEF e, SetupDone, Served

\* The SIE has the next IN descriptor, or the firmware will open the status
\* stage of a write: when its data is there, or the timer has run down.
StatusDue(d) == d.bd["in0"][d.pin].own \/ (~d.flag1 /\ d.transfer = "RX")

OutFields == {"outCount", "outBusy", "bd", "flag1", "flag2", "both", "transfer"}

\* Endpoint 0 after an OUT transaction: of a read, it was the status stage.
OutDone(d, e) ==
  /\ Stage0(e) /\ ~e.both
  /\ d.flag1 => e.flag1 /\ e.bd["in0"] = d.bd["in0"]
  /\ \A q \in Pipes1 : e.bd[q] = d.bd[q]
  /\ e.bd["in0"][1 - d.pin] = d.bd["in0"][1 - d.pin]
  /\ IF d.both THEN e.bd["out0"] = d.bd["out0"]
     ELSE e.bd["out0"][d.next].own /\ e.bd["out0"][1 - d.next] = d.bd["out0"][1 - d.next]
  /\ StatusDue(d) => StatusDue(e)

\* USBCtrlTrfRxService, with more to come or not.
LEMMA RxEffect ==
  ASSUME NEW d, Sane(d), Stage0(d), d.transfer = "RX"
  PROVE  LET e == RxService(d)
         IN  Sane(e) /\ Kept(d, e, OutFields) /\ OutDone(d, e)
<1>. DEFINE e == RxService(d)
            k == d.outCount - Lesser(d.bd["out0"][d.cur].cnt, d.outCount)
            a == [d EXCEPT !.outCount = k]
            b == [a EXCEPT !.outBusy = FALSE]
            t == 1 - d.bd["out0"][d.cur].dts
            c == [b EXCEPT !.bd["out0"][d.next] = Given(@, TRUE, 0, FALSE)]
<1>1. /\ DOMAIN d = Fields /\ d.next \in Bit /\ d.cur \in Bit /\ "out0" \in Pipes
      /\ TRUE \in BOOLEAN /\ FALSE \in BOOLEAN /\ 0 \in Bit /\ ~d.both
  BY Ep0Pipes DEF Sane, IsDev, Stage0
<1>2. t \in Bit
  <2>1. IsBd(d.bd["out0"][d.cur])
    BY <1>1, BdOf DEF Sane
  <2>. QED BY <2>1 DEF IsBd, Bit
<1>3. e = IF a.outCount > 0 THEN [a EXCEPT !.bd["out0"][d.next] = Given(@, FALSE, t, TRUE)]
                            ELSE AllowStatusStage(c)
  BY DEF RxService
<1>4. c = [b EXCEPT !.bd["out0"][d.next] = Given(@, TRUE, 0, FALSE)]
  OBVIOUS
<1>5. IsDev(a) /\ Kept(d, a, {"outCount"})
  BY <1>1 DEF IsDev, Kept
<1>. HIDE DEF a, c, e, t, k
<1>6. Sane(a) /\ a.bd = d.bd
  BY <1>5, SaneStill DEF Kept, Untyped
<1>7. CASE a.outCount > 0
  <2>1. e = [a EXCEPT !.bd["out0"][d.next] = Given(@, FALSE, t, TRUE)]
    BY <1>3, <1>7
  <2>2. Sane(e) /\ Kept(a, e, {"bd"}) /\ Gives(a, e, "out0", d.next, FALSE, t)
    BY <1>1, <1>2, <1>6, <2>1, GiveStep
  <2>3. Kept(d, e, {"outCount", "bd"})
    BY <1>5, <2>2 DEF Kept
  <2>4. e.bd["in0"] = d.bd["in0"] /\ \A q \in Pipes1 : e.bd[q] = d.bd[q]
    BY <1>6, <2>2, Ep0Pipes, Ep1Pipes DEF Gives
  <2>5. e.pin = d.pin /\ e.both = d.both /\ e.flag1 = d.flag1 /\ e.flag2 = d.flag2 /\ e.transfer = d.transfer
    BY <2>3 DEF Kept, Fields
  <2>6. OutDone(d, e)
    BY <1>1, <1>6, <2>2, <2>4, <2>5 DEF OutDone, Stage0, Gives, IsGiven, StatusDue
  <2>7. Kept(d, e, OutFields)
    BY <2>3 DEF Kept, OutFields
  <2>. QED BY <2>2, <2>6, <2>7 DEF e
<1>8. CASE ~(a.outCount > 0)
  <2>1. e = AllowStatusStage(c)
    BY <1>3, <1>8
  <2>2. IsDev(b) /\ Kept(a, b, {"outBusy"}) /\ b.outBusy = FALSE /\ b.inBusy = a.inBusy
    <3>1. DOMAIN a = Fields
      BY <1>5 DEF IsDev
    <3>2. IsDev(b)
      BY <3>1 DEF IsDev
    <3>3. Kept(a, b, {"outBusy"})
      BY <3>1 DEF Kept
    <3>. QED BY <3>1, <3>2, <3>3 DEF Fields
  <2>. HIDE DEF b
  <2>3. Kept(d, b, {"outCount", "outBusy"})
    BY <1>5, <2>2 DEF Kept
  <2>4. Sane(b) /\ b.bd = d.bd
    <3>1. d.inBusy \in BOOLEAN /\ a.inBusy = d.inBusy
      BY <1>5 DEF Sane, Flags, Kept, Fields
    <3>2. b.inBusy \in BOOLEAN /\ b.outBusy \in BOOLEAN
      BY <2>2, <3>1 DEF Kept, Fields
    <3>3. Kept(a, b, BusyFields)
      BY <2>2 DEF Kept, BusyFields
    <3>. QED BY <1>6, <2>2, <3>2, <3>3, BusyEffect
  <2>5. Sane(c) /\ Kept(b, c, {"bd"}) /\ Gives(b, c, "out0", d.next, TRUE, 0)
    BY <1>1, <1>4, <2>4, GiveStep
  <2>6. Kept(d, c, {"outCount", "outBusy", "bd"})
    BY <2>3, <2>5 DEF Kept
  <2>7. /\ c.pin = d.pin /\ c.both = d.both /\ c.flag1 = d.flag1 /\ c.flag2 = d.flag2
        /\ c.transfer = d.transfer /\ c.next = d.next
    BY <2>6 DEF Kept, Fields
  <2>8. /\ Sane(e) /\ Kept(c, e, {"flag1", "flag2", "both", "bd"})
        /\ IF ~c.flag1 /\ ~c.flag2 /\ c.transfer \in {"RX", "TX"}
             THEN StageOpened(c, e)
             ELSE e.bd = c.bd /\ e.both = c.both /\ e.flag1 /\ (c.flag1 => e.flag2 = c.flag2)
    <3>1. c.transfer # "TX"
      BY <1>1, <2>7 DEF Stage0
    <3>. QED BY <2>1, <2>5, <3>1, StatusStageEffect
  <2>9. c.bd["in0"] = d.bd["in0"] /\ \A q \in Pipes1 : c.bd[q] = d.bd[q]
    BY <2>4, <2>5, Ep0Pipes, Ep1Pipes DEF Gives
  <2>10. e.pin = d.pin /\ e.transfer = d.transfer
    BY <2>7, <2>8 DEF Kept, Fields
  <2>11. Kept(d, e, OutFields)
    BY <2>3, <2>5, <2>8 DEF Kept, OutFields
  <2>12. e.flag1 /\ ~e.both /\ \A q \in Pipes1 : e.bd[q] = c.bd[q]
    BY <1>1, <2>7, <2>8, Ep1Pipes DEF StageOpened
  <2>13. /\ e.bd["out0"] = c.bd["out0"] /\ e.bd["in0"][1 - d.pin] = c.bd["in0"][1 - d.pin]
         /\ d.flag1 => e.bd["in0"] = c.bd["in0"]
    BY <2>7, <2>8, Ep0Pipes DEF StageOpened
  <2>15. StatusDue(d) => StatusDue(e)
    <3>1. ~d.flag1 => e.bd["in0"][d.pin].own
      BY <2>7, <2>8 DEF StageOpened, Stage0
    <3>. QED BY <2>9, <2>10, <2>13, <3>1 DEF StatusDue
  <2>14. OutDone(d, e)
    BY <1>1, <2>4, <2>5, <2>7, <2>9, <2>10, <2>12, <2>13, <2>15 DEF OutDone, Stage0, Gives, IsGiven
  <2>. QED BY <2>8, <2>11, <2>14 DEF e
<1>. QED BY <1>7, <1>8

\* USBCtrlTrfOutHandler.
LEMMA OutEffect ==
  ASSUME NEW d, Sane(d), Stage0(d)
  PROVE  LET e == OutHandler(d)
         IN  Sane(e) /\ Kept(d, e, OutFields) /\ OutDone(d, e)
<1>. DEFINE e == OutHandler(d)
            v == IF d.both THEN d.bd["out0"][d.next] ELSE ForSetup(d.bd["out0"][d.next])
            a == [d EXCEPT !.transfer = "WAIT_SETUP", !.both = FALSE]
<1>1. CASE d.transfer = "RX"
  <2>1. e = RxService(d)
    BY <1>1 DEF OutHandler
  <2>. HIDE DEF e
  <2>. QED BY <1>1, <2>1, RxEffect DEF e
<1>2. CASE d.transfer # "RX"
  <2>1. DOMAIN d = Fields /\ d.next \in Bit /\ d.cur \in Bit /\ "out0" \in Pipes /\ IsBdt(d.bd)
    BY Ep0Pipes DEF Sane, IsDev
  <2>2. e = [d EXCEPT !.transfer = "WAIT_SETUP", !.both = FALSE, !.bd["out0"][d.next] = v]
    BY <1>2 DEF OutHandler
  <2>3. IsBd(v) /\ IF d.both THEN v = d.bd["out0"][d.next] ELSE v.own
    <3>1. IsBd(d.bd["out0"][d.next])
      BY <2>1, BdOf
    <3>2. IsGiven(d.bd["out0"][d.next], ForSetup(d.bd["out0"][d.next]), TRUE, 0)
      BY <3>1, GivenIs, Ep0Pipes DEF ForSetup
    <3>. QED BY <3>1, <3>2 DEF IsGiven
  <2>. HIDE DEF e, v
  <2>4. e = [a EXCEPT !.bd["out0"][d.next] = v]
    BY <2>2
  <2>5. IsDev(a) /\ Kept(d, a, {"transfer", "both"}) /\ a.both = FALSE /\ a.transfer = "WAIT_SETUP"
    <3>1. IsDev(a)
      BY <2>1 DEF IsDev
    <3>2. Kept(d, a, {"transfer", "both"})
      BY <2>1 DEF Kept
    <3>. QED BY <2>1, <3>1, <3>2 DEF Fields
  <2>. HIDE DEF a
  <2>6. Sane(a) /\ a.bd = d.bd
    BY <2>5 DEF Sane, Kept, Fields, Flags
  <2>7. Sane(e) /\ Kept(a, e, {"bd"}) /\ Put(a, e, "out0", d.next, v)
    BY <2>1, <2>3, <2>4, <2>6, PutStep
  <2>8. Kept(d, e, {"transfer", "both", "bd"})
    BY <2>5, <2>7 DEF Kept
  <2>9. Kept(d, e, OutFields)
    BY <2>8 DEF Kept, OutFields
  <2>10. /\ e.pin = d.pin /\ e.flag1 = d.flag1 /\ e.flag2 = d.flag2 /\ ~e.both
        /\ e.transfer = "WAIT_SETUP"
    BY <2>5, <2>7, <2>8 DEF Kept, Fields
  <2>11. e.bd["in0"] = d.bd["in0"] /\ \A q \in Pipes1 : e.bd[q] = d.bd[q]
    BY <2>6, <2>7, Ep0Pipes, Ep1Pipes DEF Put
  <2>12. d.both => e.bd["out0"] = d.bd["out0"]
    <3>1. e.bd["out0"][1 - d.next] = d.bd["out0"][1 - d.next]
      BY <2>6, <2>7 DEF Put
    <3>2. d.both => e.bd["out0"][d.next] = d.bd["out0"][d.next]
      BY <2>3, <2>7 DEF Put
    <3>3. IsPair(e.bd["out0"]) /\ IsPair(d.bd["out0"])
      BY <2>1, <2>7 DEF Sane, IsBdt
    <3>. QED BY <2>1, <3>1, <3>2, <3>3 DEF IsPair, Bit
  <2>13. OutDone(d, e)
    BY <1>2, <2>3, <2>6, <2>7, <2>10, <2>11, <2>12 DEF OutDone, Stage0, Put, StatusDue
  <2>. QED BY <2>7, <2>9, <2>13 DEF e
<1>. QED BY <1>1, <1>2

InFields == {"pin", "address", "state", "bd", "short", "count", "staged", "pos", "outBusy", "transfer"}

\* Endpoint 0 after an IN transaction.
InDone(d, e) ==
  /\ Stage0(e) /\ e.pin = 1 - d.pin /\ e.both = d.both
  /\ \A q \in Pipes \ {"in0"} : e.bd[q] = d.bd[q]
  /\ e.bd["in0"][d.pin] = d.bd["in0"][d.pin]
  /\ IF d.transfer = "TX"
       THEN LET b == e.bd["in0"][1 - d.pin]
            IN  /\ e.transfer = "TX" /\ b.own /\ Packet(d, e, 1 - d.pin, d.count)
                /\ IF e.short = "sent" THEN b.stall
                                       ELSE ~b.stall /\ b.dts = 1 - d.bd["in0"][d.pin].dts
       ELSE e.transfer = "WAIT_SETUP" /\ e.bd["in0"] = d.bd["in0"]
  /\ IF d.state = "ADR_PENDING"
       THEN e.address = d.setup.arg /\ e.state = IF d.setup.arg = 0 THEN "DEFAULT" ELSE "ADDRESS"
       ELSE e.address = d.address /\ e.state = d.state
  /\ e.state = "CONFIGURED" => d.state = "CONFIGURED"

\* USBCtrlTrfInHandler, the address it may take included.
LEMMA InEffect ==
  ASSUME NEW d, Sane(d), Stage0(d), d.flag1
  PROVE  LET e == InHandler(d)
         IN  Sane(e) /\ Kept(d, e, InFields) /\ InDone(d, e)
<1>. DEFINE r == InHandler(d)
            last == d.bd["in0"][d.pin].dts
            a == [d EXCEPT !.pin = 1 - d.pin]
            e == AddressTaken(a)
            t == TxService(e)
<1>1. DOMAIN d = Fields /\ d.pin \in Bit /\ 1 - d.pin \in Bit /\ last \in Bit /\ 1 - last \in Bit
  <2>1. d.pin \in Bit /\ DOMAIN d = Fields
    BY DEF Sane, IsDev
  <2>2. IsBd(d.bd["in0"][d.pin])
    BY <2>1, BdOf, Ep0Pipes DEF Sane
  <2>. QED BY <2>1, <2>2 DEF IsBd, Bit
<1>2. r = IF e.transfer = "TX"
            THEN [t EXCEPT !.bd["in0"][t.pin] = IF t.short = "sent" THEN Given(@, TRUE, 0, FALSE)
                                                ELSE Given(@, FALSE, 1 - last, TRUE)]
            ELSE [e EXCEPT !.outBusy = FALSE, !.transfer = "WAIT_SETUP"]
  BY DEF InHandler, Advance
<1>3. IsDev(a) /\ Kept(d, a, {"pin"}) /\ a.pin = 1 - d.pin
  <2>1. IsDev(a)
    BY <1>1 DEF IsDev
  <2>2. Kept(d, a, {"pin"})
    BY <1>1 DEF Kept
  <2>. QED BY <1>1, <2>1, <2>2 DEF Fields
<1>. HIDE DEF a, r, last
<1>4. Sane(a) /\ a.bd = d.bd
  BY <1>1, <1>3 DEF Sane, Kept, Fields, Flags
<1>5. /\ IsDev(e) /\ Kept(a, e, {"address", "state"})
      /\ e.state = "CONFIGURED" => d.state = "CONFIGURED"
      /\ IF d.state = "ADR_PENDING"
           THEN /\ e.address = d.setup.arg
                /\ e.state = IF d.setup.arg = 0 THEN "DEFAULT" ELSE "ADDRESS"
           ELSE e.address = d.address /\ e.state = d.state
  <2>1. DOMAIN a = Fields /\ a.state = d.state /\ a.setup = d.setup /\ a.address = d.address
    BY <1>3 DEF IsDev, Kept, Fields
  <2>2. IsDev(e)
    <3>. DEFINE x == a.setup.arg
                y == IF x = 0 THEN "DEFAULT" ELSE "ADDRESS"
    <3>1. e = a \/ e = [a EXCEPT !.address = x, !.state = y]
      BY DEF AddressTaken
    <3>. HIDE DEF e, x, y
    <3>. QED BY <1>3, <2>1, <3>1 DEF IsDev
  <2>3. Kept(a, e, {"address", "state"})
    BY <1>3, <2>1 DEF Kept, AddressTaken
  <2>. QED BY <1>3, <2>1, <2>2, <2>3 DEF Fields, AddressTaken
<1>. HIDE DEF e
<1>6. Sane(e) /\ e.bd = d.bd
  BY <1>4, <1>5, SaneStill DEF Kept, Untyped
<1>7. Kept(d, e, {"pin", "address", "state"}) /\ e.pin = 1 - d.pin
  BY <1>3, <1>5 DEF Kept, Fields
<1>8. e.transfer = d.transfer /\ e.both = d.both /\ e.flag1 = d.flag1
  BY <1>7 DEF Kept, Fields
<1>9. CASE e.transfer = "TX"
  <2>1. /\ Sane(t) /\ Kept(e, t, {"short", "count", "staged", "pos", "bd"})
        /\ Packet(e, t, e.pin, e.count)
        /\ t.bd["in0"][1 - e.pin] = e.bd["in0"][1 - e.pin]
        /\ \A q \in Pipes \ {"in0"} : t.bd[q] = e.bd[q]
    BY <1>6, TxEffect
  <2>. HIDE DEF t
  <2>2. t.pin = e.pin /\ t.pin \in Bit
    BY <1>1, <1>7, <2>1 DEF Kept, Fields
  <2>3. /\ Sane(r) /\ Kept(t, r, {"bd"}) /\ \A q \in Pipes \ {"in0"} : r.bd[q] = t.bd[q]
        /\ r.bd["in0"][1 - t.pin] = t.bd["in0"][1 - t.pin]
        /\ r.bd["in0"][t.pin].own /\ r.bd["in0"][t.pin].cnt = t.bd["in0"][t.pin].cnt
        /\ IF t.short = "sent" THEN r.bd["in0"][t.pin].stall
                               ELSE ~r.bd["in0"][t.pin].stall /\ r.bd["in0"][t.pin].dts = 1 - last
    <3>. DEFINE x == t.pin
    <3>1. x \in Bit /\ Sane(t) /\ "in0" \in Pipes /\ TRUE \in BOOLEAN /\ FALSE \in BOOLEAN /\ 0 \in Bit
      BY <2>1, <2>2, Ep0Pipes
    <3>2. CASE t.short = "sent"
      <4>1. r = [t EXCEPT !.bd["in0"][x] = Given(@, TRUE, 0, FALSE)]
        BY <1>2, <1>9, <3>2
      <4>. HIDE DEF x
      <4>2. Sane(r) /\ Kept(t, r, {"bd"}) /\ Gives(t, r, "in0", x, TRUE, 0)
        BY <3>1, <4>1, GiveStep
      <4>. QED BY <3>2, <4>2 DEF Gives, IsGiven, x
    <3>3. CASE t.short # "sent"
      <4>. DEFINE u == 1 - last
      <4>1. r = [t EXCEPT !.bd["in0"][x] = Given(@, FALSE, u, TRUE)] /\ u \in Bit
        BY <1>1, <1>2, <1>9, <3>3
      <4>. HIDE DEF u
      <4>. HIDE DEF x
      <4>2. Sane(r) /\ Kept(t, r, {"bd"}) /\ Gives(t, r, "in0", x, FALSE, u)
        BY <3>1, <4>1, GiveStep
      <4>. QED BY <3>3, <4>2 DEF Gives, IsGiven, x, u
    <3>. QED BY <3>2, <3>3
  <2>4. Kept(d, r, {"pin", "address", "state", "short", "count", "staged", "pos", "bd"})
    BY <1>7, <2>1, <2>3 DEF Kept
  <2>5. Kept(d, r, InFields)
    BY <2>4 DEF Kept, InFields
  <2>6. /\ r.both = d.both /\ r.flag1 = d.flag1 /\ r.flag2 = d.flag2 /\ r.transfer = d.transfer
        /\ r.pin = e.pin /\ r.state = e.state
    BY <2>1, <2>3, <2>4 DEF Kept, Fields
  <2>7. Stage0(r)
    BY <2>6 DEF Stage0
  <2>8. \A q \in Pipes \ {"in0"} : r.bd[q] = d.bd[q]
    BY <1>6, <2>1, <2>3
  <2>9. r.bd["in0"][d.pin] = d.bd["in0"][d.pin]
    <3>1. 1 - t.pin = d.pin
      BY <1>1, <1>7, <2>2 DEF Bit
    <3>. QED BY <1>6, <2>1, <2>2, <2>3, <3>1
  <2>10. Packet(d, r, 1 - d.pin, d.count)
    <3>1. e.count = d.count /\ e.pos = d.pos /\ e.source = d.source /\ e.short = d.short
      BY <1>7 DEF Kept, Fields
    <3>2. r.count = t.count /\ r.pos = t.pos /\ r.staged = t.staged /\ r.short = t.short
      BY <2>3 DEF Kept, Fields
    <3>. QED BY <1>7, <2>1, <2>2, <2>3, <3>1, <3>2 DEF Packet
  <2>11. LET b == r.bd["in0"][1 - d.pin]
         IN  /\ r.transfer = "TX" /\ b.own /\ Packet(d, r, 1 - d.pin, d.count)
             /\ IF r.short = "sent" THEN b.stall
                                    ELSE ~b.stall /\ b.dts = 1 - d.bd["in0"][d.pin].dts
    <3>1. r.short = t.short
      BY <2>3 DEF Kept, Fields
    <3>. QED BY <1>7, <1>8, <1>9, <2>2, <2>3, <2>6, <2>10, <3>1 DEF last
  <2>12. r.address = e.address
    BY <2>1, <2>3 DEF Kept, Fields
  <2>. QED BY <1>5, <1>7, <1>8, <1>9, <2>3, <2>5, <2>6, <2>7, <2>8, <2>9, <2>11, <2>12 DEF r, InDone
<1>10. CASE e.transfer # "TX"
  <2>1. r = [e EXCEPT !.outBusy = FALSE, !.transfer = "WAIT_SETUP"]
    BY <1>2, <1>10
  <2>2. DOMAIN e = Fields
    BY <1>5 DEF IsDev
  <2>3. IsDev(r) /\ Kept(e, r, {"outBusy", "transfer"}) /\ r.outBusy = FALSE /\ r.transfer = "WAIT_SETUP"
    <3>1. IsDev(r)
      BY <2>1, <2>2 DEF IsDev
    <3>2. Kept(e, r, {"outBusy", "transfer"})
      BY <2>1, <2>2 DEF Kept
    <3>. QED BY <2>1, <2>2, <3>1, <3>2 DEF Fields
  <2>4. Sane(r) /\ r.bd = d.bd
    <3>1. Flags(r)
      BY <1>6, <2>3 DEF Sane, Kept, Fields, Flags
    <3>. QED BY <1>6, <2>3, <3>1 DEF Sane, Kept, Fields
  <2>5. Kept(d, r, InFields)
    BY <1>7, <2>3 DEF Kept, InFields
  <2>6. r.pin = 1 - d.pin /\ r.both = d.both /\ r.flag1 = d.flag1 /\ r.state = e.state
        /\ r.address = e.address
    BY <1>7, <1>8, <2>3 DEF Kept, Fields
  <2>7. Stage0(r)
    BY <1>8, <1>10, <2>3, <2>6 DEF Stage0
  <2>. QED BY <1>5, <1>8, <1>10, <2>3, <2>4, <2>5, <2>6, <2>7 DEF r, InDone
<1>. QED BY <1>9, <1>10

SofFields == {"timer", "flag1", "flag2", "both", "bd"}

\* The timer of the status stage runs down and opens it.
LEMMA SofEffect ==
  ASSUME NEW d, Sane(d), Stage0(d), d.timer > 0
  PROVE  LET e == ServiceSof(d)
         IN  /\ Sane(e) /\ Kept(d, e, SofFields) /\ Stage0(e) /\ e.both = d.both
             /\ ~e.flag1 => e.timer > 0
             /\ \A q \in Pipes \ {"in0"} : e.bd[q] = d.bd[q]
             /\ e.bd["in0"][1 - d.pin] = d.bd["in0"][1 - d.pin]
             /\ d.flag1 => e.bd = d.bd /\ e.flag1
             /\ d.transfer # "RX" => e.bd = d.bd
             /\ StatusDue(d) => StatusDue(e)
<1>. DEFINE r == ServiceSof(d)
            e == [d EXCEPT !.timer = IF @ = 0 THEN 0 ELSE @ - 1]
            Done == /\ Sane(r) /\ Kept(d, r, SofFields) /\ Stage0(r) /\ r.both = d.both
                    /\ ~r.flag1 => r.timer > 0
                    /\ \A q \in Pipes \ {"in0"} : r.bd[q] = d.bd[q]
                    /\ r.bd["in0"][1 - d.pin] = d.bd["in0"][1 - d.pin]
                    /\ d.flag1 => r.bd = d.bd /\ r.flag1
                    /\ d.transfer # "RX" => r.bd = d.bd
                    /\ StatusDue(d) => StatusDue(r)
<1>1. r = IF e.timer = 0 THEN AllowStatusStage(e) ELSE e
  BY DEF ServiceSof
<1>2. IsDev(e) /\ Kept(d, e, {"timer"}) /\ e.timer = d.timer - 1 /\ e.timer \in Nat
  <2>1. DOMAIN d = Fields /\ d.timer \in Nat /\ d.timer # 0
    BY DEF Sane, IsDev
  <2>2. IsDev(e) /\ Kept(d, e, {"timer"}) /\ e.timer = IF d.timer = 0 THEN 0 ELSE d.timer - 1
    <3>1. IsDev(e)
      BY <2>1 DEF IsDev
    <3>2. Kept(d, e, {"timer"})
      BY <2>1 DEF Kept
    <3>. QED BY <2>1, <3>1, <3>2 DEF Fields
  <2>. QED BY <2>1, <2>2
<1>. HIDE DEF r, e
<1>3. Sane(e) /\ e.bd = d.bd
  BY <1>2 DEF Sane, Kept, Fields, Flags
<1>4. /\ e.both = d.both /\ e.flag1 = d.flag1 /\ e.flag2 = d.flag2 /\ e.transfer = d.transfer
      /\ e.pin = d.pin
  BY <1>2 DEF Kept, Fields
<1>5. Stage0(e) /\ (StatusDue(d) => StatusDue(e))
  BY <1>3, <1>4 DEF Stage0, StatusDue
<1>6. ASSUME e.timer # 0 PROVE Done
  <2>1. r = e
    BY <1>1, <1>6
  <2>2. Kept(d, e, SofFields)
    BY <1>2 DEF Kept, SofFields
  <2>3. e.timer > 0
    <3>1. e.timer \in Nat
      BY <1>2
    <3>. QED BY <1>6, <3>1
  <2>. QED BY <1>3, <1>4, <1>5, <2>1, <2>2, <2>3
<1>7. ASSUME e.timer = 0, e.flag1 PROVE Done
  <2>1. r = e
    BY <1>1, <1>7 DEF AllowStatusStage
  <2>2. Kept(d, e, SofFields)
    BY <1>2 DEF Kept, SofFields
  <2>. QED BY <1>3, <1>4, <1>5, <1>7, <2>1, <2>2
<1>8. ASSUME e.timer = 0, ~e.flag1 PROVE Done
  <2>1. e.transfer # "TX" /\ ~e.both /\ ~e.flag2
    BY <1>5, <1>8 DEF Stage0
  <2>2. r = AllowStatusStage(e)
    BY <1>1, <1>8
  <2>3. /\ Sane(r) /\ Kept(e, r, {"flag1", "flag2", "both", "bd"})
        /\ IF ~e.flag1 /\ ~e.flag2 /\ e.transfer \in {"RX", "TX"}
             THEN StageOpened(e, r)
             ELSE r.bd = e.bd /\ r.both = e.both /\ r.flag1 /\ (e.flag1 => r.flag2 = e.flag2)
    BY <1>3, <2>1, <2>2, StatusStageEffect
  <2>4. Kept(d, r, SofFields)
    BY <1>2, <2>3 DEF Kept, SofFields
  <2>5. r.pin = d.pin /\ r.transfer = d.transfer
    BY <1>4, <2>3 DEF Kept, Fields
  <2>6. /\ r.flag1 /\ ~r.both /\ \A q \in Pipes \ {"in0"} : r.bd[q] = e.bd[q]
        /\ r.bd["in0"][1 - d.pin] = e.bd["in0"][1 - d.pin]
    BY <1>4, <2>1, <2>3 DEF StageOpened
  <2>7. Stage0(r)
    BY <1>4, <2>1, <2>5, <2>6 DEF Stage0
  <2>8. r.both = d.both
    BY <1>4, <2>1, <2>3, <2>6 DEF Sane, Flags
  <2>9. d.transfer # "RX" => r.bd = d.bd
    BY <1>3, <1>4, <2>1, <2>3
  <2>10. StatusDue(d) => StatusDue(r)
    <3>1. d.transfer = "RX" => r.bd["in0"][r.pin].own
      BY <1>4, <1>8, <2>1, <2>3, <2>5 DEF StageOpened
    <3>. QED BY <2>5, <2>9, <3>1 DEF StatusDue
  <2>. QED BY <1>3, <1>4, <1>8, <2>3, <2>4, <2>6, <2>7, <2>8, <2>9, <2>10
<1>9. Done
  BY <1>6, <1>7, <1>8
<1>. QED BY <1>9 DEF r

\* USBStallHandler may turn one OUT descriptor into one for a SETUP.
LEMMA StallEffect ==
  ASSUME NEW d, Sane(d)
  PROVE  LET e == ServiceStall(d)
         IN  /\ Sane(e) /\ Kept(d, e, {"stallIF", "bd"})
             /\ \A q \in Pipes \ {"out0"} : e.bd[q] = d.bd[q]
             /\ e.bd["out0"][1 - d.cur] = d.bd["out0"][1 - d.cur]
             /\ \/ e.bd["out0"][d.cur] = d.bd["out0"][d.cur]
                \/ /\ d.bd["out0"][d.cur].own /\ e.bd["out0"][d.cur].own
                   /\ e.bd["out0"][d.cur].stall
                   /\ e.bd["out0"][d.cur].setup = d.bd["out0"][d.cur].setup
<1>. DEFINE e == ServiceStall(d)
            c == d.bd["out0"][d.cur]
            mixed == c = Given(c, FALSE, 0, FALSE)
                     /\ d.bd["in0"][d.pin] = Given(d.bd["in0"][d.pin], TRUE, 0, FALSE)
            v == IF mixed THEN ForSetup(c) ELSE c
            a == [d EXCEPT !.stallIF = FALSE]
<1>1. DOMAIN d = Fields /\ d.cur \in Bit /\ IsBd(c)
  BY BdOf, Ep0Pipes DEF Sane, IsDev
<1>2. e = [d EXCEPT !.stallIF = FALSE, !.bd["out0"][d.cur] = v]
  BY DEF ServiceStall
<1>3. IsBd(v) /\ (v = c \/ (c.own /\ v.own /\ v.stall /\ v.setup = c.setup))
  <2>1. IsGiven(c, ForSetup(c), TRUE, 0) /\ IsGiven(c, Given(c, FALSE, 0, FALSE), FALSE, 0)
    BY <1>1, GivenIs, Ep0Pipes DEF ForSetup
  <2>. QED BY <1>1, <2>1 DEF IsGiven
<1>. HIDE DEF e, v
<1>4. e = [a EXCEPT !.bd["out0"][d.cur] = v]
  BY <1>2
<1>5. IsDev(a) /\ Kept(d, a, {"stallIF"})
  BY <1>1 DEF IsDev, Kept
<1>. HIDE DEF a
<1>6. Sane(a) /\ a.bd = d.bd
  BY <1>5, SaneStill DEF Kept, Untyped
<1>7. Sane(e) /\ Kept(a, e, {"bd"}) /\ Put(a, e, "out0", d.cur, v)
  BY <1>1, <1>3, <1>4, <1>6, Ep0Pipes, PutStep
<1>8. Kept(d, e, {"stallIF", "bd"})
  BY <1>5, <1>7 DEF Kept
<1>. QED BY <1>3, <1>6, <1>7, <1>8 DEF e, Put

-----------------------------------------------------------------------------
(* Power and bus reset; the serial interface engine.                       *)

ResetFields ==
  {"ustat", "inBusy", "outBusy", "outCount", "bd", "pp", "terminated", "sie", "address", "config",
   "enabled", "cpu", "pin", "flag1", "flag2", "pktDis", "stallIF"}

\* A device that has just been initialised waits for a SETUP.
ResetDone(e) ==
  /\ e.ustat = <<>> /\ ~e.pktDis /\ e.flag1 /\ e.pin = 0 /\ ~e.enabled
  /\ e.address = 0 /\ e.config = 0 /\ ~e.stallIF
  /\ e.sie = [p \in Pipes |-> 0]
  /\ e.bd["out0"][0].own /\ e.bd["out0"][0].stall
  /\ ~e.bd["out0"][1].own
  /\ \A x \in Bit : ~e.bd["in0"][x].own

\* The empty FIFO is one.
LEMMA EmptyFifo == <<>> \in Seq(Entry)
OBVIOUS

\* What a reset flushes.
LEMMA FlushedEffect ==
  ASSUME NEW d, Sane(d)
  PROVE  LET e == Flushed(d)
         IN  /\ Sane(e) /\ Kept(d, e, {"ustat", "inBusy", "outBusy", "outCount"}) /\ e.ustat = <<>>
<1>. DEFINE e == Flushed(d)
<1>1. CASE d.ustat = <<>>
  BY <1>1 DEF Flushed, Kept
<1>2. CASE d.ustat # <<>>
  <2>1. e = [d EXCEPT !.ustat = <<>>, !.inBusy = FALSE, !.outBusy = FALSE, !.outCount = 0]
    BY <1>2 DEF Flushed
  <2>. HIDE DEF e
  <2>2. DOMAIN d = Fields
    BY DEF Sane, IsDev
  <2>3. IsDev(e) /\ Kept(d, e, {"ustat", "inBusy", "outBusy", "outCount"})
    BY <2>1, <2>2 DEF IsDev, Kept
  <2>4. e.ustat = <<>> /\ e.inBusy = FALSE /\ e.outBusy = FALSE
    BY <2>1, <2>2 DEF Fields
  <2>5. Sane(e)
    BY <2>3, <2>4, EmptyFifo DEF Sane, Kept, Fields, Flags
  <2>. QED BY <2>3, <2>4, <2>5 DEF e
<1>. QED BY <1>1, <1>2

\* USBDeviceInit leaves one descriptor with the SIE, for a SETUP.
LEMMA DeviceInitEffect ==
  ASSUME NEW d, Sane(d)
  PROVE  LET e == DeviceInit(d)
         IN  Sane(e) /\ Kept(d, e, ResetFields) /\ ResetDone(e)
<1>. DEFINE e == DeviceInit(d)
            f == Flushed(d)
            a == [f EXCEPT !.bd = [p \in Pipes |-> [b \in 0 .. 1 |-> NoBd]]]
            b == [a EXCEPT !.pp = [p \in Pipes1 |-> 0], !.terminated = [p \in Pipes1 |-> FALSE]]
            c == [b EXCEPT !.sie = [p \in Pipes |-> 0]]
            n == [p \in Pipes1 |-> Null]
            g == [c EXCEPT !.bd["out0"][0] = Given(@, TRUE, 0, FALSE)]
            h == [g EXCEPT !.address = 0, !.config = 0, !.enabled = FALSE, !.cpu = n]
            i == [h EXCEPT !.pin = 0, !.flag1 = TRUE, !.flag2 = TRUE]
<1>1. e = [c EXCEPT !.bd["out0"][0] = Given(@, TRUE, 0, FALSE),
                    !.address = 0, !.config = 0, !.enabled = FALSE, !.cpu = n,
                    !.pin = 0, !.flag1 = TRUE, !.flag2 = TRUE, !.pktDis = FALSE, !.stallIF = FALSE]
  BY DEF DeviceInit, PingPongReset, NoEpData, ClearBdt
<1>2. Sane(f) /\ Kept(d, f, {"ustat", "inBusy", "outBusy", "outCount"}) /\ f.ustat = <<>>
  BY FlushedEffect
<1>. HIDE DEF f, e, n
<1>3. IsDev(a) /\ Kept(f, a, {"bd"}) /\ a.bd = [p \in Pipes |-> [x \in 0 .. 1 |-> NoBd]]
  <2>1. DOMAIN f = Fields
    BY <1>2 DEF Sane, IsDev
  <2>2. IsDev(a)
    BY <2>1 DEF IsDev
  <2>3. Kept(f, a, {"bd"})
    BY <2>1 DEF Kept
  <2>. QED BY <2>1, <2>2, <2>3 DEF Fields
<1>. HIDE DEF a
<1>4. IsDev(b) /\ Kept(a, b, {"pp", "terminated"}) /\ b.pp = [p \in Pipes1 |-> 0]
  <2>1. DOMAIN a = Fields
    BY <1>3 DEF IsDev
  <2>2. IsDev(b)
    BY <2>1 DEF IsDev
  <2>3. Kept(a, b, {"pp", "terminated"})
    BY <2>1 DEF Kept
  <2>. QED BY <2>1, <2>2, <2>3 DEF Fields
<1>. HIDE DEF b
<1>5. IsDev(c) /\ Kept(b, c, {"sie"}) /\ c.sie = [p \in Pipes |-> 0]
  BY <1>4 DEF IsDev, Kept, Fields
<1>. HIDE DEF c
<1>6. Kept(f, c, {"bd", "pp", "terminated", "sie"})
  BY <1>3, <1>4, <1>5 DEF Kept
<1>7. c.bd = [p \in Pipes |-> [x \in 0 .. 1 |-> NoBd]] /\ c.pp = [p \in Pipes1 |-> 0]
  BY <1>3, <1>4, <1>5 DEF Kept, Fields
<1>8. Sane(c)
  <2>1. IsBdt(c.bd)
    BY <1>7, NoBdt
  <2>2. c.sie \in [Pipes -> Bit] /\ c.pp \in [Pipes1 -> Bit]
    BY <1>5, <1>7 DEF Bit
  <2>. QED BY <1>2, <1>5, <1>6, <2>1, <2>2 DEF Sane, Kept, Fields, Flags
<1>9. \A q \in {"in0", "out0"}, x \in Bit : ~c.bd[q][x].own
  BY <1>7, NoBdt, Ep0Pipes DEF NoBd
<1>10. e = [g EXCEPT !.address = 0, !.config = 0, !.enabled = FALSE, !.cpu = n,
                     !.pin = 0, !.flag1 = TRUE, !.flag2 = TRUE, !.pktDis = FALSE, !.stallIF = FALSE]
  BY <1>1
<1>11. Sane(g) /\ Kept(c, g, {"bd"}) /\ Gives(c, g, "out0", 0, TRUE, 0)
  <2>1. g = [c EXCEPT !.bd["out0"][0] = Given(@, TRUE, 0, FALSE)]
    OBVIOUS
  <2>. HIDE DEF g
  <2>. QED BY <1>8, <2>1, Ep0Pipes, GiveStep
<1>. HIDE DEF g
<1>12. e = [h EXCEPT !.pin = 0, !.flag1 = TRUE, !.flag2 = TRUE, !.pktDis = FALSE, !.stallIF = FALSE]
  BY <1>10
<1>13. /\ IsDev(h) /\ Kept(g, h, {"address", "config", "enabled", "cpu"}) /\ ~h.enabled /\ h.cpu = n
       /\ h.address = 0 /\ h.config = 0
  <2>1. DOMAIN g = Fields
    BY <1>11 DEF Sane, IsDev
  <2>2. IsDev(h) /\ Kept(g, h, {"address", "config", "enabled", "cpu"})
    BY <2>1 DEF IsDev, Kept
  <2>. QED BY <2>1, <2>2 DEF Fields
<1>. HIDE DEF h
<1>14. e = [i EXCEPT !.pktDis = FALSE, !.stallIF = FALSE]
  BY <1>12
<1>15. /\ IsDev(i) /\ Kept(h, i, {"pin", "flag1", "flag2"})
       /\ i.pin = 0 /\ i.flag1 = TRUE /\ i.flag2 = TRUE
  <2>1. DOMAIN h = Fields
    BY <1>13 DEF IsDev
  <2>2. IsDev(i) /\ Kept(h, i, {"pin", "flag1", "flag2"})
    BY <2>1 DEF IsDev, Kept
  <2>. QED BY <2>1, <2>2 DEF Fields
<1>. HIDE DEF i
<1>16. IsDev(e) /\ Kept(i, e, {"pktDis", "stallIF"}) /\ e.pktDis = FALSE /\ e.stallIF = FALSE
  <2>1. DOMAIN i = Fields
    BY <1>15 DEF IsDev
  <2>2. IsDev(e)
    BY <1>14, <2>1 DEF IsDev
  <2>3. Kept(i, e, {"pktDis", "stallIF"})
    BY <1>14, <2>1 DEF Kept
  <2>. QED BY <1>14, <2>1, <2>2, <2>3 DEF Fields
<1>17. Kept(g, e, {"address", "config", "enabled", "cpu", "pin", "flag1", "flag2", "pktDis", "stallIF"})
  BY <1>13, <1>15, <1>16 DEF Kept
<1>18. /\ ~e.enabled /\ e.cpu = n /\ e.pin = 0 /\ e.flag1 = TRUE /\ e.flag2 = TRUE
       /\ e.address = 0 /\ e.config = 0
  BY <1>13, <1>15, <1>16 DEF Kept, Fields
<1>19. Sane(e) /\ e.bd = g.bd
  <2>1. n \in [Pipes1 -> Bit \cup {Null}]
    BY DEF n
  <2>2. e.bd = g.bd
    BY <1>17 DEF Kept, Fields
  <2>3. Flags(e)
    BY <1>11, <1>16, <1>17, <1>18 DEF Sane, Kept, Fields, Flags
  <2>4. e.cpu \in [Pipes1 -> Bit \cup {Null}] /\ e.pin \in Bit
    BY <1>18, <2>1, Ep0Pipes
  <2>5. /\ e.sie = g.sie /\ e.ustat = g.ustat /\ e.cur = g.cur /\ e.next = g.next
        /\ e.timer = g.timer /\ e.setup = g.setup /\ e.pp = g.pp
        /\ e.outHandle = g.outHandle /\ e.inHandle = g.inHandle
    BY <1>17 DEF Kept, Fields
  <2>. QED BY <1>11, <1>16, <2>2, <2>3, <2>4, <2>5 DEF Sane
<1>20. Kept(d, e, ResetFields)
  BY <1>2, <1>6, <1>11, <1>17 DEF Kept, ResetFields
<1>21. ResetDone(e)
  <2>1. e.ustat = <<>> /\ e.sie = [p \in Pipes |-> 0]
    BY <1>2, <1>5, <1>6, <1>11, <1>17 DEF Kept, Fields
  <2>2. e.bd["in0"] = c.bd["in0"] /\ e.bd["out0"][1] = c.bd["out0"][1]
    BY <1>11, <1>19, Ep0Pipes DEF Gives
  <2>3. e.bd["out0"][0].own /\ e.bd["out0"][0].stall
    BY <1>11, <1>19 DEF Gives, IsGiven
  <2>. QED BY <1>9, <1>16, <1>18, <2>1, <2>2, <2>3 DEF ResetDone, Bit
<1>. QED BY <1>19, <1>20, <1>21 DEF e

\* So does the power.
LEMMA PoweredEffect ==
  ASSUME NEW r
  PROVE  LET e == Powered(r)
         IN  /\ Sane(e) /\ ResetDone(e) /\ ~e.both /\ e.transfer = "WAIT_SETUP"
             /\ e.state = "ATTACHED" /\ ~e.fresh /\ e.rx = r /\ e.tx = r
<1>. DEFINE e == Powered(r)
            n == [p \in Pipes1 |-> Null]
            z == [p \in Pipes1 |-> 0]
            t == [p \in Pipes |-> [b \in 0 .. 1 |-> NoBd]]
            s == [p \in Pipes |-> 0]
            w == [p \in Pipes1 |-> FALSE]
            y == [source |-> "device", pos |-> 0]
            d == [state |-> "ATTACHED", address |-> 0, config |-> 0,
     bd |-> t, sie |-> s,
     ustat |-> <<>>, pktDis |-> FALSE, stallIF |-> FALSE, setup |-> NoRequest,
     cur |-> 0, next |-> 0, pin |-> 0, transfer |-> "WAIT_SETUP", short |-> "notUsed",
     flag1 |-> TRUE, flag2 |-> TRUE, both |-> FALSE, timer |-> 0,
     inBusy |-> FALSE, source |-> "device", pos |-> 0, count |-> 0,
     outBusy |-> FALSE, outCount |-> 0, staged |-> y,
     enabled |-> FALSE, cpu |-> n,
     pp |-> z, terminated |-> w,
     rx |-> r, tx |-> r, outHandle |-> Null, inHandle |-> Null, boot |-> "idle",
     fresh |-> FALSE, events |-> {}]
<1>1. e = DeviceInit(d)
  BY DEF Powered
<1>2. IsBdt(t) /\ s \in [Pipes -> Bit] /\ z \in [Pipes1 -> Bit] /\ n \in [Pipes1 -> Bit \cup {Null}]
  BY NoBdt DEF Bit
<1>3. NoRequest \in Request
  BY DEF NoRequest, Request, Reads, Writes, Pipes1
<1>. HIDE DEF t, s, z, n, w, y
<1>4. IsDev(d)
  BY DEF IsDev, Fields
<1>5. Sane(d)
  BY <1>2, <1>3, <1>4, EmptyFifo DEF Sane, Flags, Bit
<1>6. ~d.both /\ d.transfer = "WAIT_SETUP" /\ d.state = "ATTACHED" /\ ~d.fresh /\ d.rx = r /\ d.tx = r
  OBVIOUS
<1>. HIDE DEF d, e
<1>7. Sane(e) /\ Kept(d, e, ResetFields) /\ ResetDone(e)
  BY <1>1, <1>5, DeviceInitEffect
<1>. QED BY <1>6, <1>7 DEF e, Kept, ResetFields, Fields

\* And a bus reset, from any state.
LEMMA ResetEffect ==
  ASSUME NEW d, Sane(d)
  PROVE  LET e == ServiceReset(d)
         IN  /\ Sane(e) /\ Kept(d, e, ResetFields \cup {"state", "fresh"}) /\ ResetDone(e)
             /\ e.state = "DEFAULT" /\ ~e.fresh
<1>. DEFINE e == ServiceReset(d)
            a == DeviceInit(d)
<1>1. Sane(a) /\ Kept(d, a, ResetFields) /\ ResetDone(a)
  BY DeviceInitEffect
<1>2. e = [a EXCEPT !.state = "DEFAULT", !.fresh = FALSE]
  BY DEF ServiceReset
<1>. HIDE DEF a, e
<1>3. IsDev(e) /\ Kept(a, e, {"state", "fresh"}) /\ e.state = "DEFAULT" /\ e.fresh = FALSE
  <2>1. DOMAIN a = Fields
    BY <1>1 DEF Sane, IsDev
  <2>2. IsDev(e)
    BY <1>2, <2>1 DEF IsDev
  <2>3. Kept(a, e, {"state", "fresh"})
    BY <1>2, <2>1 DEF Kept
  <2>. QED BY <1>2, <2>1, <2>2, <2>3 DEF Fields
<1>4. Sane(e) /\ e.bd = a.bd
  BY <1>1, <1>3, SaneStill DEF Kept, Untyped
<1>5. Kept(d, e, ResetFields \cup {"state", "fresh"})
  BY <1>1, <1>3 DEF Kept
<1>6. ResetDone(e)
  BY <1>1, <1>3, <1>4 DEF ResetDone, Kept, Fields
<1>. QED BY <1>3, <1>4, <1>5, <1>6 DEF e

\* A transaction is over: the descriptor is the firmware's, the SIE goes on to
\* the other one, and the FIFO has an entry more.
CompletedDone(d, e, p) ==
  /\ ~e.bd[p][d.sie[p]].own /\ ~e.bd[p][d.sie[p]].stall
  /\ e.bd[p][d.sie[p]].dts = d.bd[p][d.sie[p]].dts
  /\ e.bd[p][1 - d.sie[p]] = d.bd[p][1 - d.sie[p]]
  /\ \A q \in Pipes \ {p} : e.bd[q] = d.bd[q]
  /\ e.sie = [d.sie EXCEPT ![p] = 1 - d.sie[p]]
  /\ e.ustat = Append(d.ustat, [pipe |-> p, b |-> d.sie[p]])

\* The SIE gives one descriptor back and queues one entry.
LEMMA CompletedEffect ==
  ASSUME NEW d, Sane(d), NEW p \in Pipes
  PROVE  LET e == Completed(d, p)
         IN  /\ Sane(e) /\ Kept(d, e, {"bd", "sie", "ustat"}) /\ CompletedDone(d, e, p)
             /\ ~e.bd[p][d.sie[p]].setup
<1>. DEFINE e == Completed(d, p)
            x == d.sie[p]
            v == Back(d.bd[p][x])
            m == [d EXCEPT !.bd[p][x] = v]
            y == 1 - x
            u == Append(d.ustat, [pipe |-> p, b |-> x])
<1>1. DOMAIN d = Fields /\ x \in Bit /\ y \in Bit /\ d.sie \in [Pipes -> Bit] /\ d.ustat \in Seq(Entry)
  BY DEF Sane, IsDev, Bit
<1>2. IsBd(v) /\ ~v.own /\ ~v.stall /\ ~v.setup /\ v.dts = d.bd[p][x].dts
  BY <1>1, BdOf, BackFact DEF Sane
<1>3. e = [d EXCEPT !.bd[p][x] = v, !.sie[p] = y, !.ustat = u]
  BY DEF Completed, Advance
<1>4. m = [d EXCEPT !.bd[p][x] = v]
  OBVIOUS
<1>5. u \in Seq(Entry)
  BY <1>1 DEF Entry
<1>. HIDE DEF v, e, u
<1>6. e = [m EXCEPT !.sie[p] = y, !.ustat = u]
  BY <1>3
<1>. HIDE DEF m, x, y
<1>7. Sane(m) /\ Kept(d, m, {"bd"}) /\ Put(d, m, p, x, v)
  BY <1>1, <1>2, <1>4, PutStep
<1>8. DOMAIN m = Fields /\ m.sie = d.sie
  BY <1>7 DEF Sane, IsDev, Kept, Fields
<1>9. IsDev(e) /\ Kept(m, e, {"sie", "ustat"}) /\ e.sie = [d.sie EXCEPT ![p] = y] /\ e.ustat = u
  <2>1. IsDev(e)
    BY <1>6, <1>8 DEF IsDev
  <2>2. Kept(m, e, {"sie", "ustat"})
    BY <1>6, <1>8 DEF Kept
  <2>. QED BY <1>6, <1>8, <2>1, <2>2 DEF Fields
<1>10. Sane(e) /\ e.bd = m.bd
  <2>1. e.sie \in [Pipes -> Bit]
    BY <1>1, <1>9
  <2>. QED BY <1>5, <1>7, <1>9, <2>1 DEF Sane, Kept, Fields, Flags
<1>11. Kept(d, e, {"bd", "sie", "ustat"})
  BY <1>7, <1>9 DEF Kept
<1>. QED BY <1>2, <1>7, <1>9, <1>10, <1>11 DEF e, x, y, u, Put, CompletedDone

\* A SETUP, with packets disabled behind it.
LEMMA TakeSetupEffect ==
  ASSUME NEW d, Sane(d), NEW req \in Request
  PROVE  LET e == TakeSetup(d, req)
         IN  /\ Sane(e) /\ Kept(d, e, {"bd", "sie", "ustat", "setup", "pktDis"})
             /\ CompletedDone(d, e, "out0") /\ e.bd["out0"][d.sie["out0"]].setup /\ e.pktDis
             /\ e.setup = req
<1>. DEFINE e == TakeSetup(d, req)
            c == Completed(d, "out0")
            x == d.sie["out0"]
            v == [c.bd["out0"][x] EXCEPT !.setup = TRUE]
            m == [c EXCEPT !.bd["out0"][x] = v]
<1>1. x \in Bit /\ "out0" \in Pipes
  BY Ep0Pipes DEF Sane
<1>2. e = [m EXCEPT !.setup = req, !.pktDis = TRUE]
  BY Zenon DEF TakeSetup
<1>3. m = [c EXCEPT !.bd["out0"][x] = v]
  OBVIOUS
<1>4. Sane(c) /\ Kept(d, c, {"bd", "sie", "ustat"}) /\ CompletedDone(d, c, "out0")
  BY <1>1, CompletedEffect
<1>. HIDE DEF e, m, c
<1>5. /\ IsBd(v) /\ v.own = c.bd["out0"][x].own /\ v.stall = c.bd["out0"][x].stall /\ v.setup
      /\ v.dts = c.bd["out0"][x].dts
  <2>. DEFINE w == c.bd["out0"][x]
  <2>1. IsBd(w)
    BY <1>1, <1>4, BdOf DEF Sane
  <2>. HIDE DEF w
  <2>2. w = [f \in BdFields |-> w[f]]
    BY <2>1 DEF IsBd
  <2>3. v = [w EXCEPT !.setup = TRUE]
    BY DEF w
  <2>. HIDE DEF v
  <2>4. v = [f \in BdFields |-> v[f]] /\ v.setup
    BY <2>2, <2>3 DEF BdFields
  <2>5. \A f \in BdFields \ {"setup"} : v[f] = w[f]
    BY <2>2, <2>3
  <2>6. v.own = w.own /\ v.stall = w.stall /\ v.dts = w.dts
    BY <2>5 DEF BdFields
  <2>7. IsBd(v)
    BY <2>1, <2>4, <2>6 DEF IsBd
  <2>. QED BY <2>4, <2>6, <2>7 DEF w
<1>. HIDE DEF v
<1>6. Sane(m) /\ Kept(c, m, {"bd"}) /\ Put(c, m, "out0", x, v)
  BY <1>1, <1>3, <1>4, <1>5, PutStep
<1>7. IsDev(e) /\ Kept(m, e, {"setup", "pktDis"}) /\ e.setup = req /\ e.pktDis = TRUE
  <2>1. DOMAIN m = Fields
    BY <1>6 DEF Sane, IsDev
  <2>2. IsDev(e)
    BY <1>2, <2>1 DEF IsDev
  <2>3. Kept(m, e, {"setup", "pktDis"})
    BY <1>2, <2>1 DEF Kept
  <2>. QED BY <1>2, <2>1, <2>2, <2>3 DEF Fields
<1>8. Sane(e) /\ e.bd = m.bd
  <2>1. Flags(e)
    BY <1>6, <1>7 DEF Sane, Kept, Fields, Flags
  <2>. QED BY <1>6, <1>7, <2>1 DEF Sane, Kept, Fields
<1>9. Kept(d, e, {"bd", "sie", "ustat", "setup", "pktDis"})
  BY <1>4, <1>6, <1>7 DEF Kept
<1>10. e.sie = c.sie /\ e.ustat = c.ustat
  BY <1>6, <1>7 DEF Kept, Fields
<1>11. CompletedDone(d, e, "out0") /\ e.bd["out0"][x].setup
  BY <1>4, <1>5, <1>6, <1>8, <1>10 DEF CompletedDone, Put, x
<1>. QED BY <1>7, <1>8, <1>9, <1>11 DEF e

-----------------------------------------------------------------------------
(* The inductive invariant of endpoint 0.                                  *)

Waits(d, p) == \E i \in 1 .. Len(d.ustat) : d.ustat[i].pipe = p

\* One transaction of a pipe waits at a time; the status stage of a read that has
\* been given up, and the SETUP after it, may both be there.
OneWaits(d) ==
  \A i, j \in 1 .. Len(d.ustat) : i < j =>
    /\ ~(d.ustat[i].pipe = "in0" /\ d.ustat[j].pipe = "in0")
    /\ d.ustat[i].pipe = "out0" /\ d.ustat[j].pipe = "out0" =>
         j = Len(d.ustat) /\ d.pktDis /\ d.both

\* Packets are disabled while a SETUP waits, behind everything else.
SetupLast(d) ==
  d.pktDis =>
    /\ Len(d.ustat) > 0
    /\ d.ustat[Len(d.ustat)].pipe = "out0"
    /\ d.ustat[Len(d.ustat)].b = 1 - d.sie["out0"]
    /\ d.bd["out0"][1 - d.sie["out0"]].setup /\ ~d.bd["out0"][1 - d.sie["out0"]].own

\* Any other OUT transaction that waits is the last the SIE did before.
OutTurn(d) ==
  \A i \in 1 .. Len(d.ustat) :
    d.ustat[i].pipe = "out0" /\ ~(d.pktDis /\ i = Len(d.ustat)) =>
      /\ d.ustat[i].b = IF d.pktDis THEN d.sie["out0"] ELSE 1 - d.sie["out0"]
      /\ ~d.bd["out0"][d.ustat[i].b].setup /\ ~d.bd["out0"][d.ustat[i].b].own

\* The firmware's next IN descriptor is the SIE's, once it has heard of the last.
InTurn(d) ==
  /\ Waits(d, "in0") => d.sie["in0"] = 1 - d.pin /\ ~d.bd["in0"][0].own /\ ~d.bd["in0"][1].own
  /\ ~Waits(d, "in0") => d.sie["in0"] = d.pin /\ ~d.bd["in0"][1 - d.pin].own

Stage(d) ==
  /\ Stage0(d)
  /\ ~d.flag1 => d.timer > 0
  /\ Waits(d, "in0") => d.flag1

\* The SIE owns the descriptor it will use for the next SETUP; when it owns both,
\* the older one is stalled for anything else.
OutReady(d) ==
  LET s == d.sie["out0"]
  IN  /\ ~Waits(d, "out0") =>
           /\ d.bd["out0"][s].own
           /\ d.bd["out0"][1 - s].own => d.both /\ d.bd["out0"][1 - s].stall
           /\ d.both /\ ~d.bd["out0"][s].stall => d.bd["out0"][1 - s].own
      /\ Waits(d, "out0") /\ ~d.pktDis =>
           /\ d.bd["out0"][s].own => d.both
           /\ d.both => d.bd["out0"][s].own /\ d.bd["out0"][s].stall

Ep0Inv(d) ==
  Sane(d) /\ OneWaits(d) /\ SetupLast(d) /\ OutTurn(d) /\ InTurn(d) /\ Stage(d) /\ OutReady(d)

\* Appending.
LEMMA AppendFacts ==
  ASSUME NEW s \in Seq(Entry), NEW n \in Entry, NEW t, t = Append(s, n)
  PROVE  /\ Len(s) \in Nat /\ Len(t) = Len(s) + 1 /\ t[Len(s) + 1] = n
         /\ \A i \in 1 .. Len(s) : t[i] = s[i]
OBVIOUS

\* Taking the head.
LEMMA TailFacts ==
  ASSUME NEW s \in Seq(Entry), s # <<>>, NEW t, t = Tail(s)
  PROVE  /\ t \in Seq(Entry) /\ Len(s) \in Nat /\ Len(s) > 0 /\ Len(t) = Len(s) - 1
         /\ \A i \in 1 .. Len(t) : t[i] = s[i + 1]
         /\ Head(s) = s[1] /\ s[1] \in Entry
OBVIOUS

\* Endpoint 0 is as it was.
Ep0Still(d, e) ==
  /\ e.ustat = d.ustat /\ e.sie["in0"] = d.sie["in0"] /\ e.sie["out0"] = d.sie["out0"]
  /\ e.bd["in0"] = d.bd["in0"] /\ e.bd["out0"] = d.bd["out0"]
  /\ e.pktDis = d.pktDis /\ e.pin = d.pin /\ e.transfer = d.transfer /\ e.flag1 = d.flag1
  /\ e.flag2 = d.flag2 /\ e.both = d.both /\ e.timer = d.timer

\* What does not touch endpoint 0 keeps its invariant.
LEMMA StillPreserves ==
  ASSUME NEW d, Ep0Inv(d), NEW e, Sane(e), Ep0Still(d, e)
  PROVE  Ep0Inv(e)
<1>1. Waits(e, "in0") = Waits(d, "in0") /\ Waits(e, "out0") = Waits(d, "out0")
  BY DEF Ep0Still, Waits
<1>2. OneWaits(e) /\ SetupLast(e) /\ OutTurn(e)
  BY DEF Ep0Still, Ep0Inv, OneWaits, SetupLast, OutTurn
<1>3. InTurn(e) /\ Stage(e) /\ OutReady(e)
  BY <1>1 DEF Ep0Still, Ep0Inv, InTurn, Stage, Stage0, OutReady
<1>. QED BY <1>2, <1>3 DEF Ep0Inv

\* The start of a frame.
LEMMA SofPreserves ==
  ASSUME NEW d, Ep0Inv(d), d.timer > 0
  PROVE  Ep0Inv(ServiceSof(d))
<1>. DEFINE e == ServiceSof(d)
<1>1. /\ Sane(e) /\ Kept(d, e, SofFields) /\ Stage0(e) /\ e.both = d.both
      /\ ~e.flag1 => e.timer > 0
      /\ \A q \in Pipes \ {"in0"} : e.bd[q] = d.bd[q]
      /\ e.bd["in0"][1 - d.pin] = d.bd["in0"][1 - d.pin]
      /\ d.flag1 => e.bd = d.bd /\ e.flag1
  BY SofEffect DEF Ep0Inv, Stage
<1>. HIDE DEF e
<1>2. e.ustat = d.ustat /\ e.sie = d.sie /\ e.pktDis = d.pktDis /\ e.pin = d.pin
  BY <1>1 DEF Kept, SofFields, Fields
<1>3. Waits(e, "in0") = Waits(d, "in0") /\ Waits(e, "out0") = Waits(d, "out0")
  BY <1>2 DEF Waits
<1>4. e.bd["out0"] = d.bd["out0"]
  BY <1>1, Ep0Pipes
<1>5. OneWaits(e) /\ SetupLast(e) /\ OutTurn(e)
  BY <1>1, <1>2, <1>4 DEF Ep0Inv, OneWaits, SetupLast, OutTurn
<1>6. Waits(d, "in0") => d.flag1
  BY DEF Ep0Inv, Stage
<1>7. InTurn(e)
  BY <1>1, <1>2, <1>3, <1>6 DEF Ep0Inv, InTurn
<1>8. Stage(e)
  BY <1>1, <1>3, <1>6 DEF Stage
<1>9. OutReady(e)
  BY <1>1, <1>2, <1>3, <1>4 DEF Ep0Inv, OutReady
<1>. QED BY <1>1, <1>5, <1>7, <1>8, <1>9 DEF e, Ep0Inv

\* The interrupt of a STALL handshake.
LEMMA StallPreserves ==
  ASSUME NEW d, Ep0Inv(d)
  PROVE  Ep0Inv(ServiceStall(d))
<1>. DEFINE e == ServiceStall(d)
<1>1. /\ Sane(e) /\ Kept(d, e, {"stallIF", "bd"})
      /\ \A q \in Pipes \ {"out0"} : e.bd[q] = d.bd[q]
      /\ e.bd["out0"][1 - d.cur] = d.bd["out0"][1 - d.cur]
      /\ \/ e.bd["out0"][d.cur] = d.bd["out0"][d.cur]
         \/ /\ d.bd["out0"][d.cur].own /\ e.bd["out0"][d.cur].own
            /\ e.bd["out0"][d.cur].stall
            /\ e.bd["out0"][d.cur].setup = d.bd["out0"][d.cur].setup
  BY StallEffect DEF Ep0Inv
<1>. HIDE DEF e
<1>2. /\ e.ustat = d.ustat /\ e.sie = d.sie /\ e.pktDis = d.pktDis /\ e.pin = d.pin
      /\ e.transfer = d.transfer /\ e.flag1 = d.flag1 /\ e.flag2 = d.flag2 /\ e.both = d.both
      /\ e.timer = d.timer
  BY <1>1 DEF Kept, Fields
<1>3. Waits(e, "in0") = Waits(d, "in0") /\ Waits(e, "out0") = Waits(d, "out0")
  BY <1>2 DEF Waits
<1>4. e.bd["in0"] = d.bd["in0"]
  BY <1>1, Ep0Pipes
<1>5. \A x \in Bit : /\ e.bd["out0"][x].own = d.bd["out0"][x].own
                     /\ e.bd["out0"][x].setup = d.bd["out0"][x].setup
                     /\ d.bd["out0"][x].stall => e.bd["out0"][x].stall
  <2>1. d.cur \in Bit /\ (\A x \in Bit : x = d.cur \/ x = 1 - d.cur)
    BY DEF Ep0Inv, Sane, Bit
  <2>2. \A x \in Bit : IsBd(e.bd["out0"][x]) /\ IsBd(d.bd["out0"][x])
    BY <1>1, BdOf, Ep0Pipes DEF Ep0Inv, Sane
  <2>. TAKE x \in Bit
  <2>3. CASE x = d.cur
    BY <1>1, <2>2, <2>3 DEF IsBd
  <2>4. CASE x = 1 - d.cur
    BY <1>1, <2>4
  <2>. QED BY <2>1, <2>3, <2>4
<1>6. d.sie["out0"] \in Bit /\ 1 - d.sie["out0"] \in Bit /\ d.ustat \in Seq(Entry)
  BY Ep0Pipes DEF Ep0Inv, Sane, Bit
<1>7. \A i \in 1 .. Len(d.ustat) : d.ustat[i] \in Entry /\ d.ustat[i].b \in Bit
  <2>1. \A i \in 1 .. Len(d.ustat) : d.ustat[i] \in Entry
    BY <1>6
  <2>. QED BY <2>1 DEF Entry
<1>8. OneWaits(e) /\ SetupLast(e)
  BY <1>2, <1>5, <1>6 DEF Ep0Inv, OneWaits, SetupLast
<1>9. OutTurn(e)
  BY <1>2, <1>5, <1>7 DEF Ep0Inv, OutTurn
<1>10. InTurn(e) /\ Stage(e)
  BY <1>2, <1>3, <1>4 DEF Ep0Inv, InTurn, Stage, Stage0
<1>11. OutReady(e)
  BY <1>2, <1>3, <1>5, <1>6 DEF Ep0Inv, OutReady
<1>. QED BY <1>1, <1>8, <1>9, <1>10, <1>11 DEF e, Ep0Inv

\* Initialised.
LEMMA ResetPreserves ==
  ASSUME NEW e, Sane(e), ResetDone(e), e.both <=> e.transfer = "TX"
  PROVE  Ep0Inv(e)
<1>1. Len(e.ustat) = 0
  BY DEF ResetDone
<1>2. ~Waits(e, "in0") /\ ~Waits(e, "out0") /\ OneWaits(e) /\ SetupLast(e) /\ OutTurn(e)
  BY <1>1 DEF Waits, OneWaits, SetupLast, OutTurn, ResetDone
<1>3. e.sie["in0"] = 0 /\ e.sie["out0"] = 0
  BY Ep0Pipes DEF ResetDone
<1>4. InTurn(e) /\ Stage(e) /\ OutReady(e)
  BY <1>2, <1>3 DEF InTurn, Stage, Stage0, OutReady, ResetDone, Bit
<1>. QED BY <1>2, <1>4 DEF Ep0Inv

\* What the SIE has done waits behind the rest.
LEMMA CompletedWaits ==
  ASSUME NEW d, Sane(d), NEW p \in Pipes, NEW e, CompletedDone(d, e, p)
  PROVE  /\ d.sie[p] \in Bit /\ Len(d.ustat) \in Nat /\ Len(e.ustat) = Len(d.ustat) + 1
         /\ e.ustat[Len(e.ustat)].pipe = p /\ e.ustat[Len(e.ustat)].b = d.sie[p]
         /\ \A i \in 1 .. Len(d.ustat) : e.ustat[i] = d.ustat[i]
         /\ \A q \in Pipes : Waits(e, q) <=> Waits(d, q) \/ q = p
<1>. DEFINE n == [pipe |-> p, b |-> d.sie[p]]
<1>1. d.ustat \in Seq(Entry) /\ d.sie[p] \in Bit
  BY DEF Sane
<1>2. n \in Entry /\ n.pipe = p /\ n.b = d.sie[p]
  BY <1>1 DEF Entry
<1>3. e.ustat = Append(d.ustat, n)
  BY DEF CompletedDone
<1>. HIDE DEF n
<1>4. /\ Len(d.ustat) \in Nat /\ Len(e.ustat) = Len(d.ustat) + 1 /\ e.ustat[Len(d.ustat) + 1] = n
      /\ \A i \in 1 .. Len(d.ustat) : e.ustat[i] = d.ustat[i]
  BY <1>1, <1>2, <1>3, AppendFacts
<1>5. \A q \in Pipes : Waits(e, q) <=> Waits(d, q) \/ q = p
  <2>1. ASSUME NEW q \in Pipes, Waits(e, q) PROVE Waits(d, q) \/ q = p
    <3>1. PICK i \in 1 .. Len(e.ustat) : e.ustat[i].pipe = q
      BY <2>1 DEF Waits
    <3>2. CASE i = Len(d.ustat) + 1
      BY <1>2, <1>4, <3>1, <3>2
    <3>3. CASE i # Len(d.ustat) + 1
      <4>1. i \in 1 .. Len(d.ustat)
        BY <1>4, <3>3
      <4>. QED BY <1>4, <3>1, <4>1 DEF Waits
    <3>. QED BY <3>2, <3>3
  <2>2. ASSUME NEW q \in Pipes, Waits(d, q) PROVE Waits(e, q)
    <3>1. PICK i \in 1 .. Len(d.ustat) : d.ustat[i].pipe = q
      BY <2>2 DEF Waits
    <3>2. i \in 1 .. Len(e.ustat) /\ e.ustat[i].pipe = q
      BY <1>4, <3>1
    <3>. QED BY <3>2 DEF Waits
  <2>3. Waits(e, p)
    <3>1. Len(e.ustat) \in 1 .. Len(e.ustat) /\ e.ustat[Len(e.ustat)].pipe = p
      BY <1>2, <1>4
    <3>. QED BY <3>1 DEF Waits
  <2>. QED BY <2>1, <2>2, <2>3
<1>. QED BY <1>1, <1>2, <1>4, <1>5

\* A packet of endpoint 1 has moved.
LEMMA CompletedEp1Preserves ==
  ASSUME NEW d, Ep0Inv(d), ~d.pktDis, NEW p \in Pipes1,
         NEW e, Sane(e), Kept(d, e, {"bd", "sie", "ustat"}), CompletedDone(d, e, p)
  PROVE  Ep0Inv(e)
<1>1. p \in Pipes /\ p # "in0" /\ p # "out0" /\ "in0" \in Pipes /\ "out0" \in Pipes /\ Sane(d)
  BY Ep0Pipes, Ep1Pipes DEF Ep0Inv
<1>2. /\ Len(d.ustat) \in Nat /\ Len(e.ustat) = Len(d.ustat) + 1
      /\ e.ustat[Len(e.ustat)].pipe = p
      /\ \A i \in 1 .. Len(d.ustat) : e.ustat[i] = d.ustat[i]
      /\ \A q \in Pipes : Waits(e, q) <=> Waits(d, q) \/ q = p
  BY <1>1, CompletedWaits
<1>3. /\ e.bd["in0"] = d.bd["in0"] /\ e.bd["out0"] = d.bd["out0"]
      /\ e.sie["in0"] = d.sie["in0"] /\ e.sie["out0"] = d.sie["out0"]
  BY <1>1 DEF CompletedDone, Sane
<1>4. /\ e.pktDis = d.pktDis /\ e.pin = d.pin /\ e.transfer = d.transfer /\ e.flag1 = d.flag1
      /\ e.flag2 = d.flag2 /\ e.both = d.both /\ e.timer = d.timer
  BY DEF Kept, Fields
<1>5. \A i \in 1 .. Len(e.ustat) : e.ustat[i].pipe \in {"in0", "out0"} =>
        i \in 1 .. Len(d.ustat) /\ e.ustat[i] = d.ustat[i]
  <2>. TAKE i \in 1 .. Len(e.ustat)
  <2>1. CASE i = Len(e.ustat)
    BY <1>1, <1>2, <2>1
  <2>2. CASE i # Len(e.ustat)
    <3>1. i \in 1 .. Len(d.ustat)
      BY <1>2, <2>2
    <3>. QED BY <1>2, <3>1
  <2>. QED BY <2>1, <2>2
<1>6. OneWaits(e)
  BY <1>5 DEF Ep0Inv, OneWaits
<1>7. SetupLast(e)
  BY <1>4 DEF SetupLast
<1>8. OutTurn(e)
  BY <1>3, <1>4, <1>5 DEF Ep0Inv, OutTurn
<1>9. (Waits(e, "in0") <=> Waits(d, "in0")) /\ (Waits(e, "out0") <=> Waits(d, "out0"))
  BY <1>1, <1>2
<1>10. InTurn(e) /\ Stage(e) /\ OutReady(e)
  BY <1>3, <1>4, <1>9 DEF Ep0Inv, InTurn, Stage, Stage0, OutReady
<1>. QED BY <1>6, <1>7, <1>8, <1>10 DEF Ep0Inv

\* An IN packet of endpoint 0 has moved.
LEMMA CompletedIn0Preserves ==
  ASSUME NEW d, Ep0Inv(d), ~d.pktDis, d.bd["in0"][d.sie["in0"]].own, ~d.bd["in0"][d.sie["in0"]].stall,
         NEW e, Sane(e), Kept(d, e, {"bd", "sie", "ustat"}), CompletedDone(d, e, "in0")
  PROVE  Ep0Inv(e)
<1>1. "in0" \in Pipes /\ "out0" \in Pipes /\ "in0" # "out0" /\ Sane(d)
  BY Ep0Pipes DEF Ep0Inv
<1>2. /\ Len(d.ustat) \in Nat /\ Len(e.ustat) = Len(d.ustat) + 1
      /\ e.ustat[Len(e.ustat)].pipe = "in0"
      /\ \A i \in 1 .. Len(d.ustat) : e.ustat[i] = d.ustat[i]
      /\ \A q \in Pipes : Waits(e, q) <=> Waits(d, q) \/ q = "in0"
      /\ d.sie["in0"] \in Bit
  BY <1>1, CompletedWaits
<1>3. /\ e.bd["out0"] = d.bd["out0"] /\ e.sie["in0"] = 1 - d.sie["in0"]
      /\ e.sie["out0"] = d.sie["out0"]
      /\ ~e.bd["in0"][d.sie["in0"]].own
      /\ e.bd["in0"][1 - d.sie["in0"]] = d.bd["in0"][1 - d.sie["in0"]]
  BY <1>1 DEF CompletedDone, Sane
<1>4. /\ e.pktDis = d.pktDis /\ e.pin = d.pin /\ e.transfer = d.transfer /\ e.flag1 = d.flag1
      /\ e.flag2 = d.flag2 /\ e.both = d.both /\ e.timer = d.timer
  BY DEF Kept, Fields
<1>5. ~Waits(d, "in0") /\ d.sie["in0"] = d.pin /\ ~d.bd["in0"][1 - d.pin].own
  <2>1. d.sie["in0"] = 0 \/ d.sie["in0"] = 1
    BY <1>2 DEF Bit
  <2>. QED BY <2>1 DEF Ep0Inv, InTurn
<1>6. d.flag1
  BY <1>5 DEF Ep0Inv, Stage, Stage0
<1>7. \A i \in 1 .. Len(e.ustat) : i # Len(e.ustat) =>
        /\ i \in 1 .. Len(d.ustat) /\ e.ustat[i] = d.ustat[i] /\ e.ustat[i].pipe # "in0"
  <2>. TAKE i \in 1 .. Len(e.ustat)
  <2>. HAVE i # Len(e.ustat)
  <2>1. i \in 1 .. Len(d.ustat)
    BY <1>2
  <2>. QED BY <1>2, <1>5, <2>1 DEF Waits
<1>8. OneWaits(e)
  <2>. SUFFICES ASSUME NEW i \in 1 .. Len(e.ustat), NEW j \in 1 .. Len(e.ustat), i < j
       PROVE  /\ ~(e.ustat[i].pipe = "in0" /\ e.ustat[j].pipe = "in0")
              /\ e.ustat[i].pipe = "out0" /\ e.ustat[j].pipe = "out0" =>
                   j = Len(e.ustat) /\ e.pktDis /\ e.both
    BY DEF OneWaits
  <2>1. i # Len(e.ustat)
    BY <1>2
  <2>2. CASE j = Len(e.ustat)
    BY <1>1, <1>2, <1>7, <2>1, <2>2
  <2>3. CASE j # Len(e.ustat)
    BY <1>7, <2>1, <2>3 DEF Ep0Inv, OneWaits
  <2>. QED BY <2>2, <2>3
<1>9. SetupLast(e)
  BY <1>4 DEF SetupLast
<1>10. OutTurn(e)
  <2>1. \A i \in 1 .. Len(e.ustat) : e.ustat[i].pipe = "out0" =>
          i \in 1 .. Len(d.ustat) /\ e.ustat[i] = d.ustat[i]
    BY <1>1, <1>2, <1>7
  <2>. QED BY <1>3, <1>4, <2>1 DEF Ep0Inv, OutTurn
<1>11. Waits(e, "in0") /\ (Waits(e, "out0") <=> Waits(d, "out0"))
  BY <1>1, <1>2
<1>12. ~e.bd["in0"][0].own /\ ~e.bd["in0"][1].own
  <2>1. d.pin = 0 \/ d.pin = 1
    BY <1>2, <1>5 DEF Bit
  <2>. QED BY <1>3, <1>5, <2>1
<1>13. InTurn(e)
  BY <1>3, <1>4, <1>5, <1>11, <1>12 DEF InTurn
<1>14. Stage(e)
  <2>1. ~e.bd["in0"][e.pin].own
    BY <1>3, <1>4, <1>5
  <2>. QED BY <1>4, <1>6, <2>1 DEF Ep0Inv, Stage, Stage0
<1>15. OutReady(e)
  BY <1>3, <1>4, <1>11 DEF Ep0Inv, OutReady
<1>. QED BY <1>8, <1>9, <1>10, <1>13, <1>14, <1>15 DEF Ep0Inv

\* An OUT packet of endpoint 0 has moved.
LEMMA CompletedOut0Preserves ==
  ASSUME NEW d, Ep0Inv(d), ~d.pktDis,
         d.bd["out0"][d.sie["out0"]].own, ~d.bd["out0"][d.sie["out0"]].stall,
         NEW e, Sane(e), Kept(d, e, {"bd", "sie", "ustat"}), CompletedDone(d, e, "out0"),
         ~e.bd["out0"][d.sie["out0"]].setup
  PROVE  Ep0Inv(e)
<1>1. "in0" \in Pipes /\ "out0" \in Pipes /\ "in0" # "out0" /\ Sane(d)
  BY Ep0Pipes DEF Ep0Inv
<1>2. /\ Len(d.ustat) \in Nat /\ Len(e.ustat) = Len(d.ustat) + 1
      /\ e.ustat[Len(e.ustat)].pipe = "out0" /\ e.ustat[Len(e.ustat)].b = d.sie["out0"]
      /\ \A i \in 1 .. Len(d.ustat) : e.ustat[i] = d.ustat[i]
      /\ \A q \in Pipes : Waits(e, q) <=> Waits(d, q) \/ q = "out0"
      /\ d.sie["out0"] \in Bit
  BY <1>1, CompletedWaits
<1>3. /\ e.bd["in0"] = d.bd["in0"] /\ e.sie["in0"] = d.sie["in0"]
      /\ e.sie["out0"] = 1 - d.sie["out0"]
      /\ ~e.bd["out0"][d.sie["out0"]].own
      /\ e.bd["out0"][1 - d.sie["out0"]] = d.bd["out0"][1 - d.sie["out0"]]
  BY <1>1 DEF CompletedDone, Sane
<1>4. /\ e.pktDis = d.pktDis /\ e.pin = d.pin /\ e.transfer = d.transfer /\ e.flag1 = d.flag1
      /\ e.flag2 = d.flag2 /\ e.both = d.both /\ e.timer = d.timer
  BY DEF Kept, Fields
<1>5. ~Waits(d, "out0")
  BY DEF Ep0Inv, OutReady
<1>6. /\ d.bd["out0"][1 - d.sie["out0"]].own => d.both
      /\ d.both => /\ d.bd["out0"][1 - d.sie["out0"]].own
                   /\ d.bd["out0"][1 - d.sie["out0"]].stall
  BY <1>5 DEF Ep0Inv, OutReady
<1>7. \A i \in 1 .. Len(e.ustat) : i # Len(e.ustat) =>
        /\ i \in 1 .. Len(d.ustat) /\ e.ustat[i] = d.ustat[i] /\ e.ustat[i].pipe # "out0"
  <2>. TAKE i \in 1 .. Len(e.ustat)
  <2>. HAVE i # Len(e.ustat)
  <2>1. i \in 1 .. Len(d.ustat)
    BY <1>2
  <2>. QED BY <1>2, <1>5, <2>1 DEF Waits
<1>8. OneWaits(e)
  <2>. SUFFICES ASSUME NEW i \in 1 .. Len(e.ustat), NEW j \in 1 .. Len(e.ustat), i < j
       PROVE  /\ ~(e.ustat[i].pipe = "in0" /\ e.ustat[j].pipe = "in0")
              /\ e.ustat[i].pipe = "out0" /\ e.ustat[j].pipe = "out0" =>
                   j = Len(e.ustat) /\ e.pktDis /\ e.both
    BY DEF OneWaits
  <2>1. i # Len(e.ustat)
    BY <1>2
  <2>2. CASE j = Len(e.ustat)
    BY <1>1, <1>2, <1>7, <2>1, <2>2
  <2>3. CASE j # Len(e.ustat)
    BY <1>7, <2>1, <2>3 DEF Ep0Inv, OneWaits
  <2>. QED BY <2>2, <2>3
<1>9. SetupLast(e)
  BY <1>4 DEF SetupLast
<1>10. d.sie["out0"] = 1 - e.sie["out0"]
  BY <1>2, <1>3 DEF Bit
<1>11. OutTurn(e)
  <2>1. \A i \in 1 .. Len(e.ustat) : e.ustat[i].pipe = "out0" => i = Len(e.ustat)
    BY <1>7
  <2>. QED BY <1>2, <1>3, <1>4, <1>10, <2>1 DEF OutTurn
<1>12. Waits(e, "out0") /\ (Waits(e, "in0") <=> Waits(d, "in0"))
  BY <1>1, <1>2
<1>13. InTurn(e) /\ Stage(e)
  BY <1>3, <1>4, <1>12 DEF Ep0Inv, InTurn, Stage, Stage0
<1>14. OutReady(e)
  BY <1>3, <1>4, <1>6, <1>12 DEF OutReady
<1>. QED BY <1>8, <1>9, <1>11, <1>13, <1>14 DEF Ep0Inv

\* A SETUP has been taken, by whatever descriptor the SIE owned.
LEMMA TakeSetupPreserves ==
  ASSUME NEW d, Ep0Inv(d), ~d.pktDis, d.bd["out0"][d.sie["out0"]].own,
         NEW req \in Request
  PROVE  Ep0Inv(TakeSetup(d, req))
<1>. DEFINE e == TakeSetup(d, req)
<1>1. /\ Sane(e) /\ Kept(d, e, {"bd", "sie", "ustat", "setup", "pktDis"})
      /\ CompletedDone(d, e, "out0") /\ e.bd["out0"][d.sie["out0"]].setup /\ e.pktDis
  BY TakeSetupEffect DEF Ep0Inv
<1>. HIDE DEF e
<1>2. "in0" \in Pipes /\ "out0" \in Pipes /\ "in0" # "out0" /\ Sane(d)
  BY Ep0Pipes DEF Ep0Inv
<1>3. /\ Len(d.ustat) \in Nat /\ Len(e.ustat) = Len(d.ustat) + 1
      /\ e.ustat[Len(e.ustat)].pipe = "out0" /\ e.ustat[Len(e.ustat)].b = d.sie["out0"]
      /\ \A i \in 1 .. Len(d.ustat) : e.ustat[i] = d.ustat[i]
      /\ \A q \in Pipes : Waits(e, q) <=> Waits(d, q) \/ q = "out0"
      /\ d.sie["out0"] \in Bit
  BY <1>1, <1>2, CompletedWaits
<1>4. /\ e.bd["in0"] = d.bd["in0"] /\ e.sie["in0"] = d.sie["in0"]
      /\ e.sie["out0"] = 1 - d.sie["out0"]
      /\ ~e.bd["out0"][d.sie["out0"]].own
      /\ e.bd["out0"][1 - d.sie["out0"]] = d.bd["out0"][1 - d.sie["out0"]]
  BY <1>1, <1>2 DEF CompletedDone, Sane
<1>5. /\ e.pin = d.pin /\ e.transfer = d.transfer /\ e.flag1 = d.flag1
      /\ e.flag2 = d.flag2 /\ e.both = d.both /\ e.timer = d.timer
  BY <1>1 DEF Kept, Fields
<1>6. Waits(d, "out0") => d.both
  BY DEF Ep0Inv, OutReady
<1>7. \A i \in 1 .. Len(e.ustat) : i # Len(e.ustat) =>
        i \in 1 .. Len(d.ustat) /\ e.ustat[i] = d.ustat[i]
  <2>. TAKE i \in 1 .. Len(e.ustat)
  <2>. HAVE i # Len(e.ustat)
  <2>1. i \in 1 .. Len(d.ustat)
    BY <1>3
  <2>. QED BY <1>3, <2>1
<1>8. OneWaits(e)
  <2>. SUFFICES ASSUME NEW i \in 1 .. Len(e.ustat), NEW j \in 1 .. Len(e.ustat), i < j
       PROVE  /\ ~(e.ustat[i].pipe = "in0" /\ e.ustat[j].pipe = "in0")
              /\ e.ustat[i].pipe = "out0" /\ e.ustat[j].pipe = "out0" =>
                   j = Len(e.ustat) /\ e.pktDis /\ e.both
    BY DEF OneWaits
  <2>1. i # Len(e.ustat)
    BY <1>3
  <2>2. CASE j = Len(e.ustat)
    <3>1. i \in 1 .. Len(d.ustat) /\ e.ustat[i] = d.ustat[i]
      BY <1>7, <2>1
    <3>2. e.ustat[i].pipe = "out0" => e.both
      BY <1>5, <1>6, <3>1 DEF Waits
    <3>. QED BY <1>1, <1>2, <1>3, <2>2, <3>2
  <2>3. CASE j # Len(e.ustat)
    <3>1. /\ i \in 1 .. Len(d.ustat) /\ e.ustat[i] = d.ustat[i]
          /\ j \in 1 .. Len(d.ustat) /\ e.ustat[j] = d.ustat[j]
      BY <1>7, <2>1, <2>3
    <3>2. /\ ~(d.ustat[i].pipe = "in0" /\ d.ustat[j].pipe = "in0")
          /\ ~(d.ustat[i].pipe = "out0" /\ d.ustat[j].pipe = "out0")
      BY <3>1 DEF Ep0Inv, OneWaits
    <3>. QED BY <3>1, <3>2
  <2>. QED BY <2>2, <2>3
<1>9. d.sie["out0"] = 1 - e.sie["out0"]
  BY <1>3, <1>4 DEF Bit
<1>10. SetupLast(e)
  BY <1>1, <1>3, <1>4, <1>9 DEF SetupLast
<1>11. OutTurn(e)
  <2>. SUFFICES ASSUME NEW i \in 1 .. Len(e.ustat), e.ustat[i].pipe = "out0", i # Len(e.ustat)
       PROVE  /\ e.ustat[i].b = e.sie["out0"]
              /\ ~e.bd["out0"][e.ustat[i].b].setup /\ ~e.bd["out0"][e.ustat[i].b].own
    BY <1>1 DEF OutTurn
  <2>1. i \in 1 .. Len(d.ustat) /\ e.ustat[i] = d.ustat[i]
    BY <1>7
  <2>2. /\ d.ustat[i].b = 1 - d.sie["out0"]
        /\ ~d.bd["out0"][d.ustat[i].b].setup /\ ~d.bd["out0"][d.ustat[i].b].own
    BY <2>1 DEF Ep0Inv, OutTurn
  <2>. QED BY <1>4, <2>1, <2>2
<1>12. Waits(e, "out0") /\ (Waits(e, "in0") <=> Waits(d, "in0"))
  BY <1>2, <1>3
<1>13. InTurn(e) /\ Stage(e)
  BY <1>4, <1>5, <1>12 DEF Ep0Inv, InTurn, Stage, Stage0
<1>14. OutReady(e)
  BY <1>1, <1>12 DEF OutReady
<1>. QED BY <1>1, <1>8, <1>10, <1>11, <1>13, <1>14 DEF e, Ep0Inv

-----------------------------------------------------------------------------
(* The interrupt handler keeps it.                                         *)

\* The handler has taken the oldest entry of the FIFO.
Taken(d, e) == d.ustat # <<>> /\ e.ustat = Tail(d.ustat)

\* What waits after the oldest entry is gone.
LEMMA TakenWaits ==
  ASSUME NEW d, Sane(d), NEW e, Taken(d, e)
  PROVE  /\ Len(d.ustat) \in Nat /\ Len(d.ustat) > 0 /\ Len(e.ustat) = Len(d.ustat) - 1
         /\ \A i \in 1 .. Len(e.ustat) : i + 1 \in 1 .. Len(d.ustat) /\ e.ustat[i] = d.ustat[i + 1]
         /\ Head(d.ustat) = d.ustat[1] /\ d.ustat[1] \in Entry
         /\ \A q \in Pipes : /\ Waits(e, q) => Waits(d, q)
                             /\ Waits(d, q) => Waits(e, q) \/ d.ustat[1].pipe = q
<1>1. d.ustat \in Seq(Entry) /\ d.ustat # <<>> /\ e.ustat = Tail(d.ustat)
  BY DEF Sane, Taken
<1>2. /\ Len(d.ustat) \in Nat /\ Len(d.ustat) > 0 /\ Len(e.ustat) = Len(d.ustat) - 1
      /\ \A i \in 1 .. Len(e.ustat) : e.ustat[i] = d.ustat[i + 1]
      /\ Head(d.ustat) = d.ustat[1] /\ d.ustat[1] \in Entry
  BY <1>1, TailFacts
<1>3. \A i \in 1 .. Len(e.ustat) : i + 1 \in 1 .. Len(d.ustat)
  BY <1>2
<1>4. ASSUME NEW q \in Pipes, Waits(e, q) PROVE Waits(d, q)
  <2>1. PICK i \in 1 .. Len(e.ustat) : e.ustat[i].pipe = q
    BY <1>4 DEF Waits
  <2>2. i + 1 \in 1 .. Len(d.ustat) /\ d.ustat[i + 1].pipe = q
    BY <1>2, <1>3, <2>1
  <2>. QED BY <2>2 DEF Waits
<1>5. ASSUME NEW q \in Pipes, Waits(d, q) PROVE Waits(e, q) \/ d.ustat[1].pipe = q
  <2>1. PICK i \in 1 .. Len(d.ustat) : d.ustat[i].pipe = q
    BY <1>5 DEF Waits
  <2>2. CASE i = 1
    BY <2>1, <2>2
  <2>3. CASE i # 1
    <3>1. i - 1 \in 1 .. Len(e.ustat) /\ (i - 1) + 1 = i
      BY <1>2, <2>3
    <3>2. e.ustat[i - 1].pipe = q
      BY <1>2, <2>1, <3>1
    <3>. QED BY <3>1, <3>2 DEF Waits
  <2>. QED BY <2>2, <2>3
<1>. QED BY <1>2, <1>3, <1>4, <1>5

\* One transaction at a time: none of the same pipe is left, but for a SETUP.
LEMMA TakenOnly ==
  ASSUME NEW d, Ep0Inv(d), NEW e, Taken(d, e)
  PROVE  /\ d.ustat[1].pipe = "in0" => ~Waits(e, "in0")
         /\ d.ustat[1].pipe = "out0" =>
              \A i \in 1 .. Len(e.ustat) : e.ustat[i].pipe = "out0" =>
                i = Len(e.ustat) /\ d.pktDis /\ d.both
<1>1. /\ Len(d.ustat) \in Nat /\ Len(d.ustat) > 0 /\ Len(e.ustat) = Len(d.ustat) - 1
      /\ \A i \in 1 .. Len(e.ustat) : i + 1 \in 1 .. Len(d.ustat) /\ e.ustat[i] = d.ustat[i + 1]
  BY TakenWaits DEF Ep0Inv
<1>2. \A i \in 1 .. Len(e.ustat) : 1 \in 1 .. Len(d.ustat) /\ 1 < i + 1
  BY <1>1
<1>3. \A i \in 1 .. Len(e.ustat) :
        /\ ~(d.ustat[1].pipe = "in0" /\ e.ustat[i].pipe = "in0")
        /\ d.ustat[1].pipe = "out0" /\ e.ustat[i].pipe = "out0" =>
             i + 1 = Len(d.ustat) /\ d.pktDis /\ d.both
  <2>. TAKE i \in 1 .. Len(e.ustat)
  <2>1. i + 1 \in 1 .. Len(d.ustat) /\ 1 \in 1 .. Len(d.ustat) /\ 1 < i + 1 /\ e.ustat[i] = d.ustat[i + 1]
    BY <1>1, <1>2
  <2>. DEFINE j == i + 1
  <2>. HIDE DEF j
  <2>2. j \in 1 .. Len(d.ustat) /\ 1 < j /\ e.ustat[i] = d.ustat[j]
    BY <2>1 DEF j
  <2>3. /\ ~(d.ustat[1].pipe = "in0" /\ d.ustat[j].pipe = "in0")
        /\ d.ustat[1].pipe = "out0" /\ d.ustat[j].pipe = "out0" =>
             j = Len(d.ustat) /\ d.pktDis /\ d.both
    BY <2>1, <2>2 DEF Ep0Inv, OneWaits
  <2>. QED BY <2>2, <2>3 DEF j
<1>4. \A i \in 1 .. Len(e.ustat) : i + 1 = Len(d.ustat) => i = Len(e.ustat)
  BY <1>1
<1>. QED BY <1>3, <1>4 DEF Waits

\* What is left of the FIFO is as it was, as far as the descriptors are.
LEMMA TakenOrder ==
  ASSUME NEW d, Ep0Inv(d), NEW e, Taken(d, e), e.sie["out0"] = d.sie["out0"],
         e.bd["out0"] = d.bd["out0"], e.pktDis = d.pktDis,
         e.both = d.both \/ d.ustat[1].pipe = "out0",
         d.pktDis => Len(d.ustat) # 1
  PROVE  OneWaits(e) /\ SetupLast(e) /\ OutTurn(e)
<1>1. /\ Len(d.ustat) \in Nat /\ Len(d.ustat) > 0 /\ Len(e.ustat) = Len(d.ustat) - 1
      /\ \A i \in 1 .. Len(e.ustat) : i + 1 \in 1 .. Len(d.ustat) /\ e.ustat[i] = d.ustat[i + 1]
  BY TakenWaits DEF Ep0Inv
<1>2. \A i \in 1 .. Len(e.ustat) : i + 1 = Len(d.ustat) <=> i = Len(e.ustat)
  BY <1>1
<1>3. \A i, j \in 1 .. Len(e.ustat) : i < j => i # Len(e.ustat)
  <2>. DEFINE n == Len(e.ustat)
  <2>1. n \in Int
    BY <1>1
  <2>. HIDE DEF n
  <2>2. \A i, j \in 1 .. n : i < j => i # n
    BY <2>1
  <2>. QED BY <2>2 DEF n
<1>4. OneWaits(e)
  <2>. SUFFICES ASSUME NEW i \in 1 .. Len(e.ustat), NEW j \in 1 .. Len(e.ustat), i < j
       PROVE  /\ ~(e.ustat[i].pipe = "in0" /\ e.ustat[j].pipe = "in0")
              /\ e.ustat[i].pipe = "out0" /\ e.ustat[j].pipe = "out0" =>
                   j = Len(e.ustat) /\ e.pktDis /\ e.both
    BY DEF OneWaits
  <2>1. i # Len(e.ustat)
    BY <1>3
  <2>. DEFINE k == i + 1
              l == j + 1
  <2>2. k < l
    OBVIOUS
  <2>3. /\ k \in 1 .. Len(d.ustat) /\ l \in 1 .. Len(d.ustat)
        /\ e.ustat[i] = d.ustat[k] /\ e.ustat[j] = d.ustat[l]
    BY <1>1
  <2>4. l = Len(d.ustat) => j = Len(e.ustat)
    BY <1>2
  <2>5. ~(d.ustat[1].pipe = "out0" /\ e.ustat[i].pipe = "out0")
    <3>1. d.ustat[1].pipe = "out0" /\ e.ustat[i].pipe = "out0" => i = Len(e.ustat)
      BY TakenOnly
    <3>. QED BY <2>1, <3>1
  <2>. HIDE DEF k, l
  <2>6. /\ ~(d.ustat[k].pipe = "in0" /\ d.ustat[l].pipe = "in0")
        /\ d.ustat[k].pipe = "out0" /\ d.ustat[l].pipe = "out0" =>
             l = Len(d.ustat) /\ d.pktDis /\ d.both
    BY <2>2, <2>3 DEF Ep0Inv, OneWaits
  <2>. QED BY <2>3, <2>4, <2>5, <2>6
<1>5. SetupLast(e)
  <2>1. d.pktDis => Len(e.ustat) > 0 /\ e.ustat[Len(e.ustat)] = d.ustat[Len(d.ustat)]
    <3>1. d.pktDis => Len(e.ustat) \in 1 .. Len(e.ustat) /\ Len(e.ustat) + 1 = Len(d.ustat)
      <4>. DEFINE n == Len(d.ustat)
                  m == Len(e.ustat)
      <4>1. n \in Nat /\ n > 0 /\ m = n - 1 /\ (d.pktDis => n # 1)
        BY <1>1
      <4>. HIDE DEF n, m
      <4>2. d.pktDis => m \in 1 .. m /\ m + 1 = n
        BY <4>1
      <4>. QED BY <4>2 DEF n, m
    <3>. QED BY <1>1, <3>1
  <2>. QED BY <2>1 DEF Ep0Inv, SetupLast
<1>6. OutTurn(e)
  <2>. SUFFICES ASSUME NEW i \in 1 .. Len(e.ustat), e.ustat[i].pipe = "out0",
                       ~(e.pktDis /\ i = Len(e.ustat))
       PROVE  /\ e.ustat[i].b = IF e.pktDis THEN e.sie["out0"] ELSE 1 - e.sie["out0"]
              /\ ~e.bd["out0"][e.ustat[i].b].setup /\ ~e.bd["out0"][e.ustat[i].b].own
    BY DEF OutTurn
  <2>. DEFINE k == i + 1
  <2>1. k \in 1 .. Len(d.ustat) /\ e.ustat[i] = d.ustat[k] /\ (k = Len(d.ustat) <=> i = Len(e.ustat))
    BY <1>1, <1>2
  <2>. HIDE DEF k
  <2>2. /\ d.ustat[k].b = IF d.pktDis THEN d.sie["out0"] ELSE 1 - d.sie["out0"]
        /\ ~d.bd["out0"][d.ustat[k].b].setup /\ ~d.bd["out0"][d.ustat[k].b].own
    BY <2>1 DEF Ep0Inv, OutTurn
  <2>. QED BY <2>1, <2>2
<1>. QED BY <1>4, <1>5, <1>6

\* The device with the oldest entry of the FIFO taken out of it, and how the
\* handler goes on.
LEMMA TakenEffect ==
  ASSUME NEW d, Sane(d), d.ustat # <<>>
  PROVE  LET c == [d EXCEPT !.ustat = Tail(@)]
             h == d.ustat[1]
         IN  /\ Sane(c) /\ Kept(d, c, {"ustat"}) /\ Taken(d, c) /\ h \in Entry
             /\ ServiceTransaction(d) = IF h.pipe \in Pipes1 THEN [c EXCEPT !.pp[h.pipe] = Advance(@)]
                                        ELSE CtrlEPService(c, h.pipe, h.b)
<1>. DEFINE c == [d EXCEPT !.ustat = Tail(@)]
<1>1. DOMAIN d = Fields /\ d.ustat \in Seq(Entry)
  BY DEF Sane, IsDev
<1>2. Tail(d.ustat) \in Seq(Entry) /\ Head(d.ustat) = d.ustat[1] /\ d.ustat[1] \in Entry
  BY <1>1, TailFacts
<1>3. IsDev(c) /\ Kept(d, c, {"ustat"}) /\ c.ustat = Tail(d.ustat)
  <2>1. IsDev(c)
    BY <1>1 DEF IsDev
  <2>2. Kept(d, c, {"ustat"})
    BY <1>1 DEF Kept
  <2>. QED BY <1>1, <2>1, <2>2 DEF Fields
<1>4. ServiceTransaction(d) = IF d.ustat[1].pipe \in Pipes1 THEN [c EXCEPT !.pp[d.ustat[1].pipe] = Advance(@)]
                              ELSE CtrlEPService(c, d.ustat[1].pipe, d.ustat[1].b)
  BY <1>2 DEF ServiceTransaction
<1>. HIDE DEF c
<1>5. Sane(c)
  BY <1>2, <1>3 DEF Sane, Kept, Fields, Flags
<1>. QED BY <1>2, <1>3, <1>4, <1>5 DEF c, Taken

\* A transaction of endpoint 1 is only counted.
LEMMA ServiceEp1Preserves ==
  ASSUME NEW d, Ep0Inv(d), d.ustat # <<>>, d.ustat[1].pipe \in Pipes1
  PROVE  LET e == ServiceTransaction(d)
             p == d.ustat[1].pipe
         IN  /\ Ep0Inv(e) /\ Kept(d, e, {"ustat", "pp"})
             /\ Taken(d, e) /\ e.pp = [d.pp EXCEPT ![p] = 1 - d.pp[p]]
<1>. DEFINE c == [d EXCEPT !.ustat = Tail(@)]
            h == d.ustat[1]
            e == ServiceTransaction(d)
<1>1. /\ Sane(c) /\ Kept(d, c, {"ustat"}) /\ Taken(d, c) /\ h \in Entry
      /\ e = [c EXCEPT !.pp[h.pipe] = Advance(@)]
  BY TakenEffect DEF Ep0Inv
<1>. HIDE DEF c, e, h
<1>2. h.pipe \in Pipes1 /\ h.pipe \in Pipes /\ h.pipe # "in0" /\ h.pipe # "out0"
  BY Ep1Pipes DEF h
<1>3. DOMAIN c = Fields /\ c.pp \in [Pipes1 -> Bit]
  BY <1>1 DEF Sane, IsDev
<1>4. IsDev(e) /\ Kept(c, e, {"pp"}) /\ e.pp = [c.pp EXCEPT ![h.pipe] = 1 - c.pp[h.pipe]]
  <2>1. IsDev(e)
    BY <1>1, <1>3 DEF IsDev, Advance
  <2>2. Kept(c, e, {"pp"})
    BY <1>1, <1>3 DEF Kept, Advance
  <2>. QED BY <1>1, <1>3, <2>1, <2>2 DEF Fields, Advance
<1>5. e.pp \in [Pipes1 -> Bit]
  <2>1. c.pp[h.pipe] \in Bit
    BY <1>2, <1>3
  <2>2. 1 - c.pp[h.pipe] \in Bit
    BY <2>1 DEF Bit
  <2>. QED BY <1>3, <1>4, <2>2
<1>6. Sane(e)
  BY <1>1, <1>4, <1>5 DEF Sane, Kept, Fields, Flags
<1>7. Kept(d, e, {"ustat", "pp"})
  BY <1>1, <1>4 DEF Kept
<1>8. /\ e.ustat = c.ustat
      /\ e.sie = d.sie /\ e.bd = d.bd /\ e.pktDis = d.pktDis /\ e.pin = d.pin
      /\ e.transfer = d.transfer /\ e.flag1 = d.flag1 /\ e.flag2 = d.flag2 /\ e.both = d.both
      /\ e.timer = d.timer
  BY <1>4, <1>7 DEF Kept, Fields
<1>9. Taken(d, e) /\ Sane(d)
  BY <1>1, <1>8 DEF Taken, Ep0Inv
<1>10. d.pktDis => Len(d.ustat) # 1
  BY <1>2 DEF Ep0Inv, SetupLast, h
<1>11. OneWaits(e) /\ SetupLast(e) /\ OutTurn(e)
  BY <1>8, <1>9, <1>10, TakenOrder
<1>12. (Waits(e, "in0") <=> Waits(d, "in0")) /\ (Waits(e, "out0") <=> Waits(d, "out0"))
  BY <1>2, <1>9, TakenWaits, Ep0Pipes DEF h
<1>13. InTurn(e) /\ Stage(e) /\ OutReady(e)
  BY <1>8, <1>12 DEF Ep0Inv, InTurn, Stage, Stage0, OutReady
<1>14. e.pp = [d.pp EXCEPT ![h.pipe] = 1 - d.pp[h.pipe]]
  <2>1. c.pp = d.pp
    BY <1>1 DEF Kept, Fields
  <2>. QED BY <1>4, <2>1
<1>. QED BY <1>6, <1>7, <1>9, <1>11, <1>13, <1>14 DEF e, h, Ep0Inv

\* The handler has the timer of the status stage started again.
LEMMA TimedEffect ==
  ASSUME NEW d, Sane(d), d.ustat # <<>>
  PROVE  LET c == [d EXCEPT !.ustat = Tail(@)]
             t == [c EXCEPT !.timer = StatusStageTimeout]
         IN  Sane(t) /\ Kept(d, t, {"ustat", "timer"}) /\ Taken(d, t) /\ t.timer > 0
<1>. DEFINE c == [d EXCEPT !.ustat = Tail(@)]
            t == [c EXCEPT !.timer = StatusStageTimeout]
<1>1. Sane(c) /\ Kept(d, c, {"ustat"}) /\ Taken(d, c)
  BY TakenEffect
<1>. HIDE DEF c
<1>2. DOMAIN c = Fields
  BY <1>1 DEF Sane, IsDev
<1>3. IsDev(t) /\ Kept(c, t, {"timer"}) /\ t.timer = StatusStageTimeout
  <2>1. IsDev(t)
    BY <1>2 DEF IsDev
  <2>2. Kept(c, t, {"timer"})
    BY <1>2 DEF Kept
  <2>. QED BY <1>2, <2>1, <2>2 DEF Fields
<1>. HIDE DEF t
<1>4. t.timer \in Nat /\ t.timer > 0
  BY <1>3, StackAssumption
<1>5. Sane(t)
  BY <1>1, <1>3, <1>4 DEF Sane, Kept, Fields, Flags
<1>6. Kept(d, t, {"ustat", "timer"}) /\ Taken(d, t)
  BY <1>1, <1>3 DEF Kept, Fields, Taken
<1>. QED BY <1>4, <1>5, <1>6 DEF t, c

\* The handler of an IN transaction of endpoint 0.
LEMMA ServiceIn0Preserves ==
  ASSUME NEW d, Ep0Inv(d), d.ustat # <<>>, d.ustat[1].pipe = "in0"
  PROVE  LET e == ServiceTransaction(d)
         IN  Ep0Inv(e) /\ Kept(d, e, InFields \cup {"ustat", "timer"})
             /\ (\A q \in Pipes1 : e.bd[q] = d.bd[q])
             /\ (e.state = "CONFIGURED" => d.state = "CONFIGURED")
             /\ Taken(d, e) /\ ~Waits(e, "in0") /\ d.flag1 /\ InDone(d, e)
<1>. DEFINE c == [d EXCEPT !.ustat = Tail(@)]
            t == [c EXCEPT !.timer = StatusStageTimeout]
            h == d.ustat[1]
            e == ServiceTransaction(d)
<1>1. Sane(t) /\ Kept(d, t, {"ustat", "timer"}) /\ Taken(d, t) /\ t.timer > 0
  BY TimedEffect DEF Ep0Inv
<1>2. e = CtrlEPService(c, h.pipe, h.b)
  BY TakenEffect, Ep1Pipes DEF Ep0Inv
<1>3. e = InHandler(t)
  BY <1>2 DEF CtrlEPService
<1>. HIDE DEF c, t, e, h
<1>4. Waits(d, "in0")
  <2>1. 1 \in 1 .. Len(d.ustat)
    BY <1>1, TakenWaits DEF Ep0Inv
  <2>. QED BY <2>1 DEF Waits
<1>5. /\ t.ustat = Tail(d.ustat)
      /\ t.sie = d.sie /\ t.bd = d.bd /\ t.pktDis = d.pktDis /\ t.pin = d.pin
      /\ t.transfer = d.transfer /\ t.flag1 = d.flag1 /\ t.flag2 = d.flag2 /\ t.both = d.both
      /\ t.state = d.state
  BY <1>1 DEF Kept, Fields, Taken
<1>6. Stage0(t) /\ t.flag1
  BY <1>4, <1>5 DEF Ep0Inv, Stage, Stage0
<1>7. Sane(e) /\ Kept(t, e, InFields) /\ InDone(t, e)
  BY <1>1, <1>3, <1>6, InEffect
<1>8. Kept(d, e, InFields \cup {"ustat", "timer"})
  BY <1>1, <1>7 DEF Kept
<1>9. /\ e.ustat = t.ustat /\ e.sie = d.sie /\ e.pktDis = d.pktDis /\ e.timer = t.timer
      /\ e.flag1 = d.flag1 /\ e.flag2 = d.flag2
  BY <1>5, <1>7 DEF Kept, Fields, InFields
<1>10. /\ Stage0(e) /\ e.pin = 1 - d.pin /\ e.both = d.both
       /\ \A q \in Pipes \ {"in0"} : e.bd[q] = d.bd[q]
       /\ e.bd["in0"][d.pin] = d.bd["in0"][d.pin]
       /\ e.state = "CONFIGURED" => d.state = "CONFIGURED"
  BY <1>5, <1>7 DEF InDone
<1>11. e.bd["out0"] = d.bd["out0"] /\ \A q \in Pipes1 : e.bd[q] = d.bd[q]
  BY <1>10, Ep0Pipes, Ep1Pipes
<1>12. Taken(d, e) /\ Sane(d)
  BY <1>1, <1>9 DEF Taken, Ep0Inv
<1>13. d.pktDis => Len(d.ustat) # 1
  BY DEF Ep0Inv, SetupLast
<1>14. OneWaits(e) /\ SetupLast(e) /\ OutTurn(e)
  BY <1>9, <1>10, <1>11, <1>12, <1>13, TakenOrder
<1>15. ~Waits(e, "in0") /\ (Waits(e, "out0") <=> Waits(d, "out0"))
  BY <1>12, TakenWaits, TakenOnly, Ep0Pipes
<1>16. d.sie["in0"] = 1 - d.pin /\ ~d.bd["in0"][d.pin].own /\ 1 - (1 - d.pin) = d.pin
  <2>1. d.pin = 0 \/ d.pin = 1
    BY <1>12 DEF Sane, Bit
  <2>. QED BY <1>4, <2>1 DEF Ep0Inv, InTurn
<1>17. InTurn(e)
  BY <1>9, <1>10, <1>15, <1>16 DEF InTurn
<1>18. Stage(e)
  BY <1>1, <1>9, <1>10, <1>15 DEF Stage
<1>19. OutReady(e)
  BY <1>9, <1>10, <1>11, <1>15 DEF Ep0Inv, OutReady
<1>20. InDone(d, e)
  <2>1. t.pos = d.pos /\ t.source = d.source /\ t.count = d.count /\ t.short = d.short
        /\ t.setup = d.setup /\ t.address = d.address
    BY <1>1 DEF Kept, Fields
  <2>. QED BY <1>5, <1>7, <2>1 DEF InDone, Packet
<1>21. d.flag1
  BY <1>5, <1>6
<1>. QED BY <1>7, <1>8, <1>10, <1>11, <1>12, <1>14, <1>15, <1>17, <1>18, <1>19, <1>20, <1>21
     DEF e, Ep0Inv

\* A SETUP is the last there is: with the one before it gone, endpoint 0 starts over.
LEMMA ServiceSetupPreserves ==
  ASSUME NEW d, Ep0Inv(d), d.ustat # <<>>, d.ustat[1].pipe = "out0",
         d.bd["out0"][d.ustat[1].b].setup
  PROVE  LET e == ServiceTransaction(d)
         IN  /\ Ep0Inv(e) /\ Endpoint1(d, e)
             /\ d.pktDis /\ Len(d.ustat) = 1 /\ Len(e.ustat) = 0 /\ ~e.pktDis
             /\ Kept(d, e, SetupFields \cup {"ustat", "timer", "cur", "next"})
             /\ Request1(d, e) /\ Replied(e)
<1>. DEFINE c == [d EXCEPT !.ustat = Tail(@)]
            t == [c EXCEPT !.timer = StatusStageTimeout]
            h == d.ustat[1]
            k == [t EXCEPT !.cur = h.b, !.next = Advance(h.b)]
            e == ServiceTransaction(d)
<1>1. Sane(t) /\ Kept(d, t, {"ustat", "timer"}) /\ Taken(d, t) /\ t.timer > 0
  BY TimedEffect DEF Ep0Inv
<1>2. e = CtrlEPService(c, h.pipe, h.b) /\ h \in Entry
  BY TakenEffect, Ep1Pipes DEF Ep0Inv
<1>3. t.bd = d.bd /\ t.ustat = Tail(d.ustat)
  BY <1>1 DEF Kept, Fields, Taken
<1>4. e = SetupHandler(k)
  BY <1>2, <1>3 DEF CtrlEPService
<1>5. h.b \in Bit /\ h.pipe = "out0" /\ d.bd["out0"][h.b].setup
  BY <1>2 DEF Entry
<1>6. DOMAIN t = Fields
  BY <1>1 DEF Sane, IsDev
<1>7. IsDev(k) /\ Kept(t, k, {"cur", "next"}) /\ k.cur = h.b /\ k.next = 1 - h.b
  <2>. HIDE DEF t, h
  <2>1. IsDev(k)
    BY <1>6 DEF IsDev
  <2>2. k.cur = h.b /\ k.next = 1 - h.b
    BY <1>6 DEF Fields, Advance
  <2>3. Kept(t, k, {"cur", "next"})
    BY <1>6 DEF Kept
  <2>. QED BY <2>1, <2>2, <2>3
<1>. HIDE DEF c, t, k, e
<1>8. Len(d.ustat) \in Nat /\ Len(d.ustat) > 0 /\ Len(t.ustat) = Len(d.ustat) - 1
  BY <1>1, TakenWaits DEF Ep0Inv
<1>9. d.pktDis /\ Len(d.ustat) = 1
  <2>1. 1 \in 1 .. Len(d.ustat)
    BY <1>8
  <2>. QED BY <1>5, <2>1 DEF Ep0Inv, OutTurn, h
<1>10. h.b = 1 - d.sie["out0"] /\ ~d.bd["out0"][h.b].own
  BY <1>9 DEF Ep0Inv, SetupLast, h
<1>11. d.sie["out0"] = 1 - h.b /\ d.sie["in0"] \in Bit /\ d.pin \in Bit
  <2>1. d.sie["out0"] \in Bit
    BY Ep0Pipes DEF Ep0Inv, Sane
  <2>. QED BY <1>10, <2>1, Ep0Pipes DEF Ep0Inv, Sane, Bit
<1>12. ~Waits(d, "in0")
  <2>1. \A i \in 1 .. Len(d.ustat) : i = 1
    BY <1>9
  <2>. QED BY <1>5, <2>1 DEF Waits, h
<1>13. d.sie["in0"] = d.pin /\ ~d.bd["in0"][1 - d.pin].own
  BY <1>12 DEF Ep0Inv, InTurn
<1>14. Sane(k)
  <2>1. 1 - h.b \in Bit
    BY <1>5 DEF Bit
  <2>. QED BY <1>1, <1>5, <1>7, <2>1 DEF Sane, Kept, Fields, Flags
<1>15. Kept(d, k, {"ustat", "timer", "cur", "next"})
  BY <1>1, <1>7 DEF Kept
<1>16. /\ k.sie = d.sie /\ k.bd = d.bd /\ k.pin = d.pin /\ k.flag1 = d.flag1 /\ k.flag2 = d.flag2
       /\ k.state = d.state /\ k.enabled = d.enabled /\ k.fresh = d.fresh
       /\ k.outHandle = d.outHandle /\ k.cpu = d.cpu /\ k.events = d.events
  BY <1>15 DEF Kept, Fields
<1>17. k.ustat = t.ustat /\ k.timer = t.timer
  BY <1>7 DEF Kept, Fields
<1>18. Sane(e) /\ Kept(k, e, SetupFields) /\ SetupDone(k, e) /\ Request1(k, e) /\ Replied(e)
  <2>1. ~k.flag1 => ~k.flag2
    BY <1>16 DEF Ep0Inv, Stage, Stage0
  <2>2. k.next = 1 - k.cur /\ ~k.bd["out0"][k.cur].own
    BY <1>7, <1>10, <1>16
  <2>. QED BY <1>4, <1>14, <2>1, <2>2, SetupEffect
<1>19. e.ustat = t.ustat /\ e.timer = t.timer
  BY <1>17, <1>18 DEF Kept, Fields, SetupFields, PrepareFields, ConfigFields, BusyFields, ServeFields
<1>20. Len(e.ustat) = 0
  BY <1>8, <1>9, <1>19
<1>21. ~Waits(e, "in0") /\ ~Waits(e, "out0") /\ OneWaits(e) /\ OutTurn(e)
  BY <1>20 DEF Waits, OneWaits, OutTurn
<1>22. ~e.pktDis /\ SetupLast(e)
  BY <1>18 DEF SetupDone, SetupLast
<1>23. e.sie["in0"] = e.pin /\ e.sie["out0"] = e.next
  <2>1. CASE e.sie = k.sie /\ e.next = k.next /\ e.pin = k.pin
    BY <1>7, <1>11, <1>13, <1>16, <2>1
  <2>2. CASE e.sie = [p \in Pipes |-> 0] /\ e.next = 0 /\ e.pin = 0
    BY <2>2, Ep0Pipes
  <2>. QED BY <1>18, <2>1, <2>2 DEF SetupDone
<1>24. InTurn(e)
  BY <1>18, <1>21, <1>23 DEF InTurn, SetupDone
<1>25. Stage(e)
  BY <1>1, <1>18, <1>19, <1>21 DEF Stage, SetupDone
<1>26. OutReady(e)
  BY <1>18, <1>21, <1>23 DEF OutReady, SetupDone
<1>27. Endpoint1(d, e)
  BY <1>16, <1>18 DEF SetupDone, Endpoint1, Halting1
<1>28. Kept(d, e, SetupFields \cup {"ustat", "timer", "cur", "next"})
  BY <1>15, <1>18 DEF Kept
<1>29. Request1(d, e)
  <2>1. k.setup = d.setup /\ k.config = d.config /\ k.pp = d.pp /\ k.inHandle = d.inHandle
    BY <1>15 DEF Kept, Fields
  <2>2. Alike1(d, k)
    BY <1>16, <2>1 DEF Alike1, Same1
  <2>3. Alike1(e, e)
    BY DEF Alike1, Same1
  <2>4. k.setup.pipe \in Pipes1
    BY <1>14 DEF Sane, Request
  <2>. QED BY <1>18, <2>1, <2>2, <2>3, <2>4, RequestCarried
<1>. QED BY <1>9, <1>18, <1>20, <1>21, <1>22, <1>24, <1>25, <1>26, <1>27, <1>28, <1>29 DEF e, Ep0Inv

\* Any other OUT transaction: data of a write, or the status stage of a read.
LEMMA ServiceOut0Preserves ==
  ASSUME NEW d, Ep0Inv(d), d.ustat # <<>>, d.ustat[1].pipe = "out0",
         ~d.bd["out0"][d.ustat[1].b].setup
  PROVE  LET e == ServiceTransaction(d)
         IN  /\ Ep0Inv(e) /\ Kept(d, e, OutFields \cup {"ustat", "timer", "cur", "next"})
             /\ \A q \in Pipes1 : e.bd[q] = d.bd[q]
             /\ Taken(d, e) /\ ~e.both /\ (StatusDue(d) => StatusDue(e))
             /\ d.flag1 => e.flag1 /\ e.bd["in0"] = d.bd["in0"]
             /\ ~d.pktDis => ~Waits(e, "out0")
<1>. DEFINE c == [d EXCEPT !.ustat = Tail(@)]
            t == [c EXCEPT !.timer = StatusStageTimeout]
            h == d.ustat[1]
            k == [t EXCEPT !.cur = h.b, !.next = Advance(h.b)]
            e == ServiceTransaction(d)
<1>1. Sane(t) /\ Kept(d, t, {"ustat", "timer"}) /\ Taken(d, t) /\ t.timer > 0
  BY TimedEffect DEF Ep0Inv
<1>2. e = CtrlEPService(c, h.pipe, h.b) /\ h \in Entry
  BY TakenEffect, Ep1Pipes DEF Ep0Inv
<1>3. t.bd = d.bd /\ t.ustat = Tail(d.ustat)
  BY <1>1 DEF Kept, Fields, Taken
<1>4. e = OutHandler(k)
  BY <1>2, <1>3 DEF CtrlEPService
<1>5. h.b \in Bit /\ h.pipe = "out0" /\ ~d.bd["out0"][h.b].setup
  BY <1>2 DEF Entry
<1>6. DOMAIN t = Fields
  BY <1>1 DEF Sane, IsDev
<1>7. IsDev(k) /\ Kept(t, k, {"cur", "next"}) /\ k.cur = h.b /\ k.next = 1 - h.b
  <2>. HIDE DEF t, h
  <2>1. IsDev(k)
    BY <1>6 DEF IsDev
  <2>2. k.cur = h.b /\ k.next = 1 - h.b
    BY <1>6 DEF Fields, Advance
  <2>3. Kept(t, k, {"cur", "next"})
    BY <1>6 DEF Kept
  <2>. QED BY <2>1, <2>2, <2>3
<1>. HIDE DEF c, t, k, e
<1>8. 1 \in 1 .. Len(d.ustat) /\ Len(d.ustat) \in Nat /\ Len(d.ustat) > 0
  BY <1>1, TakenWaits DEF Ep0Inv
<1>9. d.pktDis => Len(d.ustat) # 1
  BY <1>5 DEF Ep0Inv, SetupLast, h
<1>10. h.b = (IF d.pktDis THEN d.sie["out0"] ELSE 1 - d.sie["out0"]) /\ ~d.bd["out0"][h.b].own
  BY <1>5, <1>8, <1>9 DEF Ep0Inv, OutTurn, h
<1>11. Sane(k)
  <2>1. 1 - h.b \in Bit
    BY <1>5 DEF Bit
  <2>. QED BY <1>1, <1>5, <1>7, <2>1 DEF Sane, Kept, Fields, Flags
<1>12. Kept(d, k, {"ustat", "timer", "cur", "next"})
  BY <1>1, <1>7 DEF Kept
<1>13. /\ k.sie = d.sie /\ k.bd = d.bd /\ k.pin = d.pin /\ k.flag1 = d.flag1 /\ k.flag2 = d.flag2
       /\ k.pktDis = d.pktDis /\ k.both = d.both /\ k.transfer = d.transfer
  BY <1>12 DEF Kept, Fields
<1>14. k.ustat = t.ustat /\ k.timer = t.timer
  BY <1>7 DEF Kept, Fields
<1>15. Sane(e) /\ Kept(k, e, OutFields) /\ OutDone(k, e)
  <2>1. Stage0(k)
    BY <1>13 DEF Ep0Inv, Stage, Stage0
  <2>. QED BY <1>4, <1>11, <2>1, OutEffect
<1>16. Kept(d, e, OutFields \cup {"ustat", "timer", "cur", "next"})
  BY <1>12, <1>15 DEF Kept
<1>17. /\ e.ustat = t.ustat /\ e.timer = t.timer /\ e.sie = d.sie /\ e.pktDis = d.pktDis
       /\ e.pin = d.pin
  BY <1>13, <1>14, <1>15 DEF Kept, Fields, OutFields
<1>18. /\ Stage0(e) /\ ~e.both
       /\ d.flag1 => e.flag1 /\ e.bd["in0"] = d.bd["in0"]
       /\ \A q \in Pipes1 : e.bd[q] = d.bd[q]
       /\ e.bd["in0"][1 - d.pin] = d.bd["in0"][1 - d.pin]
       /\ IF d.both THEN e.bd["out0"] = d.bd["out0"]
          ELSE e.bd["out0"][1 - h.b].own /\ e.bd["out0"][1 - (1 - h.b)] = d.bd["out0"][1 - (1 - h.b)]
  BY <1>7, <1>13, <1>15 DEF OutDone
<1>19. Taken(d, e) /\ Sane(d)
  BY <1>1, <1>17 DEF Taken, Ep0Inv
<1>25. StatusDue(d) => StatusDue(e)
  <2>1. e.pin = k.pin
    BY <1>13, <1>17
  <2>. QED BY <1>13, <1>15, <2>1 DEF OutDone, StatusDue
<1>20. (Waits(e, "in0") => Waits(d, "in0")) /\ (Waits(d, "in0") => Waits(e, "in0"))
  BY <1>5, <1>19, TakenWaits, Ep0Pipes DEF h
<1>21. InTurn(e)
  <2>1. Waits(d, "in0") => e.bd["in0"] = d.bd["in0"]
    BY <1>18 DEF Ep0Inv, Stage
  <2>. QED BY <1>17, <1>18, <1>20, <2>1 DEF Ep0Inv, InTurn
<1>22. Stage(e)
  BY <1>1, <1>17, <1>18, <1>20 DEF Ep0Inv, Stage
<1>23. CASE d.pktDis
  <2>1. d.both
    <3>1. Len(d.ustat) \in 1 .. Len(d.ustat) /\ 1 < Len(d.ustat)
      <4>. DEFINE n == Len(d.ustat)
      <4>1. n \in Nat /\ n > 0 /\ n # 1
        BY <1>8, <1>9, <1>23
      <4>. HIDE DEF n
      <4>2. n \in 1 .. n /\ 1 < n
        BY <4>1
      <4>. QED BY <4>2 DEF n
    <3>2. d.ustat[Len(d.ustat)].pipe = "out0"
      BY <1>23 DEF Ep0Inv, SetupLast
    <3>. QED BY <1>5, <1>8, <3>1, <3>2 DEF Ep0Inv, OneWaits, h
  <2>2. e.bd["out0"] = d.bd["out0"]
    BY <1>18, <2>1
  <2>3. OneWaits(e) /\ SetupLast(e) /\ OutTurn(e)
    BY <1>5, <1>9, <1>17, <1>19, <2>2, TakenOrder DEF h
  <2>4. Waits(e, "out0")
    <3>1. Len(e.ustat) = Len(d.ustat) - 1
      BY <1>19, TakenWaits
    <3>2. Len(e.ustat) \in 1 .. Len(e.ustat)
      <4>. DEFINE n == Len(d.ustat)
                  m == Len(e.ustat)
      <4>1. n \in Nat /\ n > 0 /\ m = n - 1 /\ n # 1
        BY <1>8, <1>9, <1>23, <3>1
      <4>. HIDE DEF n, m
      <4>2. m \in 1 .. m
        BY <4>1
      <4>. QED BY <4>2 DEF m
    <3>3. e.ustat[Len(e.ustat)].pipe = "out0"
      BY <1>17, <1>23, <2>3 DEF SetupLast
    <3>. QED BY <3>2, <3>3 DEF Waits
  <2>5. OutReady(e)
    BY <1>17, <1>23, <2>4 DEF OutReady
  <2>. QED BY <1>15, <1>16, <1>18, <1>19, <1>21, <1>22, <1>23, <1>25, <2>3, <2>5 DEF e, Ep0Inv
<1>24. CASE ~d.pktDis
  <2>1. \A i \in 1 .. Len(e.ustat) : e.ustat[i].pipe # "out0"
    BY <1>5, <1>19, <1>24, TakenOnly DEF h
  <2>2. ~Waits(e, "out0") /\ OutTurn(e)
    BY <2>1 DEF Waits, OutTurn
  <2>3. SetupLast(e)
    BY <1>17, <1>24 DEF SetupLast
  <2>4. OneWaits(e)
    <3>1. \A i \in 1 .. Len(e.ustat) : i + 1 \in 1 .. Len(d.ustat) /\ e.ustat[i] = d.ustat[i + 1]
      BY <1>19, TakenWaits
    <3>. SUFFICES ASSUME NEW i \in 1 .. Len(e.ustat), NEW j \in 1 .. Len(e.ustat), i < j,
                         e.ustat[i].pipe = "in0", e.ustat[j].pipe = "in0"
         PROVE  FALSE
      BY <2>1 DEF OneWaits
    <3>. DEFINE m == i + 1
                n == j + 1
    <3>2. m < n
      OBVIOUS
    <3>3. m \in 1 .. Len(d.ustat) /\ n \in 1 .. Len(d.ustat) /\ e.ustat[i] = d.ustat[m] /\ e.ustat[j] = d.ustat[n]
      BY <3>1
    <3>. HIDE DEF m, n
    <3>. QED BY <3>2, <3>3 DEF Ep0Inv, OneWaits
  <2>5. /\ h.b = 1 - d.sie["out0"] /\ 1 - h.b = d.sie["out0"]
        /\ 1 - (1 - h.b) = 1 - d.sie["out0"]
    <3>1. d.sie["out0"] \in Bit
      BY Ep0Pipes DEF Ep0Inv, Sane
    <3>. QED BY <1>10, <1>24, <3>1 DEF Bit
  <2>6. Waits(d, "out0")
    BY <1>5, <1>8 DEF Waits, h
  <2>7. e.bd["out0"][d.sie["out0"]].own /\ ~e.bd["out0"][1 - d.sie["out0"]].own
    <3>1. CASE d.both
      BY <1>10, <1>18, <1>24, <2>5, <2>6, <3>1 DEF Ep0Inv, OutReady
    <3>2. CASE ~d.both
      BY <1>10, <1>18, <2>5, <3>2
    <3>. QED BY <3>1, <3>2
  <2>8. OutReady(e)
    BY <1>17, <1>18, <2>2, <2>7 DEF OutReady
  <2>. QED BY <1>15, <1>16, <1>18, <1>19, <1>21, <1>22, <1>25, <2>2, <2>3, <2>4, <2>8 DEF e, Ep0Inv
<1>. QED BY <1>23, <1>24

-----------------------------------------------------------------------------
(* What the application relies on, and the device's whole invariant.       *)

\* Endpoint 1 as the application relies on it: the packet it has not taken, or
\* the descriptor that waits for one, unless a halt has taken that away.
Ep1Inv(d) ==
  /\ d.state = "CONFIGURED" => d.enabled
  /\ d.enabled => d.cpu \in [Pipes1 -> Bit]
  /\ d.enabled /\ "out1" \notin d.events =>
       d.fresh \/ (d.outHandle \in Bit /\ d.bd["out1"][d.outHandle].own)

DevInv(d) == Ep0Inv(d) /\ Ep1Inv(d)

\* The application's endpoint is as it was.
Ep1Still(d, e) ==
  /\ e.state = "CONFIGURED" => d.state = "CONFIGURED"
  /\ e.enabled = d.enabled /\ e.cpu = d.cpu /\ e.events = d.events /\ e.fresh = d.fresh
  /\ e.outHandle = d.outHandle /\ e.bd["out1"] = d.bd["out1"]

\* What does not touch the application's endpoint keeps its invariant.
LEMMA Ep1StillPreserves ==
  ASSUME NEW d, Ep1Inv(d), NEW e, Ep1Still(d, e)
  PROVE  Ep1Inv(e)
BY DEF Ep1Inv, Ep1Still

\* Nor does a SETUP, a halt or a configuration included.
LEMMA Endpoint1Preserves ==
  ASSUME NEW d, Sane(d), Ep1Inv(d), NEW e, Sane(e), Endpoint1(d, e)
  PROVE  Ep1Inv(e)
<1>1. CASE e.state = "ADDRESS" /\ ~e.enabled
  BY <1>1 DEF Ep1Inv
<1>2. CASE e.state = "CONFIGURED" /\ Initialized(e)
  BY <1>2 DEF Ep1Inv, Initialized, Bit
<1>3. CASE /\ e.state \in {d.state, "ADR_PENDING"}
           /\ e.enabled = d.enabled /\ e.fresh = d.fresh /\ e.outHandle = d.outHandle
           /\ Halting1(d, e)
  <2>1. e.state = "CONFIGURED" => e.enabled
    BY <1>3 DEF Ep1Inv
  <2>2. e.enabled => e.cpu \in [Pipes1 -> Bit]
    <3>1. ASSUME e.enabled PROVE \A q \in Pipes1 : e.cpu[q] \in Bit
      <4>1. \A q \in Pipes1 : d.cpu[q] \in Bit
        BY <1>3, <3>1 DEF Ep1Inv
      <4>. QED BY <1>3, <4>1 DEF Halting1
    <3>2. e.cpu \in [Pipes1 -> Bit \cup {Null}]
      BY DEF Sane
    <3>. QED BY <3>1, <3>2
  <2>3. e.enabled /\ "out1" \notin e.events =>
          e.fresh \/ (e.outHandle \in Bit /\ e.bd["out1"][e.outHandle].own)
    <3>1. d.events \subseteq e.events /\ "out1" \in Pipes1
      BY <1>3, Ep1Pipes DEF Halting1
    <3>2. \A x \in Bit : d.bd["out1"][x].own => e.bd["out1"][x].own \/ "out1" \in e.events
      BY <1>3, <3>1 DEF Halting1
    <3>. QED BY <1>3, <3>1, <3>2 DEF Ep1Inv
  <2>. QED BY <2>1, <2>2, <2>3 DEF Ep1Inv
<1>. QED BY <1>1, <1>2, <1>3 DEF Endpoint1

\* Whatever transaction the handler serves.
LEMMA ServicePreserves ==
  ASSUME NEW d, DevInv(d), d.ustat # <<>>
  PROVE  DevInv(ServiceTransaction(d))
<1>. DEFINE e == ServiceTransaction(d)
            h == d.ustat[1]
<1>1. h \in Entry /\ "out1" \in Pipes1 /\ Ep0Inv(d) /\ Ep1Inv(d) /\ Sane(d)
  BY TakenEffect, Ep1Pipes DEF DevInv, Ep0Inv
<1>. HIDE DEF e, h
<1>2. CASE h.pipe \in Pipes1
  <2>1. Ep0Inv(e) /\ Kept(d, e, {"ustat", "pp"})
    BY <1>1, <1>2, ServiceEp1Preserves DEF e, h
  <2>2. Ep1Still(d, e)
    BY <2>1 DEF Kept, Fields, Ep1Still
  <2>. QED BY <1>1, <2>1, <2>2, Ep1StillPreserves DEF DevInv, e
<1>3. CASE h.pipe = "in0"
  <2>1. /\ Ep0Inv(e) /\ Kept(d, e, InFields \cup {"ustat", "timer"})
        /\ \A q \in Pipes1 : e.bd[q] = d.bd[q]
        /\ e.state = "CONFIGURED" => d.state = "CONFIGURED"
    BY <1>1, <1>3, ServiceIn0Preserves DEF e, h
  <2>2. Ep1Still(d, e)
    BY <1>1, <2>1 DEF Kept, Fields, InFields, Ep1Still
  <2>. QED BY <1>1, <2>1, <2>2, Ep1StillPreserves DEF DevInv, e
<1>4. CASE h.pipe = "out0" /\ d.bd["out0"][h.b].setup
  <2>1. Ep0Inv(e) /\ Endpoint1(d, e)
    BY <1>1, <1>4, ServiceSetupPreserves DEF e, h
  <2>2. Sane(e)
    BY <2>1 DEF Ep0Inv
  <2>. QED BY <1>1, <2>1, <2>2, Endpoint1Preserves DEF DevInv, e
<1>5. CASE h.pipe = "out0" /\ ~d.bd["out0"][h.b].setup
  <2>1. /\ Ep0Inv(e) /\ Kept(d, e, OutFields \cup {"ustat", "timer", "cur", "next"})
        /\ \A q \in Pipes1 : e.bd[q] = d.bd[q]
    BY <1>1, <1>5, ServiceOut0Preserves DEF e, h
  <2>2. Ep1Still(d, e)
    BY <1>1, <2>1 DEF Kept, Fields, OutFields, Ep1Still
  <2>. QED BY <1>1, <2>1, <2>2, Ep1StillPreserves DEF DevInv, e
<1>6. h.pipe \in Pipes1 \cup {"in0", "out0"}
  BY <1>1 DEF Entry, Pipes
<1>. QED BY <1>2, <1>3, <1>4, <1>5, <1>6 DEF e

\* A device that has just been initialised, or reset.
LEMMA FreshDevice ==
  ASSUME NEW e, Sane(e), ResetDone(e), e.both <=> e.transfer = "TX", e.state # "CONFIGURED"
  PROVE  DevInv(e)
BY ResetPreserves DEF DevInv, Ep1Inv, ResetDone

\* Fields no invariant is about.
LEMMA UntypedPreserves ==
  ASSUME NEW d, DevInv(d), NEW e, IsDev(e),
         Kept(d, e, {"state", "stallIF", "tx", "boot"}), e.state = "CONFIGURED" => d.state = "CONFIGURED"
  PROVE  DevInv(e)
<1>1. Kept(d, e, Untyped)
  BY DEF Kept, Untyped
<1>2. Sane(e) /\ e.bd = d.bd
  BY <1>1, SaneStill DEF DevInv, Ep0Inv
<1>3. Ep0Still(d, e) /\ Ep1Still(d, e)
  BY <1>2 DEF Kept, Fields, Ep0Still, Ep1Still
<1>. QED BY <1>2, <1>3, StillPreserves, Ep1StillPreserves DEF DevInv

\* The SIE may do a transaction of this pipe.
Free(d, p) == ~d.pktDis /\ d.bd[p][d.sie[p]].own /\ ~d.bd[p][d.sie[p]].stall

\* A packet has moved; an OUT packet of endpoint 1 is the application's news.
LEMMA CompletedPreserves ==
  ASSUME NEW d, DevInv(d), NEW p \in Pipes, Free(d, p)
  PROVE  LET c == Completed(d, p)
         IN  Ep0Inv(c) /\ Kept(d, c, {"bd", "sie", "ustat"}) /\ (p # "out1" => DevInv(c))
<1>. DEFINE c == Completed(d, p)
<1>1. Ep0Inv(d) /\ Sane(d) /\ Ep1Inv(d)
  BY DEF DevInv, Ep0Inv
<1>2. /\ Sane(c) /\ Kept(d, c, {"bd", "sie", "ustat"}) /\ CompletedDone(d, c, p)
      /\ ~c.bd[p][d.sie[p]].setup
  BY <1>1, CompletedEffect
<1>. HIDE DEF c
<1>3. Ep0Inv(c)
  <2>1. CASE p \in Pipes1
    BY <1>1, <1>2, <2>1, CompletedEp1Preserves DEF Free
  <2>2. CASE p = "in0"
    BY <1>1, <1>2, <2>2, CompletedIn0Preserves DEF Free
  <2>3. CASE p = "out0"
    BY <1>1, <1>2, <2>3, CompletedOut0Preserves DEF Free
  <2>. QED BY <2>1, <2>2, <2>3 DEF Pipes
<1>4. ASSUME p # "out1" PROVE Ep1Inv(c)
  <2>1. Ep1Still(d, c)
    BY <1>2, <1>4, Ep1Pipes DEF Kept, Fields, CompletedDone, Ep1Still
  <2>. QED BY <1>1, <2>1, Ep1StillPreserves
<1>. QED BY <1>2, <1>3, <1>4 DEF c, DevInv

\* So has one of the data stage, with its length.
LEMMA DataOutPreserves ==
  ASSUME NEW d, DevInv(d), Free(d, "out0"), NEW n
  PROVE  LET e == [Completed(d, "out0") EXCEPT !.bd["out0"][d.sie["out0"]].cnt = n]
         IN  DevInv(e) /\ Kept(d, e, {"bd", "sie", "ustat"}) /\ CompletedDone(d, e, "out0")
<1>. DEFINE c == Completed(d, "out0")
            x == d.sie["out0"]
            v == [c.bd["out0"][x] EXCEPT !.cnt = n]
            e == [c EXCEPT !.bd["out0"][x].cnt = n]
<1>1. Ep0Inv(d) /\ Sane(d) /\ Ep1Inv(d) /\ "out0" \in Pipes /\ "out0" \notin Pipes1
  BY Ep0Pipes, Ep1Pipes DEF DevInv, Ep0Inv
<1>2. /\ Sane(c) /\ Kept(d, c, {"bd", "sie", "ustat"}) /\ CompletedDone(d, c, "out0")
      /\ ~c.bd["out0"][x].setup
  BY <1>1, CompletedEffect
<1>3. e = [c EXCEPT !.bd["out0"][x] = v]
  OBVIOUS
<1>4. x \in Bit
  BY <1>1 DEF Sane
<1>. HIDE DEF c, x, e
<1>5. IsBd(c.bd["out0"][x])
  BY <1>1, <1>2, <1>4, BdOf DEF Sane
<1>6. IsBd(v) /\ v.own = c.bd["out0"][x].own /\ v.stall = c.bd["out0"][x].stall
      /\ v.setup = c.bd["out0"][x].setup /\ v.dts = c.bd["out0"][x].dts
  BY <1>5 DEF IsBd, BdFields
<1>. HIDE DEF v
<1>7. Sane(e) /\ Kept(c, e, {"bd"}) /\ Put(c, e, "out0", x, v)
  BY <1>1, <1>2, <1>3, <1>4, <1>6, PutStep
<1>8. e.sie = c.sie /\ e.ustat = c.ustat
  BY <1>7 DEF Kept, Fields
<1>9. CompletedDone(d, e, "out0") /\ ~e.bd["out0"][x].setup
  BY <1>2, <1>6, <1>7, <1>8 DEF CompletedDone, Put, x
<1>10. Kept(d, e, {"bd", "sie", "ustat"})
  BY <1>2, <1>7 DEF Kept
<1>11. Ep0Inv(e)
  BY <1>1, <1>7, <1>9, <1>10, CompletedOut0Preserves DEF Free, x
<1>12. Ep1Still(d, e)
  BY <1>9, <1>10, Ep1Pipes, Ep0Pipes DEF Kept, Fields, CompletedDone, Ep1Still
<1>. QED BY <1>1, <1>9, <1>10, <1>11, <1>12, Ep1StillPreserves DEF DevInv, e, c, x

\* The packet of a command.
LEMMA ReportOutPreserves ==
  ASSUME NEW d, DevInv(d), Free(d, "out1"), NEW r
  PROVE  DevInv([Completed(d, "out1") EXCEPT !.rx = r, !.fresh = TRUE])
<1>. DEFINE c == Completed(d, "out1")
            e == [c EXCEPT !.rx = r, !.fresh = TRUE]
<1>1. Ep0Inv(c) /\ Kept(d, c, {"bd", "sie", "ustat"})
  BY CompletedPreserves, Ep1Pipes
<1>. HIDE DEF c
<1>2. Sane(c) /\ DOMAIN c = Fields
  BY <1>1 DEF Ep0Inv, Sane, IsDev
<1>3. IsDev(e) /\ Kept(c, e, {"rx", "fresh"}) /\ e.fresh = TRUE
  <2>1. IsDev(e)
    BY <1>2 DEF IsDev
  <2>2. Kept(c, e, {"rx", "fresh"})
    BY <1>2 DEF Kept
  <2>. QED BY <1>2, <2>1, <2>2 DEF Fields
<1>. HIDE DEF e
<1>4. Kept(c, e, Untyped)
  BY <1>3 DEF Kept, Untyped
<1>5. Sane(e) /\ e.bd = c.bd
  BY <1>2, <1>3, <1>4, SaneStill
<1>6. Ep0Still(c, e)
  BY <1>3, <1>5 DEF Kept, Fields, Ep0Still
<1>7. e.state = d.state /\ e.enabled = d.enabled /\ e.cpu = d.cpu
  BY <1>1, <1>3 DEF Kept, Fields
<1>8. Ep1Inv(e)
  BY <1>3, <1>7 DEF DevInv, Ep1Inv
<1>. QED BY <1>1, <1>5, <1>6, <1>8, StillPreserves DEF DevInv, e, c

\* The packet of an answer.
LEMMA ReportInPreserves ==
  ASSUME NEW d, DevInv(d), Free(d, "in1"), NEW r
  PROVE  DevInv([Completed(d, "in1") EXCEPT !.tx = r])
<1>. DEFINE c == Completed(d, "in1")
            e == [c EXCEPT !.tx = r]
<1>1. DevInv(c)
  BY CompletedPreserves, Ep1Pipes
<1>. HIDE DEF c
<1>2. DOMAIN c = Fields
  BY <1>1 DEF DevInv, Ep0Inv, Sane, IsDev
<1>3. IsDev(e) /\ Kept(c, e, {"state", "stallIF", "tx", "boot"}) /\ e.state = c.state
  <2>1. IsDev(e)
    BY <1>2 DEF IsDev
  <2>2. Kept(c, e, {"state", "stallIF", "tx", "boot"})
    BY <1>2 DEF Kept
  <2>. QED BY <1>2, <2>1, <2>2 DEF Fields
<1>. HIDE DEF e
<1>. QED BY <1>1, <1>3, UntypedPreserves DEF e, c

\* The application hands over a descriptor and keeps its handle.
LEMMA TransferPreserves ==
  ASSUME NEW d, DevInv(d), NEW p \in Pipes1
  PROVE  LET t == TransferOnePacket(d, p)
         IN  /\ Ep0Inv(t) /\ Kept(d, t, {"bd", "cpu"})
             /\ t.enabled => t.cpu \in [Pipes1 -> Bit]
             /\ d.cpu[p] \in Bit => t.bd[p][d.cpu[p]].own
             /\ p # "out1" => t.bd["out1"] = d.bd["out1"]
<1>. DEFINE t == TransferOnePacket(d, p)
<1>1. /\ Ep0Inv(d) /\ Sane(d) /\ d.cpu \in [Pipes1 -> Bit \cup {Null}]
      /\ d.enabled => d.cpu \in [Pipes1 -> Bit]
  BY DEF DevInv, Ep0Inv, Ep1Inv, Sane
<1>2. CASE d.cpu[p] = Null
  <2>1. t = d
    BY <1>2 DEF TransferOnePacket
  <2>. QED BY <1>1, <1>2, <2>1, Ep1Pipes DEF Kept
<1>3. CASE d.cpu[p] # Null
  <2>1. /\ Sane(t) /\ Kept(d, t, {"bd", "cpu"}) /\ OnlyPipe(d, t, p)
        /\ d.cpu[p] \in Bit /\ t.cpu = [d.cpu EXCEPT ![p] = 1 - d.cpu[p]]
        /\ IsGiven(d.bd[p][d.cpu[p]], t.bd[p][d.cpu[p]], FALSE, d.bd[p][d.cpu[p]].dts)
    BY <1>1, <1>3, TransferEffect
  <2>. HIDE DEF t
  <2>2. /\ t.bd["in0"] = d.bd["in0"] /\ t.bd["out0"] = d.bd["out0"]
        /\ p # "out1" => t.bd["out1"] = d.bd["out1"]
    BY <2>1, Ep0Pipes, Ep1Pipes DEF OnlyPipe
  <2>3. Ep0Still(d, t) /\ t.enabled = d.enabled
    BY <2>1, <2>2 DEF Kept, Fields, Ep0Still
  <2>4. Ep0Inv(t)
    BY <1>1, <2>1, <2>3, StillPreserves
  <2>5. t.enabled => t.cpu \in [Pipes1 -> Bit]
    <3>1. 1 - d.cpu[p] \in Bit
      BY <2>1 DEF Bit
    <3>. QED BY <1>1, <2>1, <2>3, <3>1
  <2>. QED BY <2>1, <2>2, <2>4, <2>5 DEF t, IsGiven
<1>. QED BY <1>2, <1>3

\* BOOTLOADER_IDLE takes a packet and asks for the next.
LEMMA TakePreserves ==
  ASSUME NEW d, DevInv(d)
  PROVE  DevInv([TransferOnePacket(d, "out1") EXCEPT
                   !.outHandle = d.cpu["out1"], !.boot = "busy", !.fresh = FALSE])
<1>. DEFINE t == TransferOnePacket(d, "out1")
            x == d.cpu["out1"]
            e == [t EXCEPT !.outHandle = x, !.boot = "busy", !.fresh = FALSE]
<1>1. /\ Ep0Inv(t) /\ Kept(d, t, {"bd", "cpu"})
      /\ t.enabled => t.cpu \in [Pipes1 -> Bit]
      /\ x \in Bit => t.bd["out1"][x].own
  BY TransferPreserves, Ep1Pipes
<1>. HIDE DEF t
<1>2. Sane(t) /\ DOMAIN t = Fields
  BY <1>1 DEF Ep0Inv, Sane, IsDev
<1>3. x \in Bit \cup {Null} /\ (d.enabled => x \in Bit) /\ (d.state = "CONFIGURED" => d.enabled)
  BY Ep1Pipes DEF DevInv, Ep0Inv, Ep1Inv, Sane
<1>. HIDE DEF x
<1>4. IsDev(e)
  BY <1>2 DEF IsDev
<1>5. Kept(t, e, {"outHandle", "boot", "fresh"})
  BY <1>2 DEF Kept
<1>6. e.outHandle = x
  BY <1>2 DEF Fields
<1>. HIDE DEF e
<1>7. Sane(e) /\ e.bd = t.bd
  <2>1. Kept(t, e, Untyped \cup {"cpu", "outHandle", "inHandle"})
    BY <1>5 DEF Kept, Untyped
  <2>2. e.cpu = t.cpu /\ e.inHandle = t.inHandle
    BY <1>5 DEF Kept, Fields
  <2>3. e.cpu \in [Pipes1 -> Bit \cup {Null}] /\ e.inHandle \in Bit \cup {Null}
    BY <1>2, <2>2 DEF Sane
  <2>. QED BY <1>2, <1>3, <1>4, <1>6, <2>1, <2>3, SanePlus
<1>8. Ep0Still(t, e)
  BY <1>5, <1>7 DEF Kept, Fields, Ep0Still
<1>9. e.state = d.state /\ e.enabled = d.enabled /\ t.enabled = d.enabled /\ e.cpu = t.cpu
  BY <1>1, <1>5 DEF Kept, Fields
<1>10. Ep1Inv(e)
  BY <1>1, <1>3, <1>6, <1>7, <1>9 DEF Ep1Inv
<1>. QED BY <1>1, <1>7, <1>8, <1>10, StillPreserves DEF DevInv, e, t, x

\* An answer is handed over.
LEMMA AnswerPreserves ==
  ASSUME NEW d, DevInv(d), NEW r
  PROVE  DevInv([TransferOnePacket(d, "in1") EXCEPT
                   !.tx = r, !.inHandle = d.cpu["in1"], !.boot = "idle"])
<1>. DEFINE t == TransferOnePacket(d, "in1")
            x == d.cpu["in1"]
            e == [t EXCEPT !.tx = r, !.inHandle = x, !.boot = "idle"]
<1>1. /\ Ep0Inv(t) /\ Kept(d, t, {"bd", "cpu"})
      /\ t.enabled => t.cpu \in [Pipes1 -> Bit]
      /\ t.bd["out1"] = d.bd["out1"]
  BY TransferPreserves, Ep1Pipes
<1>. HIDE DEF t
<1>2. Sane(t) /\ DOMAIN t = Fields
  BY <1>1 DEF Ep0Inv, Sane, IsDev
<1>3. x \in Bit \cup {Null}
  BY Ep1Pipes DEF DevInv, Ep0Inv, Sane
<1>. HIDE DEF x
<1>4. IsDev(e)
  BY <1>2 DEF IsDev
<1>5. Kept(t, e, {"inHandle", "boot", "tx"})
  BY <1>2 DEF Kept
<1>6. e.inHandle = x
  BY <1>2 DEF Fields
<1>. HIDE DEF e
<1>7. Sane(e) /\ e.bd = t.bd
  <2>1. Kept(t, e, Untyped \cup {"cpu", "outHandle", "inHandle"})
    BY <1>5 DEF Kept, Untyped
  <2>2. e.cpu = t.cpu /\ e.outHandle = t.outHandle
    BY <1>5 DEF Kept, Fields
  <2>3. e.cpu \in [Pipes1 -> Bit \cup {Null}] /\ e.outHandle \in Bit \cup {Null}
    BY <1>2, <2>2 DEF Sane
  <2>. QED BY <1>2, <1>3, <1>4, <1>6, <2>1, <2>3, SanePlus
<1>8. Ep0Still(t, e)
  BY <1>5, <1>7 DEF Kept, Fields, Ep0Still
<1>9. /\ e.state = d.state /\ e.enabled = d.enabled /\ t.enabled = d.enabled /\ e.cpu = t.cpu
      /\ e.events = d.events /\ e.fresh = d.fresh /\ e.outHandle = d.outHandle
  BY <1>1, <1>5 DEF Kept, Fields
<1>10. Ep1Inv(e)
  BY <1>1, <1>7, <1>9 DEF DevInv, Ep1Inv
<1>. QED BY <1>1, <1>7, <1>8, <1>10, StillPreserves DEF DevInv, e, t, x
-----------------------------------------------------------------------------
(* Endpoint 1's turns: the SIE, the firmware's pointers and its handles.   *)

Armed(d, p, x) == d.bd[p][x].own /\ ~d.bd[p][x].stall

Handle(d, p) == IF p = "out1" THEN d.outHandle ELSE d.inHandle

OneOf(d, p) ==
  \A i, j \in 1 .. Len(d.ustat) : d.ustat[i].pipe = p /\ d.ustat[j].pipe = p => i = j

\* A pipe of endpoint 1.  The SIE has one descriptor of it at the most, the one
\* whose turn it is; a packet it has moved is in the FIFO until the handler has
\* counted it; and a packet on its way is the one the application's handle names.
Turns1(d, p) ==
  /\ OneOf(d, p)
  /\ Waits(d, p) => d.sie[p] = 1 - d.pp[p] /\ ~d.bd[p][0].own /\ ~d.bd[p][1].own
  /\ ~Waits(d, p) => d.sie[p] = d.pp[p] /\ ~d.bd[p][1 - d.pp[p]].own
  /\ d.cpu[p] = IF Waits(d, p) \/ Armed(d, p, d.pp[p]) THEN 1 - d.pp[p] ELSE d.pp[p]
  /\ Armed(d, p, d.pp[p]) => Handle(d, p) = d.pp[p]
  /\ d.bd[p][0].dts # d.bd[p][1].dts

\* Both of them; and no packet overwrites one the application has not taken.
Turns(d) ==
  /\ d.enabled => \A p \in Pipes1 : Turns1(d, p)
  /\ ~d.enabled => \A p \in Pipes1 : ~Waits(d, p)
  /\ d.enabled => \A x \in Bit : Armed(d, "out1", x) => ~d.fresh

\* A pipe nothing happens to.
Still1(d, e, p) ==
  /\ e.sie[p] = d.sie[p] /\ e.bd[p] = d.bd[p] /\ e.pp[p] = d.pp[p] /\ e.cpu[p] = d.cpu[p]
  /\ Handle(e, p) = Handle(d, p)
  /\ OneOf(d, p) => OneOf(e, p)
  /\ Waits(e, p) <=> Waits(d, p)

\* It keeps its turns.
LEMMA Turns1Still ==
  ASSUME NEW d, NEW e, NEW p, Turns1(d, p), Still1(d, e, p)
  PROVE  Turns1(e, p)
BY DEF Turns1, Still1, Armed

\* So do both, when nothing happens to either.
LEMMA TurnsStill ==
  ASSUME NEW d, NEW e, Turns(d), \A p \in Pipes1 : Still1(d, e, p),
         e.enabled = d.enabled, e.fresh = d.fresh
  PROVE  Turns(e)
<1>1. e.enabled => \A p \in Pipes1 : Turns1(e, p)
  BY Turns1Still DEF Turns
<1>2. ~e.enabled => \A p \in Pipes1 : ~Waits(e, p)
  BY DEF Turns, Still1
<1>3. e.enabled => \A x \in Bit : Armed(e, "out1", x) => ~e.fresh
  BY Ep1Pipes DEF Turns, Still1, Armed
<1>. QED BY <1>1, <1>2, <1>3 DEF Turns

\* The fields of endpoint 1 kept, and the FIFO too.
LEMMA Same1Still ==
  ASSUME NEW d, NEW e, e.ustat = d.ustat, e.sie = d.sie, e.pp = d.pp, e.cpu = d.cpu,
         e.outHandle = d.outHandle, e.inHandle = d.inHandle,
         \A p \in Pipes1 : e.bd[p] = d.bd[p]
  PROVE  \A p \in Pipes1 : Still1(d, e, p)
BY DEF Still1, OneOf, Waits, Handle

\* A transaction adds an entry for its own pipe only.
LEMMA CompletedOne ==
  ASSUME NEW d, Sane(d), NEW p \in Pipes, NEW e, CompletedDone(d, e, p), NEW q \in Pipes,
         OneOf(d, q), q = p => ~Waits(d, q)
  PROVE  OneOf(e, q)
<1>1. /\ Len(d.ustat) \in Nat /\ Len(e.ustat) = Len(d.ustat) + 1
      /\ e.ustat[Len(e.ustat)].pipe = p
      /\ \A i \in 1 .. Len(d.ustat) : e.ustat[i] = d.ustat[i]
  BY CompletedWaits
<1>. DEFINE n == Len(d.ustat)
            m == Len(e.ustat)
<1>2. \A i \in 1 .. m : i \in 1 .. n \/ i = m
  <2>1. n \in Nat /\ m = n + 1
    BY <1>1
  <2>. HIDE DEF n, m
  <2>. QED BY <2>1
<1>3. \A i \in 1 .. n : q = p => e.ustat[i].pipe # q
  BY <1>1 DEF Waits
<1>. SUFFICES ASSUME NEW i \in 1 .. m, NEW j \in 1 .. m, e.ustat[i].pipe = q, e.ustat[j].pipe = q
     PROVE  i = j
  BY DEF OneOf
<1>4. CASE q = p
  BY <1>2, <1>3, <1>4
<1>5. CASE q # p
  <2>1. i \in 1 .. n /\ j \in 1 .. n
    BY <1>1, <1>2, <1>5
  <2>2. d.ustat[i].pipe = q /\ d.ustat[j].pipe = q
    BY <1>1, <2>1
  <2>. QED BY <2>1, <2>2 DEF OneOf
<1>. QED BY <1>4, <1>5

\* The handler takes one of its own pipe only.
LEMMA TakenOne ==
  ASSUME NEW d, Sane(d), NEW e, Taken(d, e), NEW q \in Pipes, OneOf(d, q)
  PROVE  /\ OneOf(e, q)
         /\ d.ustat[1].pipe = q => ~Waits(e, q)
         /\ d.ustat[1].pipe # q => (Waits(e, q) <=> Waits(d, q))
<1>1. /\ Len(d.ustat) \in Nat /\ Len(d.ustat) > 0
      /\ \A i \in 1 .. Len(e.ustat) : i + 1 \in 1 .. Len(d.ustat) /\ e.ustat[i] = d.ustat[i + 1]
      /\ (Waits(e, q) => Waits(d, q)) /\ (Waits(d, q) => Waits(e, q) \/ d.ustat[1].pipe = q)
  BY TakenWaits
<1>2. \A i, j \in 1 .. Len(e.ustat) : e.ustat[i].pipe = q /\ e.ustat[j].pipe = q => i = j
  <2>. TAKE i, j \in 1 .. Len(e.ustat)
  <2>. HAVE e.ustat[i].pipe = q /\ e.ustat[j].pipe = q
  <2>. DEFINE k == i + 1
              l == j + 1
  <2>1. /\ k \in 1 .. Len(d.ustat) /\ l \in 1 .. Len(d.ustat)
        /\ e.ustat[i] = d.ustat[k] /\ e.ustat[j] = d.ustat[l]
    BY <1>1
  <2>. HIDE DEF k, l
  <2>2. k = l
    BY <2>1 DEF OneOf
  <2>. QED BY <2>2 DEF k, l
<1>3. ASSUME d.ustat[1].pipe = q, NEW i \in 1 .. Len(e.ustat), e.ustat[i].pipe = q PROVE FALSE
  <2>1. 1 \in 1 .. Len(d.ustat) /\ i + 1 \in 1 .. Len(d.ustat) /\ d.ustat[i + 1].pipe = q
    BY <1>1, <1>3
  <2>2. i + 1 = 1
    BY <1>3, <2>1 DEF OneOf
  <2>. QED BY <2>2
<1>. QED BY <1>1, <1>2, <1>3 DEF OneOf, Waits
\* A transaction of endpoint 0 is none of endpoint 1.
LEMMA CompletedTurns0 ==
  ASSUME NEW d, Sane(d), Turns(d), NEW p \in {"in0", "out0"}, NEW e,
         Kept(d, e, {"bd", "sie", "ustat", "setup", "pktDis"}), CompletedDone(d, e, p)
  PROVE  Turns(e)
<1>1. /\ e.pp = d.pp /\ e.cpu = d.cpu /\ e.outHandle = d.outHandle /\ e.inHandle = d.inHandle
      /\ e.enabled = d.enabled /\ e.fresh = d.fresh
  BY DEF Kept, Fields
<1>2. ASSUME NEW q \in Pipes1 PROVE Still1(d, e, q)
  <2>1. q \in Pipes /\ p \in Pipes /\ q # p
    BY Ep1Pipes, Ep0Pipes
  <2>2. e.sie[q] = d.sie[q] /\ e.bd[q] = d.bd[q]
    BY <2>1 DEF CompletedDone, Sane
  <2>3. OneOf(d, q) => OneOf(e, q)
    BY <2>1, CompletedOne
  <2>4. Waits(e, q) <=> Waits(d, q)
    BY <2>1, CompletedWaits
  <2>. QED BY <1>1, <2>2, <2>3, <2>4 DEF Still1, Handle
<1>. QED BY <1>1, <1>2, TurnsStill

\* A packet of endpoint 1 moves: its descriptor was the firmware's next, and the
\* next one has the other toggle.
LEMMA CompletedTurns1 ==
  ASSUME NEW d, Sane(d), Turns(d), d.enabled, NEW p \in Pipes1, Armed(d, p, d.sie[p]),
         NEW e, Sane(e), Kept(d, e, {"bd", "sie", "ustat", "rx", "tx", "fresh"}), CompletedDone(d, e, p),
         p # "out1" => e.fresh = d.fresh
  PROVE  /\ Turns(e) /\ ~Waits(d, p) /\ d.sie[p] = d.pp[p] /\ Waits(e, p)
         /\ Handle(d, p) = d.sie[p] /\ e.sie[p] = 1 - d.sie[p]
         /\ e.bd[p][e.sie[p]].dts = 1 - d.bd[p][d.sie[p]].dts /\ ~e.bd[p][e.sie[p]].own
<1>1. /\ e.pp = d.pp /\ e.cpu = d.cpu /\ e.outHandle = d.outHandle /\ e.inHandle = d.inHandle
      /\ e.enabled = d.enabled
  BY DEF Kept, Fields
<1>2. p \in Pipes /\ d.sie[p] \in Bit /\ d.pp[p] \in Bit /\ e.pp[p] \in Bit
  BY <1>1, Ep1Pipes DEF Sane
<1>3. Turns1(d, p)
  BY DEF Turns
<1>4. ~Waits(d, p) /\ d.sie[p] = d.pp[p] /\ ~d.bd[p][1 - d.pp[p]].own
  BY <1>2, <1>3 DEF Turns1, Armed, Bit
<1>5. Armed(d, p, d.pp[p]) /\ d.cpu[p] = 1 - d.pp[p] /\ Handle(d, p) = d.pp[p]
  BY <1>3, <1>4 DEF Turns1
<1>6. /\ e.sie[p] = 1 - d.pp[p] /\ ~e.bd[p][d.pp[p]].own /\ ~e.bd[p][1 - d.pp[p]].own
      /\ e.bd[p][d.pp[p]].dts = d.bd[p][d.pp[p]].dts
      /\ e.bd[p][1 - d.pp[p]].dts = d.bd[p][1 - d.pp[p]].dts
  BY <1>2, <1>4 DEF CompletedDone, Sane
<1>7. OneOf(e, p)
  BY <1>2, <1>3, <1>4, CompletedOne DEF Turns1
<1>8. Waits(e, p)
  BY <1>2, CompletedWaits
<1>9. Turns1(e, p)
  <2>1. ~e.bd[p][0].own /\ ~e.bd[p][1].own /\ e.bd[p][0].dts # e.bd[p][1].dts
    <3>1. d.bd[p][0].dts # d.bd[p][1].dts
      BY <1>3 DEF Turns1
    <3>2. CASE d.pp[p] = 0
      <4>1. 1 - d.pp[p] = 1
        BY <3>2
      <4>. QED BY <1>6, <3>1, <3>2, <4>1
    <3>3. CASE d.pp[p] = 1
      <4>1. 1 - d.pp[p] = 0
        BY <3>3
      <4>. QED BY <1>6, <3>1, <3>3, <4>1
    <3>. QED BY <1>2, <3>2, <3>3 DEF Bit
  <2>2. ~Armed(e, p, e.pp[p])
    BY <1>1, <1>6 DEF Armed
  <2>. QED BY <1>1, <1>5, <1>6, <1>7, <1>8, <2>1, <2>2 DEF Turns1
<1>10. ASSUME NEW q \in Pipes1 \ {p} PROVE Turns1(e, q)
  <2>1. q \in Pipes /\ q # p
    BY Ep1Pipes
  <2>2. e.sie[q] = d.sie[q] /\ e.bd[q] = d.bd[q]
    BY <1>2, <2>1 DEF CompletedDone, Sane
  <2>3. OneOf(d, q) => OneOf(e, q)
    BY <1>2, <2>1, CompletedOne
  <2>4. Waits(e, q) <=> Waits(d, q)
    BY <1>2, <2>1, CompletedWaits
  <2>5. Still1(d, e, q)
    BY <1>1, <2>2, <2>3, <2>4 DEF Still1, Handle
  <2>6. Turns1(d, q)
    BY DEF Turns
  <2>. QED BY <2>5, <2>6, Turns1Still
<1>11. \A x \in Bit : Armed(e, "out1", x) => ~e.fresh
  <2>1. CASE p = "out1"
    BY <1>2, <1>6, <2>1 DEF Armed, Bit
  <2>2. CASE p # "out1"
    <3>1. e.bd["out1"] = d.bd["out1"]
      BY <2>2, Ep1Pipes DEF CompletedDone
    <3>. QED BY <2>2, <3>1 DEF Turns, Armed
  <2>. QED BY <2>1, <2>2
<1>12. \A q \in Pipes1 : Turns1(e, q)
  BY <1>9, <1>10
<1>13. e.bd[p][e.sie[p]].dts = 1 - d.bd[p][d.sie[p]].dts
  <2>1. IsBd(d.bd[p][0]) /\ IsBd(d.bd[p][1])
    BY <1>2, BdOf, Ep0Pipes DEF Sane, Bit
  <2>2. d.bd[p][0].dts \in Bit /\ d.bd[p][1].dts \in Bit /\ d.bd[p][0].dts # d.bd[p][1].dts
    BY <1>3, <2>1 DEF IsBd, Turns1
  <2>. QED BY <1>2, <1>4, <1>6, <2>2 DEF Bit
<1>. QED BY <1>1, <1>4, <1>5, <1>6, <1>8, <1>11, <1>12, <1>13 DEF Turns

\* A new configuration, or none, or a halt of a pipe or its end.
LEMMA RequestTurns ==
  ASSUME NEW d, Sane(d), Turns(d), NEW e, Sane(e), Request1(d, e),
         Len(e.ustat) = 0, \A p \in Pipes1 : ~Waits(d, p)
  PROVE  Turns(e)
<1>1. \A p \in Pipes : ~Waits(e, p) /\ OneOf(e, p)
  BY DEF Waits, OneOf
<1>2. d.setup.pipe \in Pipes1 /\ "out1" \in Pipes1 /\ Pipes1 \subseteq Pipes
  BY Ep1Pipes DEF Sane, Request
<1>3. CASE d.setup.kind = "setConfiguration"
  <2>1. CASE d.setup.arg = 0
    <3>1. ~e.enabled
      BY <1>3, <2>1 DEF Request1
    <3>. QED BY <1>1, <1>2, <3>1 DEF Turns
  <2>2. CASE d.setup.arg # 0
    <3>1. Initialized(e) /\ e.pp = [q \in Pipes1 |-> 0] /\ e.sie = [q \in Pipes |-> 0]
          /\ \A q \in Pipes1 : ~e.bd[q][1].own
      BY <1>3, <2>2 DEF Request1
    <3>2. ASSUME NEW p \in Pipes1 PROVE Turns1(e, p)
      <4>1. e.pp[p] = 0 /\ e.sie[p] = 0 /\ ~e.bd[p][1].own
        BY <1>2, <3>1
      <4>2. CASE p = "out1"
        BY <1>1, <1>2, <3>1, <4>1, <4>2 DEF Turns1, Armed, Handle, Initialized
      <4>3. CASE p = "in1"
        BY <1>1, <1>2, <3>1, <4>1, <4>3 DEF Turns1, Armed, Handle, Initialized
      <4>. QED BY <4>2, <4>3, Ep1Pipes
    <3>3. e.enabled /\ ~e.fresh
      BY <3>1 DEF Initialized
    <3>. QED BY <3>2, <3>3 DEF Turns
  <2>. QED BY <2>1, <2>2
<1>4. CASE d.setup.kind # "setConfiguration"
  <2>1. /\ e.pp = d.pp /\ e.sie = d.sie /\ e.enabled = d.enabled /\ e.fresh = d.fresh
        /\ e.outHandle = d.outHandle /\ e.inHandle = d.inHandle
    BY <1>4 DEF Request1
  <2>2. CASE Same1(d, e)
    <3>1. \A p \in Pipes1 : Still1(d, e, p)
      BY <1>1, <1>2, <2>1, <2>2 DEF Still1, Same1, Handle
    <3>. QED BY <2>1, <3>1, TurnsStill
  <2>3. CASE ~Same1(d, e)
    <3>. DEFINE p == d.setup.pipe
    <3>1. /\ \A q \in Pipes1 \ {p} : e.bd[q] = d.bd[q]
          /\ Halted1(d, e, p) \/ Cleared1(d, e, p)
      BY <1>4, <2>3 DEF Request1
    <3>. HIDE DEF p
    <3>2. p \in Pipes1 /\ d.pp[p] \in Bit /\ d.cpu \in [Pipes1 -> Bit \cup {Null}]
      BY <1>2 DEF Sane, p
    <3>3. e.cpu = [d.cpu EXCEPT ![p] = d.pp[p]]
      BY <3>1 DEF Halted1, Cleared1
    <3>4. (~Armed(e, p, 0) /\ ~Armed(e, p, 1)) \/ ~d.enabled
      <4>1. CASE d.enabled /\ Halted1(d, e, p)
        BY <3>2, <4>1 DEF Halted1, Armed, Bit, Turns, Turns1
      <4>2. CASE Cleared1(d, e, p)
        BY <4>2 DEF Cleared1, Armed, Bit
      <4>. QED BY <3>1, <4>1, <4>2
    <3>5. ASSUME d.enabled PROVE Turns1(e, p)
      <4>1. Turns1(d, p) /\ ~Waits(d, p)
        BY <3>2, <3>5 DEF Turns
      <4>2. e.sie[p] = e.pp[p] /\ e.cpu[p] = e.pp[p] /\ ~Waits(e, p) /\ OneOf(e, p)
        BY <1>1, <1>2, <2>1, <3>2, <3>3, <4>1 DEF Turns1
      <4>3. ~Armed(e, p, e.pp[p])
        BY <2>1, <3>2, <3>4, <3>5 DEF Bit
      <4>4. ~e.bd[p][1 - e.pp[p]].own /\ e.bd[p][0].dts # e.bd[p][1].dts
        <5>1. CASE Halted1(d, e, p)
          <6>1. /\ ~d.bd[p][1 - d.pp[p]].own /\ d.bd[p][0].dts # d.bd[p][1].dts
                /\ e.bd[p][d.pp[p]].dts = d.bd[p][d.pp[p]].dts
                /\ e.bd[p][1 - d.pp[p]] = d.bd[p][1 - d.pp[p]] /\ e.pp[p] = d.pp[p]
            BY <2>1, <4>1, <5>1 DEF Halted1, Turns1
          <6>2. CASE d.pp[p] = 0
            <7>1. 1 - d.pp[p] = 1
              BY <6>2
            <7>. QED BY <6>1, <6>2, <7>1
          <6>3. CASE d.pp[p] = 1
            <7>1. 1 - d.pp[p] = 0
              BY <6>3
            <7>. QED BY <6>1, <6>3, <7>1
          <6>. QED BY <3>2, <6>2, <6>3 DEF Bit
        <5>2. CASE Cleared1(d, e, p)
          BY <2>1, <3>2, <4>1, <5>2 DEF Cleared1, Bit
        <5>. QED BY <3>1, <5>1, <5>2
      <4>. QED BY <4>2, <4>3, <4>4 DEF Turns1
    <3>6. ASSUME d.enabled, NEW q \in Pipes1 \ {p} PROVE Turns1(e, q)
      <4>1. Still1(d, e, q)
        BY <1>1, <1>2, <2>1, <3>1, <3>2, <3>3 DEF Still1, Handle
      <4>2. Turns1(d, q)
        BY <3>6 DEF Turns
      <4>. QED BY <4>1, <4>2, Turns1Still
    <3>7. ASSUME d.enabled, NEW x \in Bit, Armed(e, "out1", x) PROVE ~e.fresh
      <4>1. p # "out1"
        BY <3>4, <3>7 DEF Bit
      <4>2. Armed(d, "out1", x)
        BY <1>2, <3>1, <3>7, <4>1 DEF Armed
      <4>. QED BY <2>1, <3>7, <4>2 DEF Turns
    <3>8. e.enabled => \A q \in Pipes1 : Turns1(e, q)
      BY <2>1, <3>5, <3>6
    <3>. QED BY <1>1, <1>2, <2>1, <3>7, <3>8 DEF Turns
  <2>. QED BY <2>2, <2>3
<1>. QED BY <1>3, <1>4
\* The handler of a transaction, whichever it is.
LEMMA ServiceTurns ==
  ASSUME NEW d, DevInv(d), Turns(d), d.ustat # <<>>
  PROVE  Turns(ServiceTransaction(d))
<1>. DEFINE e == ServiceTransaction(d)
            h == d.ustat[1]
<1>1. h \in Entry /\ Ep0Inv(d) /\ Sane(d) /\ Pipes1 \subseteq Pipes
  BY TakenEffect, Ep1Pipes DEF DevInv, Ep0Inv
<1>2. CASE h.pipe \in Pipes1
  <2>. DEFINE p == h.pipe
  <2>1. /\ Sane(e) /\ Kept(d, e, {"ustat", "pp"})
        /\ Taken(d, e) /\ e.pp = [d.pp EXCEPT ![p] = 1 - d.pp[p]]
    BY <1>1, <1>2, ServiceEp1Preserves DEF Ep0Inv
  <2>. HIDE DEF e, h
  <2>2. /\ e.sie = d.sie /\ e.bd = d.bd /\ e.cpu = d.cpu /\ e.outHandle = d.outHandle
        /\ e.inHandle = d.inHandle /\ e.enabled = d.enabled /\ e.fresh = d.fresh
    BY <2>1 DEF Kept, Fields
  <2>3. p \in Pipes /\ d.pp[p] \in Bit /\ d.pp \in [Pipes1 -> Bit] /\ e.pp[p] = 1 - d.pp[p]
    BY <1>1, <1>2, <2>1 DEF Sane
  <2>4. Waits(d, p)
    <3>1. 1 \in 1 .. Len(d.ustat) /\ d.ustat[1].pipe = p
      BY <1>1, <2>1, TakenWaits DEF h
    <3>. QED BY <3>1 DEF Waits
  <2>5. d.enabled
    BY <1>2, <2>4 DEF Turns
  <2>6. Turns1(d, p)
    BY <1>2, <2>5 DEF Turns
  <2>7. OneOf(e, p) /\ ~Waits(e, p)
    <3>1. OneOf(d, p) /\ d.ustat[1].pipe = p
      BY <2>6 DEF Turns1, h
    <3>. QED BY <1>1, <2>1, <2>3, <3>1, TakenOne
  <2>8. \A x \in Bit : ~d.bd[p][x].own
    BY <2>4, <2>6 DEF Turns1, Bit
  <2>9. Turns1(e, p)
    <3>1. /\ d.sie[p] = 1 - d.pp[p] /\ d.cpu[p] = 1 - d.pp[p] /\ d.bd[p][0].dts # d.bd[p][1].dts
      BY <2>4, <2>6 DEF Turns1
    <3>2. 1 - d.pp[p] \in Bit /\ 1 - (1 - d.pp[p]) \in Bit
      BY <2>3 DEF Bit
    <3>3. ~e.bd[p][e.pp[p]].own /\ ~e.bd[p][1 - e.pp[p]].own
      BY <2>2, <2>3, <2>8, <3>2
    <3>. QED BY <2>2, <2>3, <2>7, <3>1, <3>3 DEF Turns1, Armed
  <2>10. ASSUME NEW q \in Pipes1 \ {p} PROVE Turns1(e, q)
    <3>1. q \in Pipes /\ Turns1(d, q) /\ e.pp[q] = d.pp[q]
      BY <1>1, <2>1, <2>3, <2>5 DEF Turns
    <3>2. OneOf(e, q) /\ (Waits(e, q) <=> Waits(d, q))
      BY <1>1, <2>1, <3>1, TakenOne DEF Turns1, h
    <3>3. Still1(d, e, q)
      BY <2>2, <3>1, <3>2 DEF Still1, Handle
    <3>. QED BY <3>1, <3>3, Turns1Still
  <2>11. \A q \in Pipes1 : Turns1(e, q)
    BY <2>9, <2>10
  <2>12. \A x \in Bit : Armed(e, "out1", x) => ~e.fresh
    BY <2>2, <2>5 DEF Turns, Armed
  <2>. QED BY <2>2, <2>5, <2>11, <2>12 DEF Turns, e
<1>3. ASSUME Taken(d, e), h.pipe \notin Pipes1,
             \A q \in Pipes1 : e.bd[q] = d.bd[q],
             e.sie = d.sie, e.cpu = d.cpu, e.outHandle = d.outHandle, e.pp = d.pp,
             e.inHandle = d.inHandle, e.enabled = d.enabled, e.fresh = d.fresh
      PROVE  Turns(e)
  <2>. HIDE DEF e, h
  <2>1. ASSUME NEW q \in Pipes1 PROVE Still1(d, e, q)
    <3>1. q \in Pipes /\ h.pipe # q
      BY <1>1, <1>3
    <3>2. (OneOf(d, q) => OneOf(e, q)) /\ (Waits(e, q) <=> Waits(d, q))
      <4>1. OneOf(d, q) => OneOf(e, q)
        BY <1>1, <1>3, <3>1, TakenOne
      <4>2. Waits(e, q) <=> Waits(d, q)
        BY <1>1, <1>3, <3>1, TakenWaits DEF h
      <4>. QED BY <4>1, <4>2
    <3>. QED BY <1>3, <3>2 DEF Still1, Handle
  <2>. QED BY <1>3, <2>1, TurnsStill
<1>4. CASE h.pipe = "in0"
  <2>1. /\ Kept(d, e, InFields \cup {"ustat", "timer"}) /\ Taken(d, e)
        /\ \A q \in Pipes1 : e.bd[q] = d.bd[q]
    BY <1>1, <1>4, ServiceIn0Preserves
  <2>. HIDE DEF e, h
  <2>2. /\ e.sie = d.sie /\ e.cpu = d.cpu /\ e.outHandle = d.outHandle /\ e.pp = d.pp
        /\ e.inHandle = d.inHandle /\ e.enabled = d.enabled /\ e.fresh = d.fresh
    BY <2>1 DEF Kept, Fields, InFields
  <2>3. h.pipe \notin Pipes1
    BY <1>4, Ep1Pipes
  <2>. QED BY <1>3, <2>1, <2>2, <2>3, Zenon DEF e
<1>5. CASE h.pipe = "out0" /\ d.bd["out0"][h.b].setup
  <2>1. /\ Ep0Inv(e) /\ d.pktDis /\ Len(d.ustat) = 1 /\ Len(e.ustat) = 0 /\ Request1(d, e)
    BY <1>1, <1>5, ServiceSetupPreserves
  <2>2. \A p \in Pipes1 : ~Waits(d, p)
    <3>1. \A i \in 1 .. Len(d.ustat) : i = 1
      BY <2>1
    <3>. QED BY <1>5, <3>1, Ep1Pipes DEF Waits
  <2>. HIDE DEF e
  <2>. QED BY <1>1, <2>1, <2>2, RequestTurns DEF Ep0Inv, e
<1>6. CASE h.pipe = "out0" /\ ~d.bd["out0"][h.b].setup
  <2>1. /\ Kept(d, e, OutFields \cup {"ustat", "timer", "cur", "next"}) /\ Taken(d, e)
        /\ \A q \in Pipes1 : e.bd[q] = d.bd[q]
    BY <1>1, <1>6, ServiceOut0Preserves
  <2>. HIDE DEF e, h
  <2>2. /\ e.sie = d.sie /\ e.cpu = d.cpu /\ e.outHandle = d.outHandle /\ e.pp = d.pp
        /\ e.inHandle = d.inHandle /\ e.enabled = d.enabled /\ e.fresh = d.fresh
    BY <2>1 DEF Kept, Fields, OutFields
  <2>3. h.pipe \notin Pipes1
    BY <1>6, Ep1Pipes
  <2>. QED BY <1>3, <2>1, <2>2, <2>3, Zenon DEF e
<1>. HIDE DEF e
<1>7. h.pipe \in Pipes1 \cup {"in0", "out0"}
  BY <1>1 DEF Entry, Pipes
<1>. QED BY <1>2, <1>4, <1>5, <1>6, <1>7 DEF e

\* The application hands over the descriptor whose turn it is, and keeps it as
\* its handle; its next is the other one.
TransferDone(d, e, p) ==
  LET b == d.pp[p]
  IN  /\ Armed(e, p, b) /\ e.bd[p][b].dts = d.bd[p][b].dts
      /\ e.bd[p][1 - b] = d.bd[p][1 - b] /\ OnlyPipe(d, e, p)
      /\ e.cpu = [d.cpu EXCEPT ![p] = 1 - b] /\ Handle(e, p) = b
      /\ \A q \in Pipes1 \ {p} : Handle(e, q) = Handle(d, q)

\* It does so only when its last packet has moved.
LEMMA TransferTurn ==
  ASSUME NEW d, Sane(d), Turns(d), d.enabled, NEW p \in Pipes1, ~Waits(d, p),
         ~(Handle(d, p) # Null /\ d.bd[p][Handle(d, p)].own)
  PROVE  ~Armed(d, p, d.pp[p]) /\ d.cpu[p] = d.pp[p] /\ d.sie[p] = d.pp[p] /\ d.pp[p] \in Bit
<1>1. Turns1(d, p) /\ d.pp[p] \in Bit
  BY DEF Turns, Sane
<1>2. ~Armed(d, p, d.pp[p])
  BY <1>1, Ep1Pipes DEF Turns1, Armed
<1>. QED BY <1>1, <1>2 DEF Turns1

\* That keeps the turns.
LEMMA TransferTurns ==
  ASSUME NEW d, Sane(d), Turns(d), d.enabled, NEW p \in Pipes1, ~Waits(d, p), ~Armed(d, p, d.pp[p]),
         NEW e, e.ustat = d.ustat, e.sie = d.sie, e.pp = d.pp, e.enabled = d.enabled,
         TransferDone(d, e, p), IF p = "out1" THEN ~e.fresh ELSE e.fresh = d.fresh
  PROVE  Turns(e)
<1>1. /\ Turns1(d, p) /\ d.pp[p] \in Bit /\ d.cpu \in [Pipes1 -> Bit \cup {Null}] /\ p \in Pipes
  BY Ep1Pipes DEF Turns, Sane
<1>2. (\A q \in Pipes1 : Waits(e, q) <=> Waits(d, q)) /\ (\A q \in Pipes1 : OneOf(d, q) => OneOf(e, q))
  BY DEF Waits, OneOf
<1>3. Turns1(e, p)
  <2>1. /\ e.sie[p] = e.pp[p] /\ ~e.bd[p][1 - e.pp[p]].own /\ e.cpu[p] = 1 - e.pp[p]
        /\ Armed(e, p, e.pp[p]) /\ Handle(e, p) = e.pp[p] /\ ~Waits(e, p) /\ OneOf(e, p)
    BY <1>1, <1>2 DEF Turns1, TransferDone
  <2>2. e.bd[p][0].dts # e.bd[p][1].dts
    <3>1. /\ d.bd[p][0].dts # d.bd[p][1].dts
          /\ e.bd[p][d.pp[p]].dts = d.bd[p][d.pp[p]].dts
          /\ e.bd[p][1 - d.pp[p]] = d.bd[p][1 - d.pp[p]]
      BY <1>1 DEF Turns1, TransferDone
    <3>2. CASE d.pp[p] = 0
      <4>1. 1 - d.pp[p] = 1
        BY <3>2
      <4>. QED BY <3>1, <3>2, <4>1
    <3>3. CASE d.pp[p] = 1
      <4>1. 1 - d.pp[p] = 0
        BY <3>3
      <4>. QED BY <3>1, <3>3, <4>1
    <3>. QED BY <1>1, <3>2, <3>3 DEF Bit
  <2>. QED BY <2>1, <2>2 DEF Turns1
<1>4. ASSUME NEW q \in Pipes1 \ {p} PROVE Still1(d, e, q) /\ Turns1(e, q)
  <2>1. q \in Pipes /\ q # p
    BY Ep1Pipes
  <2>2. e.bd[q] = d.bd[q] /\ e.cpu[q] = d.cpu[q] /\ Handle(e, q) = Handle(d, q)
    BY <1>1, <2>1 DEF TransferDone, OnlyPipe
  <2>3. Still1(d, e, q)
    BY <1>2, <2>2 DEF Still1
  <2>4. Turns1(d, q)
    BY DEF Turns
  <2>. QED BY <2>3, <2>4, Turns1Still
<1>5. \A x \in Bit : Armed(e, "out1", x) => ~e.fresh
  <2>1. CASE p # "out1"
    <3>1. e.bd["out1"] = d.bd["out1"]
      BY <2>1, Ep1Pipes DEF TransferDone, OnlyPipe
    <3>. QED BY <2>1, <3>1 DEF Turns, Armed
  <2>. QED BY <2>1
<1>6. \A q \in Pipes1 : Turns1(e, q)
  BY <1>3, <1>4
<1>. QED BY <1>5, <1>6 DEF Turns
\* What TransferOnePacket changes, if the firmware has a descriptor at all.
LEMMA TransferKept ==
  ASSUME NEW d, Sane(d), NEW p \in Pipes1
  PROVE  LET t == TransferOnePacket(d, p)
         IN  /\ Sane(t) /\ Kept(d, t, {"bd", "cpu"}) /\ OnlyPipe(d, t, p)
             /\ \A x \in Bit : t.bd[p][x].dts = d.bd[p][x].dts
             /\ d.cpu[p] \in Bit =>
                  /\ Armed(t, p, d.cpu[p]) /\ t.bd[p][d.cpu[p]].dts = d.bd[p][d.cpu[p]].dts
                  /\ t.bd[p][1 - d.cpu[p]] = d.bd[p][1 - d.cpu[p]]
                  /\ t.cpu = [d.cpu EXCEPT ![p] = 1 - d.cpu[p]]
<1>. DEFINE t == TransferOnePacket(d, p)
<1>1. CASE d.cpu[p] = Null
  <2>1. t = d
    BY <1>1 DEF TransferOnePacket
  <2>. HIDE DEF t
  <2>. QED BY <1>1, <2>1, Ep1Pipes DEF Kept, OnlyPipe, t
<1>2. CASE d.cpu[p] # Null
  <2>1. /\ Sane(t) /\ Kept(d, t, {"bd", "cpu"}) /\ OnlyPipe(d, t, p)
        /\ d.cpu[p] \in Bit /\ t.cpu = [d.cpu EXCEPT ![p] = 1 - d.cpu[p]]
        /\ IsGiven(d.bd[p][d.cpu[p]], t.bd[p][d.cpu[p]], FALSE, d.bd[p][d.cpu[p]].dts)
        /\ t.bd[p][1 - d.cpu[p]] = d.bd[p][1 - d.cpu[p]]
    BY <1>2, TransferEffect
  <2>. HIDE DEF t
  <2>2. \A x \in Bit : x = d.cpu[p] \/ x = 1 - d.cpu[p]
    BY <2>1 DEF Bit
  <2>3. \A x \in Bit : t.bd[p][x].dts = d.bd[p][x].dts
    BY <2>1, <2>2 DEF IsGiven
  <2>4. Armed(t, p, d.cpu[p]) /\ t.bd[p][d.cpu[p]].dts = d.bd[p][d.cpu[p]].dts
    BY <2>1 DEF IsGiven, Armed
  <2>. QED BY <2>1, <2>3, <2>4 DEF t
<1>. QED BY <1>1, <1>2

\* The toggles of endpoint 1 as they were.
Dts1(d, e) == \A p \in Pipes1, x \in Bit : e.bd[p][x].dts = d.bd[p][x].dts

\* BOOTLOADER_IDLE, of a device whose packet has come.
LEMMA TakeTurns ==
  ASSUME NEW d, Sane(d), Turns(d), \A p \in Pipes1 : ~Waits(d, p), ~Busy(d, "out1", d.outHandle),
         NEW e, e = [TransferOnePacket(d, "out1") EXCEPT
                       !.outHandle = d.cpu["out1"], !.boot = "busy", !.fresh = FALSE]
  PROVE  /\ Turns(e) /\ Kept(d, e, {"bd", "cpu", "outHandle", "boot", "fresh"})
         /\ e.fresh = FALSE /\ e.boot = "busy" /\ OnlyPipe(d, e, "out1") /\ Dts1(d, e)
         /\ d.enabled => TransferDone(d, e, "out1") /\ ~Armed(d, "out1", d.pp["out1"])
<1>. DEFINE t == TransferOnePacket(d, "out1")
            x == d.cpu["out1"]
<1>1. /\ Sane(t) /\ Kept(d, t, {"bd", "cpu"}) /\ OnlyPipe(d, t, "out1")
      /\ \A y \in Bit : t.bd["out1"][y].dts = d.bd["out1"][y].dts
      /\ x \in Bit =>
           /\ Armed(t, "out1", x) /\ t.bd["out1"][x].dts = d.bd["out1"][x].dts
           /\ t.bd["out1"][1 - x] = d.bd["out1"][1 - x]
           /\ t.cpu = [d.cpu EXCEPT !["out1"] = 1 - x]
  BY TransferKept, Ep1Pipes
<1>2. e = [t EXCEPT !.outHandle = x, !.boot = "busy", !.fresh = FALSE]
  OBVIOUS
<1>. HIDE DEF t, x
<1>3. DOMAIN t = Fields
  BY <1>1 DEF Sane, IsDev
<1>4. Kept(t, e, {"outHandle", "boot", "fresh"})
  BY <1>2, <1>3 DEF Kept
<1>5. e.outHandle = x /\ e.boot = "busy" /\ e.fresh = FALSE /\ e.bd = t.bd /\ e.cpu = t.cpu
  <2>1. {"outHandle", "boot", "fresh"} \subseteq DOMAIN t
    BY <1>3 DEF Fields
  <2>2. e.outHandle = x /\ e.boot = "busy" /\ e.fresh = FALSE
    BY <1>2, <2>1
  <2>. QED BY <1>4, <2>2 DEF Kept, Fields
<1>6. Kept(d, e, {"bd", "cpu", "outHandle", "boot", "fresh"})
  BY <1>1, <1>4 DEF Kept
<1>7. /\ e.ustat = d.ustat /\ e.sie = d.sie /\ e.pp = d.pp /\ e.enabled = d.enabled
      /\ e.inHandle = d.inHandle
  BY <1>6 DEF Kept, Fields
<1>8. OnlyPipe(d, e, "out1")
  BY <1>1, <1>5 DEF OnlyPipe
<1>11. Dts1(d, e)
  BY <1>1, <1>5, <1>8, Ep1Pipes DEF Dts1, OnlyPipe
<1>9. CASE ~d.enabled
  <2>1. \A p \in Pipes1 : ~Waits(e, p)
    BY <1>7 DEF Waits
  <2>. QED BY <1>5, <1>6, <1>7, <1>8, <1>9, <1>11, <2>1 DEF Turns
<1>10. CASE d.enabled
  <2>1. "out1" \in Pipes1 /\ ~(Handle(d, "out1") # Null /\ d.bd["out1"][Handle(d, "out1")].own)
    BY Ep1Pipes DEF Handle, Busy
  <2>2. ~Armed(d, "out1", d.pp["out1"]) /\ x = d.pp["out1"] /\ x \in Bit
    BY <1>10, <2>1, TransferTurn DEF x
  <2>3. TransferDone(d, e, "out1")
    BY <1>1, <1>5, <1>7, <1>8, <2>2 DEF TransferDone, Armed, Handle
  <2>4. Turns(e)
    BY <1>5, <1>7, <1>10, <2>1, <2>2, <2>3, TransferTurns
  <2>. QED BY <1>5, <1>6, <1>8, <1>11, <2>2, <2>3, <2>4
<1>. QED BY <1>9, <1>10

\* The answer to a command, once the last has gone.
LEMMA AnswerTurns ==
  ASSUME NEW d, Sane(d), Turns(d), \A p \in Pipes1 : ~Waits(d, p), ~Busy(d, "in1", d.inHandle),
         NEW r,
         NEW e, e = [TransferOnePacket(d, "in1") EXCEPT
                       !.tx = r, !.inHandle = d.cpu["in1"], !.boot = "idle"]
  PROVE  /\ Turns(e) /\ Kept(d, e, {"bd", "cpu", "inHandle", "boot", "tx"})
         /\ e.tx = r /\ e.boot = "idle" /\ OnlyPipe(d, e, "in1") /\ Dts1(d, e)
         /\ d.enabled => TransferDone(d, e, "in1") /\ ~Armed(d, "in1", d.pp["in1"])
<1>. DEFINE t == TransferOnePacket(d, "in1")
            x == d.cpu["in1"]
<1>1. /\ Sane(t) /\ Kept(d, t, {"bd", "cpu"}) /\ OnlyPipe(d, t, "in1")
      /\ \A y \in Bit : t.bd["in1"][y].dts = d.bd["in1"][y].dts
      /\ x \in Bit =>
           /\ Armed(t, "in1", x) /\ t.bd["in1"][x].dts = d.bd["in1"][x].dts
           /\ t.bd["in1"][1 - x] = d.bd["in1"][1 - x]
           /\ t.cpu = [d.cpu EXCEPT !["in1"] = 1 - x]
  BY TransferKept, Ep1Pipes
<1>2. e = [t EXCEPT !.tx = r, !.inHandle = x, !.boot = "idle"]
  OBVIOUS
<1>. HIDE DEF t, x
<1>3. DOMAIN t = Fields
  BY <1>1 DEF Sane, IsDev
<1>4. Kept(t, e, {"inHandle", "boot", "tx"})
  BY <1>2, <1>3 DEF Kept
<1>5. e.inHandle = x /\ e.boot = "idle" /\ e.tx = r /\ e.bd = t.bd /\ e.cpu = t.cpu
  <2>1. {"inHandle", "boot", "tx"} \subseteq DOMAIN t
    BY <1>3 DEF Fields
  <2>2. e.inHandle = x /\ e.boot = "idle" /\ e.tx = r
    BY <1>2, <2>1
  <2>. QED BY <1>4, <2>2 DEF Kept, Fields
<1>6. Kept(d, e, {"bd", "cpu", "inHandle", "boot", "tx"})
  BY <1>1, <1>4 DEF Kept
<1>7. /\ e.ustat = d.ustat /\ e.sie = d.sie /\ e.pp = d.pp /\ e.enabled = d.enabled
      /\ e.outHandle = d.outHandle /\ e.fresh = d.fresh
  BY <1>6 DEF Kept, Fields
<1>8. OnlyPipe(d, e, "in1")
  BY <1>1, <1>5 DEF OnlyPipe
<1>11. Dts1(d, e)
  BY <1>1, <1>5, <1>8, Ep1Pipes DEF Dts1, OnlyPipe
<1>9. CASE ~d.enabled
  <2>1. \A p \in Pipes1 : ~Waits(e, p)
    BY <1>7 DEF Waits
  <2>. QED BY <1>5, <1>6, <1>7, <1>8, <1>9, <1>11, <2>1 DEF Turns
<1>10. CASE d.enabled
  <2>1. "in1" \in Pipes1 /\ ~(Handle(d, "in1") # Null /\ d.bd["in1"][Handle(d, "in1")].own)
    BY Ep1Pipes DEF Handle, Busy
  <2>2. ~Armed(d, "in1", d.pp["in1"]) /\ x = d.pp["in1"] /\ x \in Bit
    BY <1>10, <2>1, TransferTurn DEF x
  <2>3. TransferDone(d, e, "in1")
    <3>1. Handle(e, "in1") = x /\ Handle(e, "out1") = Handle(d, "out1") /\ Pipes1 \ {"in1"} = {"out1"}
      BY <1>5, <1>7, Ep1Pipes DEF Handle
    <3>2. /\ Armed(e, "in1", x) /\ e.bd["in1"][x].dts = d.bd["in1"][x].dts
          /\ e.bd["in1"][1 - x] = d.bd["in1"][1 - x]
          /\ e.cpu = [d.cpu EXCEPT !["in1"] = 1 - x]
      BY <1>1, <1>5, <2>2 DEF Armed
    <3>. QED BY <1>8, <2>2, <3>1, <3>2 DEF TransferDone
  <2>4. Turns(e)
    BY <1>5, <1>7, <1>10, <2>1, <2>2, <2>3, TransferTurns
  <2>. QED BY <1>5, <1>6, <1>8, <1>11, <2>2, <2>3, <2>4
<1>. QED BY <1>9, <1>10
=============================================================================
