-------------------------- MODULE BootSystemProofs --------------------------
(***************************************************************************)
(* Theorems about BootSystem: for every layout, every set of files, any    *)
(* number of faults and with or without restarts of the application.       *)
(* First the hex importer by itself, by induction on the lines of a file.  *)
(***************************************************************************)
EXTENDS BootSystem, BootDeviceProofs, WellFoundedInduction

-----------------------------------------------------------------------------
(* Induction on the natural numbers for a set of them, so that what a      *)
(* recursive function computes can be proved without a theorem that takes  *)
(* an operator.  It rests on < being well founded on Nat.                  *)

Below == {ss \in Nat \X Nat : ss[1] < ss[2]}

LEMMA BelowWellFounded == IsWellFoundedOn(Below, Nat)
BY ONLY NatLessThanWellFounded, Zenon DEF OpToRel, Below

\* A set of naturals that has 0 and with each number the next has them all.
LEMMA SetInduction ==
  ASSUME NEW S, 0 \in S, \A n \in Nat : n \in S => n + 1 \in S
  PROVE  Nat \subseteq S
<1> DEFINE Others == Nat \ S
<1>1. SUFFICES ASSUME Others # {} PROVE FALSE
  OBVIOUS
<1>2. PICK x \in Others : \A y \in Others : ~ (<<y, x>> \in Below)
  <2>1. Others \subseteq Nat
    OBVIOUS
  <2> HIDE DEF Others
  <2> QED
    BY <1>1, <2>1, WFMin, BelowWellFounded
<1>3. x \in Nat /\ x # 0 /\ x - 1 \in Nat
  OBVIOUS
<1>4. x - 1 \in Others
  BY <1>3
<1>5. <<x - 1, x>> \in Below
  BY <1>3 DEF Below
<1> QED
  BY <1>2, <1>4, <1>5

-----------------------------------------------------------------------------
(* The recursion over the lines.                                           *)

LEMMA LinesDef ==
  ASSUME NEW file, NEW ranges, Len(file) \in Nat
  PROVE  \A n \in 0 .. Len(file) :
           Lines(file, ranges)[n] =
             IF n = 0 THEN Opened ELSE Line(Lines(file, ranges)[n - 1], file[n], ranges)
<1> DEFINE After(f, m) == IF m = 0 THEN Opened ELSE Line(f[m - 1], file[m], ranges)
           Reads == {n \in Nat : \E f : f = [m \in 0 .. n |-> After(f, m)]}
<1>1. 0 \in Reads
  <2> DEFINE f == [m \in 0 .. 0 |-> Opened]
  <2>1. f = [m \in 0 .. 0 |-> After(f, m)]
    OBVIOUS
  <2> QED
    BY <2>1
<1>2. ASSUME NEW n \in Nat, n \in Reads PROVE n + 1 \in Reads
  <2>1. PICK f : f = [m \in 0 .. n |-> After(f, m)]
    BY <1>2
  <2> DEFINE g == [m \in 0 .. n + 1 |-> IF m = n + 1 THEN After(f, m) ELSE f[m]]
  <2>2. /\ g = [m \in 0 .. n + 1 |-> g[m]]
        /\ \A m \in 0 .. n + 1 : g[m] = IF m = n + 1 THEN After(f, m) ELSE f[m]
    OBVIOUS
  <2> HIDE DEF g
  <2>3. \A m \in 0 .. n : f[m] = After(f, m)
    BY <2>1
  <2>4. ASSUME NEW m \in 0 .. n + 1 PROVE g[m] = After(g, m)
    <3>1. CASE m = 0
      BY <2>2, <2>3, <3>1
    <3>2. CASE m # 0
      <4>1. m - 1 \in 0 .. n /\ m - 1 \in 0 .. n + 1 /\ m - 1 # n + 1
        BY <3>2
      <4>2. g[m - 1] = f[m - 1]
        BY <2>2, <4>1
      <4>3. g[m] = After(f, m)
        BY <2>2, <2>3
      <4> QED
        BY <3>2, <4>2, <4>3
    <3> QED
      BY <3>1, <3>2
  <2>5. g = [m \in 0 .. n + 1 |-> After(g, m)]
    <3> HIDE DEF After
    <3> QED
      BY <2>2, <2>4
  <2> QED
    BY <2>5
<1>3. Len(file) \in Reads
  <2> HIDE DEF Reads
  <2> QED
    BY <1>1, <1>2, SetInduction
<1>4. \E f : f = [m \in 0 .. Len(file) |-> After(f, m)]
  BY <1>3
<1>5. Lines(file, ranges) = CHOOSE f : f = [m \in 0 .. Len(file) |-> After(f, m)]
  BY DEF Lines
<1>6. Lines(file, ranges) = [m \in 0 .. Len(file) |-> After(Lines(file, ranges), m)]
  BY <1>4, <1>5
<1> QED
  BY <1>6

-----------------------------------------------------------------------------
(* Types.                                                                  *)

ImportState ==
  [at : {"line", "end", "error"}, segment : Nat, image : [Address -> Data],
   imported : SUBSET Address]

LEMMA StoreType ==
  ASSUME NEW s \in ImportState, NEW r \in Record, NEW ranges \in SUBSET Address
  PROVE  Store(s, r, ranges) \in ImportState
<1> DEFINE in == Placed(r, s.segment) \cap ranges
<1>1. /\ s.segment \in Nat /\ s.image \in [Address -> Data] /\ s.imported \in SUBSET Address
      /\ r.at \in Nat /\ r.words \in Seq(Data) /\ Len(r.words) \in Nat
  BY DEF ImportState, Record
<1>2. ASSUME NEW a \in Address, a \in in
      PROVE  r.words[a - s.segment - r.at + 1] \in Data
  <2>1. a \in Int /\ s.segment + r.at <= a /\ a <= s.segment + r.at + Len(r.words) - 1
    BY <1>1, <1>2 DEF Placed, Address
  <2>2. s.segment \in Int /\ r.at \in Int /\ Len(r.words) \in Int
    BY <1>1
  <2>3. a - s.segment - r.at + 1 \in 1 .. Len(r.words)
    BY ONLY <2>1, <2>2, SMTT(60)
  <2> QED
    BY <1>1, <2>3
<1>3. [a \in Address |-> IF a \in in THEN r.words[a - s.segment - r.at + 1] ELSE s.image[a]]
        \in [Address -> Data]
  BY <1>1, <1>2
<1>4. s.imported \cup in \in SUBSET Address
  BY <1>1
<1> DEFINE new == [a \in Address |-> IF a \in in THEN r.words[a - s.segment - r.at + 1] ELSE s.image[a]]
<1>5. Store(s, r, ranges) = [s EXCEPT !.image = new, !.imported = s.imported \cup in]
  BY DEF Store
<1>6. new \in [Address -> Data]
  BY <1>3
<1> HIDE DEF new, in
<1> QED
  BY <1>4, <1>5, <1>6 DEF ImportState

LEMMA LineType ==
  ASSUME NEW s \in ImportState, NEW r \in Record, NEW ranges \in SUBSET Address
  PROVE  Line(s, r, ranges) \in ImportState
<1>1. Store(s, r, ranges) \in ImportState
  BY StoreType
<1>2. r.upper * Unit(r.type) \in Nat
  <2>1. r.upper \in Nat /\ Unit(r.type) \in Nat
    BY UnitsAssumption DEF UnitsAssumption, Record, Unit
  <2> QED
    BY <2>1
<1>3. [s EXCEPT !.segment = r.upper * Unit(r.type)] \in ImportState
  BY <1>2 DEF ImportState
<1>4. [s EXCEPT !.at = "error"] \in ImportState /\ [s EXCEPT !.at = "end"] \in ImportState
  BY DEF ImportState
<1>5. r.type \in {"DATA", "END_OF_FILE", "EXTENDED_SEGMENT_ADDR", "EXTENDED_LINEAR_ADDR", "other"}
  BY DEF Record
<1> QED
  BY <1>1, <1>3, <1>4, <1>5 DEF Line, Extended

LEMMA LinesType ==
  ASSUME NEW file \in Seq(Record), NEW ranges \in SUBSET Address
  PROVE  \A n \in 0 .. Len(file) : Lines(file, ranges)[n] \in ImportState
<1> DEFINE Typed == {n \in Nat : n <= Len(file) => Lines(file, ranges)[n] \in ImportState}
<1>1. Len(file) \in Nat
  OBVIOUS
<1>2. 0 \in Typed
  <2>1. Opened \in ImportState
    BY DEF Opened, ImportState, BlankImage, Data
  <2> QED
    BY <1>1, <2>1, LinesDef
<1>3. ASSUME NEW n \in Nat, n \in Typed PROVE n + 1 \in Typed
  <2>1. SUFFICES ASSUME n + 1 <= Len(file) PROVE Lines(file, ranges)[n + 1] \in ImportState
    OBVIOUS
  <2>2. Lines(file, ranges)[n] \in ImportState
    BY <1>1, <1>3, <2>1
  <2>3. Lines(file, ranges)[n + 1] = Line(Lines(file, ranges)[n], file[n + 1], ranges)
    <3>1. n + 1 \in 0 .. Len(file) /\ n + 1 # 0 /\ n + 1 - 1 = n
      BY <1>1, <2>1
    <3> QED
      BY <1>1, <3>1, LinesDef
  <2>4. file[n + 1] \in Record
    BY <1>1, <2>1
  <2> QED
    BY <2>2, <2>3, <2>4, LineType
<1>4. Nat \subseteq Typed
  <2> HIDE DEF Typed
  <2> QED
    BY <1>2, <1>3, SetInduction
<1> QED
  BY <1>1, <1>4

\* What an import leaves in the buffers is words, whatever the file is.
LEMMA ImportType ==
  ASSUME NEW file \in Seq(Record), NEW ranges \in SUBSET Address, NEW config
  PROVE  /\ ImportHexFile(file, ranges, config).image \in [Address -> Data]
         /\ ImportHexFile(file, ranges, config).hasConfigBits \in BOOLEAN
<1>1. Lines(file, ranges)[Len(file)] \in ImportState
  BY LinesType
<1> QED
  BY <1>1 DEF ImportHexFile, ImportState

-----------------------------------------------------------------------------
(* What is imported is what the records say.                               *)

WordOf(file, a, k) == file[k].words[a - Base(file, k) - file[k].at + 1]

\* The records on an address among the first n lines, and what they say.
OnOf(file, n, a) == {l \in On(file, a) : l <= n}

SaysOf(file, n, a) ==
  IF LastOf(OnOf(file, n, a)) = 0 THEN Blank ELSE WordOf(file, a, LastOf(OnOf(file, n, a)))

\* The last of some lines and a later one.
LEMMA LastAdded ==
  ASSUME NEW n \in Nat, NEW lines \in SUBSET (1 .. n)
  PROVE  LastOf(lines \cup {n + 1}) = n + 1
<1> DEFINE all == lines \cup {n + 1}
<1>1. n + 1 \in all /\ \A l \in all : l \in Nat /\ l <= n + 1
  OBVIOUS
<1>2. \A k \in all : (\A l \in all : l <= k) => k = n + 1
  BY <1>1
<1>3. all # {}
  OBVIOUS
<1>4. (CHOOSE k \in all : \A l \in all : l <= k) = n + 1
  <2> HIDE DEF all
  <2> QED
    BY <1>1, <1>2
<1> QED
  BY <1>3, <1>4 DEF LastOf

LEMMA LastNone == LastOf({}) = 0
BY DEF LastOf

\* Where the reading stands after n lines: at a line as long as every record
\* was heeded, its segment the one the next record counts from.
ReadSoFar(file, ranges, n) ==
  LET s == Lines(file, ranges)[n]
  IN  /\ s.at = "line" <=> 1 .. n \subseteq Heeded(file)
      /\ s.at = "line" => s.segment = Base(file, n + 1)
      /\ s.at = "error" <=>
           \E k \in 1 .. n : Broken(file[k]) /\ 1 .. k - 1 \subseteq Heeded(file)
      /\ \A a \in Address : s.image[a] = IF a \in ranges THEN SaysOf(file, n, a) ELSE Blank
      /\ s.imported = {a \in ranges : OnOf(file, n, a) # {}}

LEMMA ReadSoFarStart ==
  ASSUME NEW file \in Seq(Record), NEW ranges \in SUBSET Address
  PROVE  ReadSoFar(file, ranges, 0)
<1>1. Len(file) \in Nat /\ DOMAIN file = 1 .. Len(file)
  OBVIOUS
<1>2. Lines(file, ranges)[0] = Opened
  BY <1>1, LinesDef
<1>3. 1 .. 0 = {}
  OBVIOUS
<1>4. Base(file, 0 + 1) = 0
  <2>1. {l \in DOMAIN file : l < 0 + 1 /\ Extended(file[l])} = {}
    BY <1>1
  <2> QED
    BY <2>1, LastNone DEF Base
<1>5. \A a \in Address : OnOf(file, 0, a) = {} /\ SaysOf(file, 0, a) = Blank
  <2>1. \A a : OnOf(file, 0, a) = {}
    BY <1>1 DEF OnOf, On, Heeded
  <2> QED
    BY <2>1, LastNone DEF SaysOf
<1> QED
  BY <1>2, <1>3, <1>4, <1>5 DEF ReadSoFar, Opened, BlankImage

LEMMA HeededFacts ==
  ASSUME NEW file \in Seq(Record), NEW n \in Nat, n + 1 <= Len(file)
  PROVE  /\ n + 1 \in Heeded(file) <=>
              /\ 1 .. n \subseteq Heeded(file)
              /\ file[n + 1].type # "END_OF_FILE" /\ ~Broken(file[n + 1])
         /\ 1 .. n + 1 \subseteq Heeded(file) <=> n + 1 \in Heeded(file)
<1>1. Len(file) \in Nat /\ DOMAIN file = 1 .. Len(file)
  OBVIOUS
<1>2. 1 .. n + 1 = (1 .. n) \cup {n + 1}
  OBVIOUS
<1>3. \A k \in 1 .. n + 1 : k \in DOMAIN file
  BY <1>1
<1>4. \A k \in 1 .. n + 1 : k \in Heeded(file) <=>
        \A l \in 1 .. k : file[l].type # "END_OF_FILE" /\ ~Broken(file[l])
  BY <1>3 DEF Heeded
<1>5. n + 1 \in Heeded(file) => 1 .. n \subseteq Heeded(file)
  <2> SUFFICES ASSUME n + 1 \in Heeded(file), NEW k \in 1 .. n PROVE k \in Heeded(file)
    OBVIOUS
  <2>1. \A l \in 1 .. k : l \in 1 .. n + 1
    OBVIOUS
  <2> QED
    BY <1>4, <2>1
<1>6. 1 .. n \subseteq Heeded(file) =>
        \A l \in 1 .. n : file[l].type # "END_OF_FILE" /\ ~Broken(file[l])
  BY <1>4
<1> QED
  BY <1>2, <1>4, <1>5, <1>6

\* A line that stores nothing leaves what was said.
LEMMA SaidStays ==
  ASSUME NEW file, NEW n \in Nat, NEW a,
         n + 1 \notin On(file, a), On(file, a) \subseteq Nat
  PROVE  OnOf(file, n + 1, a) = OnOf(file, n, a) /\ SaysOf(file, n + 1, a) = SaysOf(file, n, a)
<1>1. OnOf(file, n + 1, a) = OnOf(file, n, a)
  BY DEF OnOf
<1> QED
  BY <1>1 DEF SaysOf

LEMMA SaidAdded ==
  ASSUME NEW file \in Seq(Record), NEW n \in Nat, NEW a, n + 1 \in On(file, a)
  PROVE  /\ OnOf(file, n + 1, a) # {}
         /\ SaysOf(file, n + 1, a) = WordOf(file, a, n + 1)
<1>1. On(file, a) \subseteq 1 .. Len(file) /\ Len(file) \in Nat
  BY DEF On, Heeded
<1>2. OnOf(file, n, a) \in SUBSET (1 .. n)
  BY <1>1 DEF OnOf
<1>3. OnOf(file, n + 1, a) = OnOf(file, n, a) \cup {n + 1}
  BY <1>1 DEF OnOf
<1>4. LastOf(OnOf(file, n + 1, a)) = n + 1
  BY <1>2, <1>3, LastAdded
<1> QED
  BY <1>3, <1>4 DEF SaysOf

\* One more line.
LEMMA ReadSoFarNext ==
  ASSUME NEW file \in Seq(Record), NEW ranges \in SUBSET Address,
         NEW n \in Nat, n + 1 <= Len(file), ReadSoFar(file, ranges, n)
  PROVE  ReadSoFar(file, ranges, n + 1)
<1> DEFINE s == Lines(file, ranges)[n]
           t == Lines(file, ranges)[n + 1]
           r == file[n + 1]
           good == 1 .. n \subseteq Heeded(file)
           torn(m) == \E k \in 1 .. m : Broken(file[k]) /\ 1 .. k - 1 \subseteq Heeded(file)
<1>1. Len(file) \in Nat /\ DOMAIN file = 1 .. Len(file) /\ n \in 0 .. Len(file)
      /\ n + 1 \in 1 .. Len(file)
  OBVIOUS
<1>2. t = Line(s, r, ranges)
  <2>1. n + 1 \in 0 .. Len(file) /\ n + 1 # 0 /\ n + 1 - 1 = n
    BY <1>1
  <2> QED
    BY <1>1, <2>1, LinesDef
<1>3. s \in ImportState /\ r \in Record
  BY <1>1, LinesType
<1>4. /\ s.at = "line" <=> good
      /\ s.at = "line" => s.segment = Base(file, n + 1)
      /\ s.at = "error" <=> torn(n)
      /\ \A a \in Address : s.image[a] = IF a \in ranges THEN SaysOf(file, n, a) ELSE Blank
      /\ s.imported = {a \in ranges : OnOf(file, n, a) # {}}
  BY DEF ReadSoFar
<1>5. /\ n + 1 \in Heeded(file) <=> good /\ r.type # "END_OF_FILE" /\ ~Broken(r)
      /\ 1 .. n + 1 \subseteq Heeded(file) <=> n + 1 \in Heeded(file)
  BY HeededFacts
<1>6. torn(n + 1) <=> torn(n) \/ (Broken(r) /\ good)
  <2>1. \A k \in 1 .. n + 1 : k \in 1 .. n \/ k = n + 1
    OBVIOUS
  <2>2. n + 1 \in 1 .. n + 1 /\ n + 1 - 1 = n /\ 1 .. n \subseteq 1 .. n + 1
    OBVIOUS
  <2> QED
    BY <2>1, <2>2
<1>7. \A a : On(file, a) \subseteq Nat
  BY <1>1 DEF On, Heeded
<1> HIDE DEF torn
<1> SUFFICES
      /\ t.at = "line" <=> 1 .. n + 1 \subseteq Heeded(file)
      /\ t.at = "line" => t.segment = Base(file, n + 1 + 1)
      /\ t.at = "error" <=> torn(n + 1)
      /\ \A a \in Address : t.image[a] = IF a \in ranges THEN SaysOf(file, n + 1, a) ELSE Blank
      /\ t.imported = {a \in ranges : OnOf(file, n + 1, a) # {}}
  BY DEF ReadSoFar, torn
<1> HIDE DEF s, t, r, good
<1>8. ASSUME t.image = s.image, t.imported = s.imported, \A a : n + 1 \notin On(file, a)
      PROVE  /\ \A a \in Address :
                   t.image[a] = IF a \in ranges THEN SaysOf(file, n + 1, a) ELSE Blank
             /\ t.imported = {a \in ranges : OnOf(file, n + 1, a) # {}}
  <2>1. \A a : OnOf(file, n + 1, a) = OnOf(file, n, a) /\ SaysOf(file, n + 1, a) = SaysOf(file, n, a)
    BY <1>7, <1>8, SaidStays
  <2> QED
    BY <1>4, <1>8, <2>1
<1>9. ASSUME n + 1 \notin Heeded(file) \/ r.type # "DATA", NEW a PROVE n + 1 \notin On(file, a)
  BY <1>9 DEF On, r
<1>10. Base(file, n + 1 + 1) = IF ~Extended(r) THEN Base(file, n + 1) ELSE r.upper * Unit(r.type)
  <2> DEFINE heads(k) == {l \in DOMAIN file : l < k /\ Extended(file[l])}
  <2>1. CASE ~Extended(r)
    <3>1. heads(n + 1 + 1) = heads(n + 1)
      BY <1>1, <2>1 DEF r
    <3> QED
      BY <2>1, <3>1 DEF Base
  <2>2. CASE Extended(r)
    <3>1. heads(n + 1 + 1) = heads(n + 1) \cup {n + 1} /\ heads(n + 1) \in SUBSET (1 .. n)
      BY <1>1, <2>2 DEF r
    <3>2. LastOf(heads(n + 1 + 1)) = n + 1
      BY <3>1, LastAdded
    <3>3. n + 1 # 0
      OBVIOUS
    <3> QED
      BY <2>2, <3>2, <3>3 DEF Base, Unit, r
  <2> QED
    BY <2>1, <2>2
<1>11. CASE s.at # "line"
  <2>1. t = s
    BY <1>2, <1>11 DEF Line
  <2> QED
    BY <1>4, <1>5, <1>6, <1>8, <1>9, <1>11, <2>1
<1>12. CASE s.at = "line" /\ Broken(r)
  <2>1. t = [s EXCEPT !.at = "error"]
    BY <1>2, <1>12 DEF Line
  <2>2. t.at = "error" /\ t.image = s.image /\ t.imported = s.imported
    BY <1>3, <2>1 DEF ImportState
  <2> QED
    BY <1>4, <1>5, <1>6, <1>8, <1>9, <1>12, <2>2
<1>13. CASE s.at = "line" /\ ~Broken(r) /\ r.type = "END_OF_FILE"
  <2>1. t = [s EXCEPT !.at = "end"]
    BY <1>2, <1>13 DEF Line, Extended
  <2>2. t.at = "end" /\ t.image = s.image /\ t.imported = s.imported
    BY <1>3, <2>1 DEF ImportState
  <2> QED
    BY <1>4, <1>5, <1>6, <1>8, <1>9, <1>13, <2>2
<1>14. CASE s.at = "line" /\ ~Broken(r) /\ Extended(r)
  <2>1. r.type # "END_OF_FILE" /\ r.type # "DATA" /\ r.type # "other"
    BY <1>14 DEF Extended
  <2>2. t = [s EXCEPT !.segment = r.upper * Unit(r.type)]
    BY <1>2, <1>14, <2>1 DEF Line
  <2>3. t.at = "line" /\ t.segment = r.upper * Unit(r.type)
        /\ t.image = s.image /\ t.imported = s.imported
    BY <1>3, <1>14, <2>2 DEF ImportState
  <2> QED
    BY <1>4, <1>5, <1>6, <1>8, <1>9, <1>10, <1>14, <2>1, <2>3
<1>15. CASE s.at = "line" /\ ~Broken(r) /\ r.type = "other"
  <2>1. t = s /\ ~Extended(r)
    BY <1>2, <1>15 DEF Line, Extended
  <2> QED
    BY <1>4, <1>5, <1>6, <1>8, <1>9, <1>10, <1>15, <2>1
<1>16. CASE s.at = "line" /\ ~Broken(r) /\ r.type = "DATA"
  <2> DEFINE in == Placed(r, s.segment) \cap ranges
             new == [a \in Address |->
                       IF a \in in THEN r.words[a - s.segment - r.at + 1] ELSE s.image[a]]
  <2>1. ~Extended(r) /\ t = Store(s, r, ranges)
    BY <1>2, <1>16 DEF Line, Extended
  <2>2. t = [s EXCEPT !.image = new, !.imported = s.imported \cup in]
    BY <2>1 DEF Store
  <2>3. t.at = "line" /\ t.segment = s.segment /\ t.image = new /\ t.imported = s.imported \cup in
    <3> HIDE DEF new, in
    <3> QED
      BY <1>3, <1>16, <2>2 DEF ImportState
  <2>4. n + 1 \in Heeded(file) /\ s.segment = Base(file, n + 1) /\ s.segment \in Nat
        /\ r.at \in Nat /\ Len(r.words) \in Nat
    BY <1>3, <1>4, <1>5, <1>16 DEF ImportState, Record
  <2>5. ASSUME NEW a \in ranges PROVE a \in in <=> n + 1 \in On(file, a)
    <3>1. a \in Int
      BY DEF Address
    <3>2. n + 1 \in On(file, a) <=> a - s.segment - r.at \in 0 .. Len(r.words) - 1
      BY <1>16, <2>4 DEF On, r
    <3>3. a \in in <=> a \in s.segment + r.at .. s.segment + r.at + Len(r.words) - 1
      BY DEF Placed
    <3> HIDE DEF in
    <3> QED
      BY ONLY <2>4, <3>1, <3>2, <3>3
  <2>6. ASSUME NEW a \in Address
        PROVE  t.image[a] = IF a \in ranges THEN SaysOf(file, n + 1, a) ELSE Blank
    <3>1. CASE a \in in
      <4>1. SaysOf(file, n + 1, a) = WordOf(file, a, n + 1)
        BY <2>5, <3>1, SaidAdded
      <4>2. WordOf(file, a, n + 1) = r.words[a - s.segment - r.at + 1]
        BY <2>4 DEF WordOf, r
      <4> QED
        BY <2>3, <3>1, <4>1, <4>2
    <3>2. CASE a \in ranges /\ a \notin in
      <4>1. n + 1 \notin On(file, a)
        BY <2>5, <3>2
      <4>2. SaysOf(file, n + 1, a) = SaysOf(file, n, a)
        BY <1>7, <4>1, SaidStays
      <4> QED
        BY <1>4, <2>3, <3>2, <4>2
    <3>3. CASE a \notin ranges
      BY <1>4, <2>3, <3>3
    <3> QED
      BY <3>1, <3>2, <3>3
  <2>7. ASSUME NEW a \in ranges
        PROVE  OnOf(file, n + 1, a) # {} <=> OnOf(file, n, a) # {} \/ a \in in
    BY <1>7, <2>5, SaidAdded, SaidStays
  <2>8. t.imported = {a \in ranges : OnOf(file, n + 1, a) # {}}
    <3> HIDE DEF in
    <3>1. in \subseteq ranges
      BY DEF in
    <3> QED
      BY <1>4, <2>3, <2>7, <3>1
  <2> QED
    BY <1>4, <1>5, <1>6, <1>10, <1>16, <2>1, <2>3, <2>4, <2>6, <2>8
<1> QED
  BY <1>3, <1>11, <1>12, <1>13, <1>14, <1>15, <1>16 DEF Record, Extended

LEMMA ReadSoFarAlways ==
  ASSUME NEW file \in Seq(Record), NEW ranges \in SUBSET Address
  PROVE  ReadSoFar(file, ranges, Len(file))
<1> DEFINE Good == {n \in Nat : n <= Len(file) => ReadSoFar(file, ranges, n)}
<1>1. Len(file) \in Nat
  OBVIOUS
<1>2. 0 \in Good
  BY ReadSoFarStart
<1>3. ASSUME NEW n \in Nat, n \in Good PROVE n + 1 \in Good
  BY <1>1, <1>3, ReadSoFarNext
<1>4. Nat \subseteq Good
  <2> HIDE DEF Good
  <2> QED
    BY <1>2, <1>3, SetInduction
<1> QED
  BY <1>1, <1>4

\* What the buffers hold in the end.
LEMMA ImportedImage ==
  ASSUME NEW file \in Seq(Record), NEW ranges \in SUBSET Address, NEW config
  PROVE  ImportHexFile(file, ranges, config).image =
           [a \in Address |-> IF a \in ranges THEN Says(file, a) ELSE Blank]
<1> DEFINE end == Lines(file, ranges)[Len(file)]
<1>1. ReadSoFar(file, ranges, Len(file)) /\ end \in ImportState
  BY ReadSoFarAlways, LinesType
<1>2. \A a : SaysOf(file, Len(file), a) = Says(file, a)
  <2>1. \A a : OnOf(file, Len(file), a) = On(file, a)
    BY DEF OnOf, On, Heeded
  <2> QED
    BY <2>1 DEF SaysOf, Says, WordOf
<1>3. end.image \in [Address -> Data]
      /\ \A a \in Address : end.image[a] = IF a \in ranges THEN Says(file, a) ELSE Blank
  BY <1>1, <1>2 DEF ReadSoFar, ImportState
<1> QED
  BY <1>3 DEF ImportHexFile

\* Whatever the file is and whatever ranges it is opened with, what LoadFile
\* finds in the buffers afterwards is what the records of the file say of each
\* programmable word, those after the end or a broken line left out; an error
\* is reported exactly when a broken line was come to, and "configuration
\* words present" exactly when a record was on one (ImportExportHex.cpp:67-282).
THEOREM ImportedAsSaid ==
  ASSUME NEW file \in Seq(Record), NEW ranges \in SUBSET Address, NEW config
  PROVE  LET import == ImportHexFile(file, ranges, config)
         IN  /\ import.image =
                  [a \in Address |-> IF a \in ranges THEN Says(file, a) ELSE Blank]
             /\ import.hasConfigBits <=> \E a \in ranges \cap config : On(file, a) # {}
             /\ import.result = "ErrorInHexFile" <=>
                  \E k \in DOMAIN file : Broken(file[k]) /\ 1 .. k - 1 \subseteq Heeded(file)
<1> DEFINE end == Lines(file, ranges)[Len(file)]
<1>1. ReadSoFar(file, ranges, Len(file)) /\ end \in ImportState
  BY ReadSoFarAlways, LinesType
<1>2. \A a : OnOf(file, Len(file), a) = On(file, a)
  BY DEF OnOf, On, Heeded
<1>3. end.image = [a \in Address |-> IF a \in ranges THEN Says(file, a) ELSE Blank]
  BY ImportedImage DEF ImportHexFile
<1>4. end.imported = {a \in ranges : On(file, a) # {}}
  BY <1>1, <1>2 DEF ReadSoFar
<1>5. end.at = "error" <=>
        \E k \in DOMAIN file : Broken(file[k]) /\ 1 .. k - 1 \subseteq Heeded(file)
  BY <1>1 DEF ReadSoFar
<1> QED
  BY <1>3, <1>4, <1>5 DEF ImportHexFile

-----------------------------------------------------------------------------
(* The inductive invariant.                                                *)

HostTypeOK ==
  /\ hpc \in {"idle", "lock", "query", "answer", "erase", "program", "complete",
              "programmed", "read", "reply", "stuck"}
  /\ task \in {"none", "connect", "settings", "load", "erase", "write", "verify", "blank"}
  /\ handle \in {"open", "stale", "none"}
  /\ enabled \in BOOLEAN /\ writeConfig \in BOOLEAN /\ hexOpen \in BOOLEAN
  /\ view \in Views /\ hexView \in Views
  /\ image \in [Address -> Data]
  /\ region \in {"program", "config"} /\ addr \in Nat
  /\ skipping \in BOOLEAN /\ completed \in BOOLEAN /\ mismatch \in BOOLEAN
  /\ report \in {"none", "failed", "success"}
  /\ faults \in 0 .. MaxFaults

SystemTypeOK == DeviceTypeOK /\ HostTypeOK

\* A transfer stays inside its range, and an outcome is only shown while
\* nothing runs.
Progress ==
  /\ hpc \in {"program", "read", "reply"} => addr % 2 = 0 /\ RegionStart(region) <= addr
  /\ hpc = "program" => addr < ProgramEnd
  /\ hpc = "reply" => addr < ReadEnd
  /\ hpc = "read" => addr <= ReadEnd
  /\ report # "none" => hpc = "idle"
  /\ completed => skipping

\* The commands that are answered, and the one the running task waits for.
Asking == {"QUERY_DEVICE", "GET_DATA"}

Expected(pkt) ==
  /\ handle = "open"
  /\ \/ hpc = "answer" /\ pkt.cmd = "QUERY_DEVICE"
     \/ /\ hpc = "reply" /\ pkt.cmd = "GET_DATA"
        /\ pkt.addr = addr /\ pkt.size = Shorter(ReadEnd - addr)

\* At most one question is on its way, and it is the one awaited; its answer
\* is what the memory still holds.
Exchange ==
  /\ outPacket.cmd \in Asking => Expected(outPacket)
  /\ (pc = "dispatch" /\ packet.cmd \in Asking) =>
       Expected(packet) /\ ~Full(outPacket) /\ ~Full(inPacket)
  /\ Full(inPacket) => Expected(inPacket) /\ pc = "idle" /\ ~Full(outPacket)
  /\ (Full(inPacket) /\ inPacket.cmd = "GET_DATA") =>
       \A i \in 0 .. inPacket.size - 1 : Payload(inPacket, i) = flash[inPacket.addr + i]

\* Where the section will stand when the running command is over, and when
\* the one after it is.
Running(cmd) == pc # "idle" /\ packet.cmd = cmd

AfterRunning ==
  IF Running("PROGRAM_DEVICE") THEN packet.addr + packet.size
  ELSE IF Running("PROGRAM_COMPLETE") THEN InvalidAddress ELSE pointer

AfterSent ==
  IF outPacket.cmd = "PROGRAM_DEVICE" THEN outPacket.addr + outPacket.size
  ELSE IF outPacket.cmd = "PROGRAM_COMPLETE" THEN InvalidAddress ELSE AfterRunning

\* The host's skipping and addr say whether a section is open, and where.
Sections ==
  /\ ContiguousSections
  /\ outPacket.cmd = "PROGRAM_DEVICE" => AfterRunning \in {InvalidAddress, outPacket.addr}
  /\ (handle = "open" /\ hpc = "program") =>
       AfterSent = IF skipping THEN InvalidAddress ELSE addr
  /\ ~(handle = "open" /\ hpc \in {"program", "complete"}) => AfterSent = InvalidAddress

\* No command that changes the memory is running or on its way.
Writing == {"ERASE_DEVICE", "PROGRAM_DEVICE", "PROGRAM_COMPLETE"}

Calm == outPacket.cmd \notin Writing /\ (pc # "idle" => packet.cmd \notin Writing)

\* The words read back so far, and those an outcome on display stands for.
ReadBack ==
  IF hpc \in {"read", "reply"}
    THEN (IF region = "config" THEN Range(view, "program") ELSE {})
           \cup (RegionStart(region) .. addr - 1)
    ELSE {}

Stands == report = "success" /\ task \in {"write", "verify"}

Verified ==
  /\ (ReadBack # {} \/ Stands) => Calm
  /\ (task \in {"write", "verify"} /\ ~mismatch) =>
       \A a \in ReadBack \cap RangesOf(hexView) : flash[a] = image[a]
  /\ VerifiedImage

\* Every word on its way to the memory is the image's.
Imaged(pkt) ==
  /\ UserStart <= pkt.addr
  /\ \A i \in 0 .. pkt.size - 1 : Payload(pkt, i) = image[pkt.addr + i]

Programming == {"PROGRAM_DEVICE", "PROGRAM_COMPLETE"}

FromImage ==
  /\ outPacket.cmd = "PROGRAM_DEVICE" => Imaged(outPacket)
  /\ Running("PROGRAM_DEVICE") => Imaged(packet)
  /\ \A w \in Buffered : UserStart <= w[1] /\ w[2] = image[w[1]]
  /\ ~(handle = "open" /\ hpc \in {"program", "complete", "programmed", "read", "reply"}) =>
       /\ outPacket.cmd \notin Programming /\ (pc # "idle" => packet.cmd \notin Programming)
       /\ pointer = InvalidAddress

SystemInv ==
  DeviceInv /\ HostTypeOK /\ Progress /\ Exchange /\ Sections /\ Verified /\ FromImage

-----------------------------------------------------------------------------
(* The ranges.                                                             *)

LEMMA RangeFacts ==
  /\ UserStart \in Nat /\ EndNoConfigs \in Nat /\ ConfigStart \in Nat /\ ConfigEnd \in Nat
  /\ UserStart < EndNoConfigs /\ EndNoConfigs <= ConfigStart /\ ConfigStart < ConfigEnd
  /\ UserStart % 2 = 0 /\ EndNoConfigs % 2 = 0 /\ ConfigStart % 2 = 0 /\ ConfigEnd % 2 = 0
<1>1. /\ PageWords \in Nat /\ PageWords > 0 /\ PageWords % 2 = 0
      /\ StartPage \in Nat /\ EndPageNoConfigs \in Nat /\ EndPageConfigs \in Nat
      /\ StartPage < EndPageNoConfigs + 1
      /\ ConfigStart \in Nat /\ ConfigStart % 2 = 0
      /\ EndNoConfigs <= ConfigStart /\ ConfigStart < ConfigEnd
  BY LayoutAssumption DEF LayoutAssumption, EndNoConfigs, ConfigEnd
<1>2. PICK half \in Nat : PageWords = 2 * half
  <2>1. PageWords \div 2 \in Nat /\ PageWords = 2 * (PageWords \div 2)
    BY <1>1
  <2> QED
    BY <2>1
<1>3. ASSUME NEW p \in Nat PROVE p * PageWords \in Nat /\ (p * PageWords) % 2 = 0
  <2>1. p * PageWords = 2 * (p * half) /\ p * half \in Nat
    BY <1>2
  <2> QED
    BY <2>1
<1>4. StartPage * PageWords < (EndPageNoConfigs + 1) * PageWords
  BY <1>1
<1>5. EndPageNoConfigs + 1 \in Nat /\ EndPageConfigs + 1 \in Nat
  BY <1>1
<1> QED
  BY <1>1, <1>3, <1>4, <1>5 DEF UserStart, EndNoConfigs, ConfigEnd

LEMMA RegionFacts ==
  ASSUME NEW v \in Views, NEW r \in {"program", "config"}
  PROVE  /\ RegionStart(r) \in Nat /\ RegionEnd(v, r) \in Nat
         /\ RegionStart(r) % 2 = 0 /\ RegionEnd(v, r) % 2 = 0
         /\ UserStart <= RegionStart(r) /\ RegionStart(r) < RegionEnd(v, r)
         /\ RegionEnd(v, r) <= ConfigEnd
BY RangeFacts DEF RegionStart, RegionEnd

LEMMA ShorterFacts ==
  ASSUME NEW n \in Nat, n > 0
  PROVE  /\ Shorter(n) \in 1 .. PacketWords /\ Shorter(n) <= n
         /\ n % 2 = 0 => Shorter(n) % 2 = 0
BY LayoutFacts DEF Shorter

LEMMA RangesInMemory ==
  ASSUME NEW v \in Views
  PROVE  RangesOf(v) \in SUBSET Address
<1>1. Range(v, "program") \subseteq Address /\ Range(v, "config") \subseteq Address
  BY RangeFacts DEF Range, RegionStart, RegionEnd, Address
<1> QED
  BY <1>1 DEF RangesOf, Views

-----------------------------------------------------------------------------
(* The packets the host sends.                                             *)

LEMMA PlainWellFormed ==
  ASSUME NEW cmd \in Commands
  PROVE  WellFormed(Plain(cmd)) /\ Plain(cmd).cmd = cmd
<1>1. NoData \in [Slot -> Data]
  BY DEF NoData, Data
<1>2. Plain(cmd) \in Packet
  BY PlainFacts
<1> QED
  BY <1>1, <1>2, LayoutFacts DEF WellFormed, Plain

LEMMA LockWellFormed ==
  ASSUME HostTypeOK
  PROVE  LET pkt == [Plain("UNLOCK_CONFIG") EXCEPT !.unlock = writeConfig]
         IN  WellFormed(pkt) /\ pkt.cmd = "UNLOCK_CONFIG"
<1>1. WellFormed(Plain("UNLOCK_CONFIG")) /\ writeConfig \in BOOLEAN
  BY PlainWellFormed DEF Commands, HostTypeOK
<1> QED
  BY <1>1 DEF WellFormed, Packet, Plain

LEMMA ReadPacketFacts ==
  ASSUME HostTypeOK, Progress, hpc = "read", addr < ReadEnd
  PROVE  LET pkt == [Plain("GET_DATA") EXCEPT !.addr = addr, !.size = Shorter(ReadEnd - addr)]
         IN  /\ WellFormed(pkt) /\ pkt.cmd = "GET_DATA"
             /\ pkt.addr = addr /\ pkt.size = Shorter(ReadEnd - addr)
<1> DEFINE size == Shorter(ReadEnd - addr)
<1>1. ReadEnd \in Nat /\ ReadEnd % 2 = 0 /\ ReadEnd <= ConfigEnd /\ ConfigEnd \in Nat
      /\ addr \in Nat /\ addr % 2 = 0 /\ addr < ReadEnd
  BY RegionFacts, RangeFacts DEF ReadEnd, HostTypeOK, Progress
<1>2. ReadEnd - addr \in Nat /\ ReadEnd - addr > 0 /\ (ReadEnd - addr) % 2 = 0
  BY <1>1
<1>3. size \in 1 .. PacketWords /\ size <= ReadEnd - addr /\ size % 2 = 0
  BY <1>2, ShorterFacts
<1>4. WellFormed(Plain("GET_DATA"))
  BY PlainWellFormed DEF Commands
<1>5. addr + size <= ConfigEnd /\ size \in 0 .. PacketWords
  BY <1>1, <1>3, LayoutFacts
<1> HIDE DEF size
<1> QED
  BY <1>1, <1>3, <1>4, <1>5 DEF WellFormed, Packet, Plain, size

LEMMA ProgramPacketFacts ==
  ASSUME HostTypeOK, Progress, hpc = "program"
  PROVE  /\ WellFormed(ProgramPacket) /\ ProgramPacket.cmd = "PROGRAM_DEVICE"
         /\ ProgramPacket.addr = addr /\ ProgramPacket.size = ProgramSize
         /\ Imaged(ProgramPacket)
         /\ ProgramSize \in 1 .. PacketWords
         /\ addr + PacketWords < ProgramEnd => ProgramSize = PacketWords
<1>1. ProgramEnd \in Nat /\ ProgramEnd % 2 = 0 /\ ProgramEnd <= ConfigEnd /\ ConfigEnd \in Nat
      /\ addr \in Nat /\ addr % 2 = 0 /\ addr < ProgramEnd /\ UserStart <= addr
  <2>1. RegionStart(region) \in Nat /\ UserStart <= RegionStart(region) /\ UserStart \in Nat
        /\ RegionStart(region) <= addr /\ addr \in Nat
    BY RegionFacts, RangeFacts DEF HostTypeOK, Progress
  <2> QED
    BY <2>1, RegionFacts, RangeFacts DEF ProgramEnd, HostTypeOK, Progress
<1>2. ProgramEnd - addr \in Nat /\ ProgramEnd - addr > 0 /\ (ProgramEnd - addr) % 2 = 0
  BY <1>1
<1>3. ProgramSize \in 1 .. PacketWords /\ ProgramSize <= ProgramEnd - addr /\ ProgramSize % 2 = 0
  BY <1>2, ShorterFacts DEF ProgramSize
<1>4. addr + ProgramSize <= ConfigEnd /\ ProgramSize \in 0 .. PacketWords
  BY <1>1, <1>3, LayoutFacts
<1>5. addr + PacketWords < ProgramEnd => ProgramSize = PacketWords
  <2>1. PacketWords \in Nat /\ (ProgramEnd - addr < PacketWords <=> ProgramEnd < addr + PacketWords)
    BY <1>1, LayoutFacts
  <2> QED
    BY <1>1, <2>1 DEF ProgramSize, Shorter
<1> DEFINE words == [s \in Slot |->
               IF s >= PacketWords - ProgramSize
                 THEN image[addr + s - (PacketWords - ProgramSize)] ELSE Blank]
<1>6. words \in [Slot -> Data]
  <2> SUFFICES ASSUME NEW s \in Slot, s >= PacketWords - ProgramSize
               PROVE  image[addr + s - (PacketWords - ProgramSize)] \in Data
    BY DEF Data
  <2>1. addr + s - (PacketWords - ProgramSize) \in Address
    BY <1>1, <1>3, <1>4, LayoutFacts DEF Slot, Address
  <2> QED
    BY <2>1 DEF HostTypeOK
<1>7. ProgramPacket = [Plain("PROGRAM_DEVICE") EXCEPT
                          !.addr = addr, !.size = ProgramSize, !.data = words]
  BY DEF ProgramPacket
<1>8. ASSUME NEW i \in 0 .. ProgramSize - 1
      PROVE  words[PacketWords - ProgramSize + i] = image[addr + i]
  <2>1. PacketWords - ProgramSize + i \in Slot
        /\ PacketWords - ProgramSize + i >= PacketWords - ProgramSize
        /\ addr + (PacketWords - ProgramSize + i) - (PacketWords - ProgramSize) = addr + i
    BY <1>1, <1>3, LayoutFacts DEF Slot
  <2> QED
    BY <2>1
<1>9. words \in [Slot -> Contents]
  BY <1>6 DEF Contents
<1> HIDE DEF words
<1>10. /\ ProgramPacket.cmd = "PROGRAM_DEVICE" /\ ProgramPacket.addr = addr
       /\ ProgramPacket.size = ProgramSize /\ ProgramPacket.data = words
  BY <1>7 DEF Plain
<1>11. Imaged(ProgramPacket)
  BY <1>1, <1>8, <1>10 DEF Imaged, Payload
<1>12. ProgramPacket \in Packet
  <2>1. Plain("PROGRAM_DEVICE") \in Packet
    BY PlainFacts DEF Commands
  <2> QED
    BY <1>1, <1>4, <1>7, <1>9, <2>1 DEF Packet
<1>13. WellFormed(ProgramPacket)
  BY <1>1, <1>3, <1>4, <1>6, <1>10, <1>12 DEF WellFormed, Commands
<1> QED
  BY <1>3, <1>5, <1>10, <1>11, <1>13

-----------------------------------------------------------------------------
(* What a step of the application does to the mailboxes.                   *)

\* The actions of the application that send nothing.
Local ==
  \/ Connection \/ Disconnection \/ ChangeSettings
  \/ (\E file \in Files : LoadFile(file) \/ LoadFails(file))
  \/ EraseButton \/ WriteButton \/ VerifyButton \/ BlankCheckButton
  \/ Relaunch
  \/ TransferFails \/ NextRange \/ RangeRead

LEMMA LocalLink ==
  ASSUME Local
  PROVE  UNCHANGED link
BY DEF Local, Connection, Disconnection, ChangeSettings, LoadFile, LoadFails, Import, EraseButton,
       WriteButton, VerifyButton, BlankCheckButton, Relaunch, TransferFails, GiveUp, NextRange,
       RangeRead

HostActs == Tasks \/ Reset \/ Local

LEMMA HostLink ==
  ASSUME HostTypeOK, Progress, HostActs
  PROVE  /\ inPacket' \in {inPacket, Empty}
         /\ outPacket' = outPacket \/ WellFormed(outPacket')
<1>1. CASE Local
  BY <1>1, LocalLink DEF link
<1>2. CASE LockUnlockConfig
  BY <1>2, LockWellFormed DEF LockUnlockConfig, Send
<1>3. CASE SendQuery
  BY <1>3, PlainWellFormed DEF SendQuery, Send, Commands
<1>4. CASE GetQuery
  BY <1>4 DEF GetQuery, Take
<1>5. CASE Erase
  BY <1>5, PlainWellFormed DEF Erase, Send, Commands
<1>6. CASE EraseAnswered
  BY <1>6 DEF EraseAnswered, Take
<1>7. CASE ProgramIterates
  BY <1>7, PlainWellFormed, ProgramPacketFacts DEF ProgramIterates, Send, Commands, link
<1>8. CASE ProgramCompletes
  BY <1>8, PlainWellFormed DEF ProgramCompletes, Send, Commands
<1>9. CASE SendRead
  BY <1>9, ReadPacketFacts DEF SendRead, Send
<1>10. CASE ReceiveRead
  BY <1>10 DEF ReceiveRead, Take
<1>11. CASE Reset
  BY <1>11, PlainWellFormed DEF Reset, Send, Commands, link
<1> QED
  BY <1>1, <1>2, <1>3, <1>4, <1>5, <1>6, <1>7, <1>8, <1>9, <1>10, <1>11
  DEF HostActs, Local, Tasks

-----------------------------------------------------------------------------
(* Types.                                                                  *)

LEMMA ImportedType ==
  ASSUME HostTypeOK, NEW file \in Files
  PROVE  /\ Imported(file).image \in [Address -> Data]
         /\ LacksConfig(file) \in BOOLEAN
<1>1. file \in Seq(Record) /\ RangesOf(view) \in SUBSET Address
  BY FilesAssumption, RangesInMemory DEF FilesAssumption, HostTypeOK
<1>2. Imported(file).image \in [Address -> Data] /\ Imported(file).hasConfigBits \in BOOLEAN
  BY <1>1, ImportType DEF Imported
<1> QED
  BY <1>2 DEF LacksConfig, HostTypeOK

LEMMA HostTypeTasks ==
  ASSUME DeviceInv, HostTypeOK, Progress, Tasks, UNCHANGED faults
  PROVE  HostTypeOK'
<1> USE DEF HostTypeOK, windowVars, transferVars
<1>1. CASE TransferFails
  BY <1>1 DEF TransferFails, GiveUp
<1>2. CASE LockUnlockConfig
  BY <1>2 DEF LockUnlockConfig, Send
<1>3. CASE SendQuery
  BY <1>3 DEF SendQuery, Send
<1>4. CASE GetQuery
  <2>1. view' \in Views /\ enabled' \in BOOLEAN
    BY <1>4 DEF GetQuery, Views
  <2>2. hpc' = "idle" /\ handle' = handle
        /\ UNCHANGED <<task, writeConfig, hexOpen, hexView, image, transferVars, report>>
    BY <1>4 DEF GetQuery, Take
  <2> QED
    BY <2>1, <2>2
<1>5. CASE Erase
  BY <1>5 DEF Erase, Send
<1>6. CASE EraseAnswered
  BY <1>6, RegionFacts DEF EraseAnswered, Take, StartRegion
<1>7. CASE ProgramIterates
  <2>1. addr + PacketWords \in Nat
    BY LayoutFacts
  <2>2. skipping' \in BOOLEAN /\ completed' \in BOOLEAN /\ handle' = handle
    BY <1>7 DEF ProgramIterates, DataSent, Send
  <2>3. hpc' \in {"program", "programmed", "complete"} /\ addr' = addr + PacketWords
    BY <1>7 DEF ProgramIterates, AfterLoop
  <2>4. UNCHANGED <<task, windowVars, region, mismatch, report>>
    BY <1>7 DEF ProgramIterates
  <2> QED
    BY <2>1, <2>2, <2>3, <2>4
<1>8. CASE ProgramCompletes
  BY <1>8 DEF ProgramCompletes, Send
<1>9. CASE NextRange
  BY <1>9, RegionFacts DEF NextRange, StartRegion
<1>10. CASE SendRead
  BY <1>10 DEF SendRead, Send
<1>11. CASE ReceiveRead
  <2>1. inPacket.size \in Nat
    BY LayoutFacts DEF DeviceInv, DeviceTypeOK, Packet
  <2>2. Differs \in BOOLEAN /\ Overrun \in BOOLEAN
    BY DEF Differs, Overrun
  <2>3. mismatch' \in BOOLEAN
    BY <1>11, <2>2 DEF ReceiveRead
  <2> QED
    BY <1>11, <2>1, <2>3 DEF ReceiveRead, Take
<1>12. CASE RangeRead
  <2>1. /\ hpc' \in {"idle", hpc} /\ report' \in {"failed", "success", report}
        /\ UNCHANGED <<task, handle, windowVars>>
    BY <1>12 DEF RangeRead
  <2>2. /\ region' \in {"config", region} /\ addr' \in {RegionStart("config"), addr}
        /\ skipping' \in {TRUE, skipping} /\ completed' \in {FALSE, completed}
        /\ mismatch' \in {FALSE, mismatch}
    BY <1>12 DEF RangeRead, StartRegion
  <2>3. RegionStart("config") \in Nat
    BY RegionFacts DEF Views
  <2>4. region' \in {"program", "config"} /\ addr' \in Nat
        /\ skipping' \in BOOLEAN /\ completed' \in BOOLEAN /\ mismatch' \in BOOLEAN
    BY <2>2, <2>3
  <2> QED
    BY <2>1, <2>4
<1> QED
  BY <1>1, <1>2, <1>3, <1>4, <1>5, <1>6, <1>7, <1>8, <1>9, <1>10, <1>11, <1>12 DEF Tasks

LEMMA HostTypeUser ==
  ASSUME HostTypeOK, User, UNCHANGED faults
  PROVE  HostTypeOK'
<1> USE DEF HostTypeOK, windowVars, transferVars, Start
<1>1. CASE Connection
  BY <1>1 DEF Connection
<1>2. CASE Disconnection
  BY <1>2 DEF Disconnection
<1>3. CASE ChangeSettings
  BY <1>3 DEF ChangeSettings
<1>4. ASSUME NEW file \in Files, LoadFile(file) PROVE HostTypeOK'
  BY <1>4, ImportedType DEF LoadFile, Import
<1>5. ASSUME NEW file \in Files, LoadFails(file) PROVE HostTypeOK'
  BY <1>5, ImportedType DEF LoadFails, Import, BlankImage, Data
<1>6. CASE EraseButton \/ WriteButton
  BY <1>6 DEF EraseButton, WriteButton
<1>7. CASE VerifyButton \/ BlankCheckButton
  BY <1>7, RegionFacts DEF VerifyButton, BlankCheckButton, StartRegion
<1>8. CASE Relaunch
  BY <1>8, RegionFacts DEF Relaunch, StartRegion, Views, BlankImage, Data
<1> QED
  BY <1>1, <1>2, <1>3, <1>4, <1>5, <1>6, <1>7, <1>8 DEF User

\* The handle the application holds when the device has left.
LEMMA LeavesFacts ==
  ASSUME Leaves
  PROVE  /\ handle' = IF handle = "open" THEN "stale" ELSE handle
         /\ UNCHANGED <<hpc, task, windowVars, transferVars, report>>
BY DEF Leaves

\* Every step, in the terms of the lemmas.
Leaving == Disruption /\ Leaves

LEMMA Steps ==
  ASSUME Next
  PROVE  \/ DeviceSteps /\ UNCHANGED <<hostVars, faults>>
         \/ Leaving
         \/ Tasks /\ UNCHANGED <<deviceVars, faults>>
         \/ User /\ UNCHANGED <<deviceVars, faults>>
         \/ Reset /\ UNCHANGED deviceVars
BY DEF Next, Device, DeviceResets, DeviceLeaves, Worker, User, UserResets, Leaving, Disruption

LEMMA TypesNext ==
  ASSUME DeviceInv, HostTypeOK, Progress, Next
  PROVE  DeviceInv' /\ HostTypeOK'
<1>1. DeviceInv'
  <2>1. CASE DeviceSteps
    BY <2>1, DeviceInvBystander, DeviceInvProgramDevice, DeviceInvBufferWord, DeviceInvProgramEnds,
       DeviceInvProgramComplete, DeviceInvWriteInstruction, DeviceInvFlushEnds
    DEF DeviceSteps, Bystander
  <2>2. CASE Leaving
    BY <2>2, DeviceInvDisruption DEF Leaving
  <2>3. CASE (Tasks \/ User \/ Reset) /\ UNCHANGED deviceVars
    <3>1. HostActs
      BY <2>3 DEF HostActs, User, Local, Tasks
    <3> QED
      BY <2>3, <3>1, HostLink, DeviceInvHost
  <2> QED
    BY <2>1, <2>2, <2>3, Steps
<1>2. HostTypeOK'
  <2>1. faults' \in 0 .. MaxFaults
    BY FaultsAssumption DEF HostTypeOK, FaultsAssumption, Next, Device, DeviceResets, DeviceLeaves,
       Worker, User, UserResets
  <2>2. CASE DeviceSteps /\ UNCHANGED <<hostVars, faults>>
    BY <2>2 DEF HostTypeOK, hostVars, windowVars, transferVars
  <2>3. CASE Leaving
    BY <2>1, <2>3, LeavesFacts DEF Leaving, HostTypeOK, windowVars, transferVars
  <2>4. CASE Tasks /\ UNCHANGED faults
    BY <2>4, HostTypeTasks
  <2>5. CASE User /\ UNCHANGED faults
    BY <2>5, HostTypeUser
  <2>6. CASE Reset
    BY <2>1, <2>6 DEF Reset, Send, HostTypeOK, windowVars, transferVars
  <2> QED
    BY <2>2, <2>3, <2>4, <2>5, <2>6, Steps
<1> QED
  BY <1>1, <1>2

-----------------------------------------------------------------------------
(* Progress.                                                               *)

LEMMA ProgressTasks ==
  ASSUME DeviceInv, HostTypeOK, Progress, Exchange, Tasks
  PROVE  Progress'
<1> USE DEF Progress, windowVars, transferVars, ProgramEnd, ReadEnd
<1>1. CASE TransferFails
  BY <1>1 DEF TransferFails, GiveUp, AtTransfer
<1>2. CASE LockUnlockConfig
  BY <1>2 DEF LockUnlockConfig
<1>3. CASE SendQuery
  BY <1>3 DEF SendQuery
<1>4. CASE GetQuery
  BY <1>4 DEF GetQuery
<1>5. CASE Erase
  BY <1>5 DEF Erase
<1>6. CASE EraseAnswered
  <2>1. hexView' = hexView /\ report' \in {report, "success", "failed"}
    BY <1>6 DEF EraseAnswered
  <2>2. CASE task = "write"
    BY <1>6, <2>2, RegionFacts DEF EraseAnswered, StartRegion, HostTypeOK
  <2>3. CASE task # "write"
    BY <1>6, <2>3 DEF EraseAnswered
  <2> QED
    BY <2>2, <2>3
<1>7. CASE ProgramIterates
  <2>1. /\ addr' = addr + PacketWords /\ addr \in Nat /\ addr % 2 = 0
        /\ PacketWords \in Nat /\ PacketWords % 2 = 0 /\ RegionStart(region) <= addr
        /\ UNCHANGED <<task, windowVars, region, mismatch, report>> /\ hpc = "program"
    BY <1>7, LayoutFacts DEF ProgramIterates, HostTypeOK
  <2>2. RegionStart(region) \in Nat
    BY RegionFacts DEF HostTypeOK
  <2>3. addr' % 2 = 0 /\ RegionStart(region) <= addr'
    BY <2>1, <2>2
  <2>4. hpc' \in {"program", "programmed", "complete"} /\ (hpc' = "program" => addr' < ProgramEnd)
    BY <1>7 DEF ProgramIterates, AfterLoop
  <2>5. completed' => skipping'
    BY <1>7 DEF ProgramIterates, DataSent
  <2> QED
    BY <2>1, <2>3, <2>4, <2>5
<1>8. CASE ProgramCompletes
  BY <1>8 DEF ProgramCompletes
<1>9. CASE NextRange
  BY <1>9, RegionFacts DEF NextRange, StartRegion, HostTypeOK
<1>10. CASE SendRead
  BY <1>10 DEF SendRead
<1>11. CASE ReceiveRead
  <2>1. /\ hpc = "reply" /\ addr < ReadEnd /\ addr % 2 = 0 /\ addr \in Nat
        /\ ReadEnd \in Nat /\ ReadEnd % 2 = 0 /\ RegionStart(region) <= addr
        /\ RegionStart(region) \in Nat
    BY <1>11, RegionFacts DEF ReceiveRead, HostTypeOK
  <2>2. addr' = addr + Shorter(ReadEnd - addr)
    BY <1>11 DEF ReceiveRead, Take, Exchange, Expected
  <2>3. ReadEnd - addr \in Nat /\ ReadEnd - addr > 0 /\ (ReadEnd - addr) % 2 = 0
    BY <2>1
  <2>4. Shorter(ReadEnd - addr) \in Nat /\ Shorter(ReadEnd - addr) <= ReadEnd - addr
        /\ Shorter(ReadEnd - addr) % 2 = 0
    BY <2>3, ShorterFacts, LayoutFacts
  <2>5. addr' % 2 = 0 /\ RegionStart(region) <= addr' /\ addr' <= ReadEnd
    BY <2>1, <2>2, <2>4
  <2> QED
    BY <1>11, <2>5 DEF ReceiveRead
<1>12. CASE RangeRead
  BY <1>12, RegionFacts DEF RangeRead, StartRegion, HostTypeOK
<1> QED
  BY <1>1, <1>2, <1>3, <1>4, <1>5, <1>6, <1>7, <1>8, <1>9, <1>10, <1>11, <1>12 DEF Tasks

LEMMA ProgressUser ==
  ASSUME HostTypeOK, Progress, User
  PROVE  Progress'
<1> USE DEF Progress, windowVars, transferVars, Start, ProgramEnd, ReadEnd
<1>1. CASE Connection
  BY <1>1 DEF Connection
<1>2. CASE Disconnection
  BY <1>2 DEF Disconnection
<1>3. CASE ChangeSettings
  BY <1>3 DEF ChangeSettings
<1>4. ASSUME NEW file \in Files, LoadFile(file) \/ LoadFails(file) PROVE Progress'
  BY <1>4 DEF LoadFile, LoadFails, Import
<1>5. CASE EraseButton \/ WriteButton
  BY <1>5 DEF EraseButton, WriteButton
<1>6. CASE VerifyButton \/ BlankCheckButton
  BY <1>6, RegionFacts DEF VerifyButton, BlankCheckButton, StartRegion, HostTypeOK
<1>7. CASE Relaunch
  BY <1>7 DEF Relaunch, StartRegion
<1> QED
  BY <1>1, <1>2, <1>3, <1>4, <1>5, <1>6, <1>7 DEF User

LEMMA ProgressNext ==
  ASSUME DeviceInv, HostTypeOK, Progress, Exchange, Next
  PROVE  Progress'
<1> USE DEF Progress, windowVars, transferVars, ProgramEnd, ReadEnd
<1>1. CASE UNCHANGED hostVars
  BY <1>1 DEF hostVars
<1>2. CASE Leaving
  BY <1>2, LeavesFacts DEF Leaving
<1>3. CASE Reset
  BY <1>3 DEF Reset
<1> QED
  BY <1>1, <1>2, <1>3, ProgressTasks, ProgressUser, Steps

-----------------------------------------------------------------------------
(* Exchange: questions and answers.                                        *)

Waiting == handle = "open" /\ hpc \in {"answer", "reply"}

\* Nothing is asked and nothing is in the answer's mailbox.
Unasked ==
  /\ outPacket.cmd \notin Asking /\ ~Full(inPacket)
  /\ pc = "dispatch" => packet.cmd \notin Asking

LEMMA NothingAsked ==
  ASSUME Exchange, ~Waiting
  PROVE  Unasked
BY DEF Exchange, Expected, Waiting, Unasked

LEMMA AnswerTaken ==
  ASSUME Exchange, Take
  PROVE  /\ Expected(inPacket) /\ pc = "idle" /\ ~Full(outPacket)
         /\ inPacket' = Empty /\ outPacket' = outPacket /\ handle' = handle
BY DEF Exchange, Take

\* A step of the application that asks nothing.
LEMMA ExchangeUnasked ==
  ASSUME Unasked, UNCHANGED deviceVars, inPacket' = inPacket,
         outPacket' = outPacket \/ outPacket'.cmd \notin Asking
  PROVE  Exchange'
BY DEF Unasked, Exchange, deviceVars

LEMMA ExchangeTaken ==
  ASSUME Exchange, Take, UNCHANGED deviceVars
  PROVE  Exchange'
<1>1. pc' = "idle" /\ ~Full(outPacket') /\ ~Full(inPacket')
  BY AnswerTaken, PlainFacts DEF Empty, deviceVars
<1> QED
  BY <1>1 DEF Exchange, Asking, Full

LEMMA ExchangeTasks ==
  ASSUME HostTypeOK, Progress, Exchange, Tasks, UNCHANGED deviceVars
  PROVE  Exchange'
<1> USE DEF Asking, Waiting
<1>1. CASE TransferFails
  BY <1>1, NothingAsked, ExchangeUnasked DEF TransferFails, GiveUp, Lost, link
<1>2. CASE LockUnlockConfig
  BY <1>2, NothingAsked, ExchangeUnasked, LockWellFormed DEF LockUnlockConfig, Send
<1>3. CASE SendQuery
  <2>1. Unasked /\ handle' = "open" /\ hpc' = "answer" /\ inPacket' = inPacket
        /\ outPacket'.cmd = "QUERY_DEVICE"
    BY <1>3, NothingAsked, PlainFacts DEF SendQuery, Send, Commands
  <2> QED
    BY <2>1 DEF Unasked, Exchange, Expected, deviceVars
<1>4. CASE GetQuery
  BY <1>4, ExchangeTaken DEF GetQuery
<1>5. CASE Erase
  BY <1>5, NothingAsked, ExchangeUnasked, PlainFacts DEF Erase, Send, Commands
<1>6. CASE EraseAnswered
  BY <1>6, ExchangeTaken DEF EraseAnswered
<1>7. CASE ProgramIterates
  <2>1. outPacket' = outPacket \/ outPacket'.cmd \notin Asking
    BY <1>7, ProgramPacketFacts, PlainFacts DEF ProgramIterates, Send, Commands, link
  <2>2. hpc = "program" /\ inPacket' = inPacket
    BY <1>7 DEF ProgramIterates, Send, link
  <2> QED
    BY <2>1, <2>2, NothingAsked, ExchangeUnasked
<1>8. CASE ProgramCompletes
  BY <1>8, NothingAsked, ExchangeUnasked, PlainFacts DEF ProgramCompletes, Send, Commands
<1>9. CASE NextRange
  BY <1>9, NothingAsked, ExchangeUnasked DEF NextRange, link
<1>10. CASE SendRead
  <2>1. Unasked /\ handle' = "open" /\ hpc' = "reply" /\ inPacket' = inPacket
        /\ outPacket'.cmd = "GET_DATA" /\ outPacket'.addr = addr
        /\ outPacket'.size = Shorter(ReadEnd - addr)
        /\ UNCHANGED <<addr, view, region>>
    BY <1>10, NothingAsked, ReadPacketFacts DEF SendRead, Send, windowVars, transferVars
  <2> QED
    BY <2>1 DEF Unasked, Exchange, Expected, deviceVars, ReadEnd
<1>11. CASE ReceiveRead
  BY <1>11, ExchangeTaken DEF ReceiveRead
<1>12. CASE RangeRead
  BY <1>12, NothingAsked, ExchangeUnasked DEF RangeRead, link
<1> QED
  BY <1>1, <1>2, <1>3, <1>4, <1>5, <1>6, <1>7, <1>8, <1>9, <1>10, <1>11, <1>12 DEF Tasks

\* What the user and the timer do is done while nothing is awaited.
LEMMA UserUnasked ==
  ASSUME Exchange, User \/ Reset
  PROVE  Unasked /\ inPacket' = inPacket /\ (outPacket' = outPacket \/ Reset)
<1>1. hpc \in {"idle", "stuck"} \/ handle = "none"
  BY DEF User, Reset, Connection, Disconnection, ChangeSettings, LoadFile, LoadFails, Start,
         EraseButton, WriteButton, VerifyButton, BlankCheckButton, Relaunch
<1>2. ASSUME User PROVE UNCHANGED link
  BY <1>2, LocalLink DEF User, Local
<1>3. inPacket' = inPacket /\ (outPacket' = outPacket \/ Reset)
  BY <1>2 DEF Reset, Send, link
<1> QED
  BY <1>1, <1>3, NothingAsked DEF Waiting

LEMMA ExchangeDevice ==
  ASSUME DeviceInv, Exchange, DeviceSteps, UNCHANGED hostVars
  PROVE  Exchange'
<1>1. UNCHANGED <<handle, hpc, addr, view, region>>
  BY DEF hostVars, windowVars, transferVars
<1>2. ~Full(Empty) /\ Empty.cmd \notin Asking
  BY PlainFacts DEF Empty, Asking, Full
<1> USE DEF Expected, ReadEnd
<1>3. CASE Receive
  BY <1>1, <1>2, <1>3 DEF Receive, Exchange
<1>4. CASE QueryDevice
  BY <1>1, <1>4 DEF QueryDevice, Dispatched, Exchange, Asking, Full
<1>5. CASE GetData
  <2>1. /\ Expected(packet) /\ ~Full(outPacket) /\ pc' = "idle" /\ outPacket' = outPacket
        /\ packet.cmd = "GET_DATA"
    BY <1>5 DEF GetData, Dispatched, Exchange, Asking
  <2>2. /\ inPacket'.cmd = "GET_DATA" /\ inPacket'.addr = packet.addr
        /\ inPacket'.size = packet.size /\ inPacket'.data = ReadOut /\ flash' = flash
    BY <1>5 DEF GetData
  <2>3. WellFormed(packet)
    BY <2>1 DEF DeviceInv, Position, Awaited, Full
  <2>4. ASSUME NEW i \in 0 .. packet.size - 1
        PROVE  ReadOut[PacketWords - packet.size + i] = flash[packet.addr + i]
    <3>1. packet.addr \in Nat /\ packet.size \in 0 .. PacketWords /\ packet.addr + i \in Address
      BY <2>3, PayloadFacts DEF WellFormed, Packet
    <3> DEFINE s == PacketWords - packet.size + i
    <3>2. s \in Slot /\ s >= PacketWords - packet.size
          /\ packet.addr + s - (PacketWords - packet.size) = packet.addr + i
      BY <3>1, LayoutFacts DEF Slot
    <3>3. ReadOut[s] = LET a == packet.addr + s - (PacketWords - packet.size)
                       IN IF s >= PacketWords - packet.size /\ a \in Address THEN flash[a] ELSE Blank
      BY <3>2 DEF ReadOut
    <3> HIDE DEF s
    <3> QED
      BY <3>1, <3>2, <3>3 DEF s
  <2>5. \A i \in 0 .. inPacket'.size - 1 : Payload(inPacket', i) = flash'[inPacket'.addr + i]
    BY <2>2, <2>4 DEF Payload
  <2> QED
    BY <1>1, <2>1, <2>2, <2>5 DEF Exchange, Asking, Full
<1>6. ASSUME /\ pc # "idle" /\ pc' # "dispatch" /\ UNCHANGED link
             /\ pc = "dispatch" => packet.cmd \notin Asking
      PROVE  Exchange'
  BY <1>1, <1>6 DEF Exchange, link
<1>7. CASE UnlockConfig \/ EraseDevice \/ ProgramDevice \/ ProgramComplete
  BY <1>6, <1>7 DEF UnlockConfig, EraseDevice, ProgramDevice, ProgramComplete, Dispatched, Asking
<1>8. CASE EraseFlash \/ EraseEnds \/ BufferWord \/ ProgramEnds \/ WriteInstruction \/ FlushEnds
  BY <1>6, <1>8 DEF EraseFlash, EraseEnds, BufferWord, ProgramEnds, WriteInstruction, FlushEnds
<1> QED
  BY <1>3, <1>4, <1>5, <1>7, <1>8 DEF DeviceSteps

LEMMA LeavingFacts ==
  ASSUME DeviceInv, Leaving
  PROVE  /\ outPacket' = Empty /\ inPacket' = Empty /\ pointer' = InvalidAddress
         /\ ~Full(outPacket') /\ ~Full(inPacket')
         /\ pc' # "idle" => pc' = "erase" /\ pc = "erase" /\ packet' = packet
                              /\ packet.cmd = "ERASE_DEVICE"
         /\ flash' = flash /\ handle' # "open"
         /\ UNCHANGED <<hpc, task, windowVars, transferVars, report>>
<1>1. ~Full(Empty)
  BY PlainFacts DEF Empty
<1> QED
  BY <1>1, LeavesFacts
  DEF Leaving, Disruption, ResetDevice, EventConfigured, PowerCycle, Reinitialise, DeviceInv, Position

LEMMA ExchangeNext ==
  ASSUME DeviceInv, HostTypeOK, Progress, Exchange, Next
  PROVE  Exchange'
<1>1. CASE Leaving
  BY <1>1, LeavingFacts DEF Exchange, Asking, Full
<1>2. CASE (User \/ Reset) /\ UNCHANGED deviceVars
  <2>1. ASSUME Reset PROVE outPacket' = outPacket \/ outPacket'.cmd \notin Asking
    BY <2>1, PlainFacts DEF Reset, Send, link, Commands, Asking
  <2> QED
    BY <1>2, <2>1, UserUnasked, ExchangeUnasked
<1> QED
  BY <1>1, <1>2, ExchangeDevice, ExchangeTasks, Steps

-----------------------------------------------------------------------------
(* Sections: where the packets of a section go.                            *)

\* A step of the device that finishes nothing out of turn.
LEMMA SectionsStand ==
  ASSUME Sections, AfterRunning' = AfterRunning, outPacket' = outPacket, pc' # "dispatch",
         UNCHANGED <<handle, hpc, skipping, addr>>
  PROVE  Sections'
BY DEF Sections, ContiguousSections, Dispatched, AfterSent

LEMMA SectionsDevice ==
  ASSUME DeviceInv, Sections, DeviceSteps, UNCHANGED hostVars
  PROVE  Sections'
<1> USE DEF AfterRunning, Running, Dispatched
<1>1. UNCHANGED <<handle, hpc, skipping, addr>>
  BY DEF hostVars, transferVars
<1>2. CASE Receive
  <2>1. /\ pc = "idle" /\ pc' = "dispatch" /\ packet' = outPacket /\ outPacket' = Empty
        /\ pointer' = pointer
    BY <1>2 DEF Receive, progVars
  <2>2. Empty.cmd = "none"
    BY PlainFacts DEF Empty
  <2>3. AfterSent' = AfterSent
    BY <2>1, <2>2 DEF AfterSent
  <2> QED
    BY <1>1, <2>1, <2>2, <2>3 DEF Sections, ContiguousSections
<1>3. CASE QueryDevice \/ UnlockConfig \/ GetData
  <2>1. AfterRunning' = AfterRunning /\ outPacket' = outPacket /\ pc' # "dispatch"
    BY <1>3 DEF QueryDevice, UnlockConfig, GetData, progVars, link
  <2> QED
    BY <1>1, <2>1, SectionsStand
<1>4. CASE EraseDevice \/ EraseFlash \/ EraseEnds
  <2>1. packet.cmd = "ERASE_DEVICE" /\ packet' = packet /\ pointer' = pointer
        /\ outPacket' = outPacket /\ pc' # "dispatch"
    BY <1>4 DEF EraseDevice, EraseFlash, EraseEnds, progVars, link, DeviceInv, Position
  <2> QED
    BY <1>1, <2>1, SectionsStand
<1>5. CASE ProgramDevice
  <2>1. pointer' = packet.addr /\ packet.addr = packet'.addr
    BY <1>5 DEF ProgramDevice, SectionAddress, Sections, ContiguousSections
  <2>2. AfterRunning' = AfterRunning /\ outPacket' = outPacket /\ pc' # "dispatch"
    BY <1>5, <2>1 DEF ProgramDevice, link
  <2> QED
    BY <1>1, <2>2, SectionsStand
<1>6. CASE BufferWord
  <2>1. packet.cmd = "PROGRAM_DEVICE" /\ pc = "program" /\ pc' \in {"program", "flush"}
        /\ packet' = packet /\ outPacket' = outPacket
    BY <1>6 DEF BufferWord, link, DeviceInv, Position
  <2> QED
    BY <1>1, <2>1, SectionsStand
<1>7. CASE ProgramEnds
  <2>1. packet.cmd = "PROGRAM_DEVICE" /\ pc = "program" /\ pc' = "idle" /\ pointer' = pointer
        /\ pointer = packet.addr + packet.size /\ outPacket' = outPacket
    BY <1>7 DEF ProgramEnds, progVars, link, DeviceInv, Position
  <2> QED
    BY <1>1, <2>1, SectionsStand
<1>8. CASE ProgramComplete
  BY <1>1, <1>8, SectionsStand DEF ProgramComplete, link
<1>9. CASE WriteInstruction
  BY <1>1, <1>9, SectionsStand DEF WriteInstruction, link
<1>10. CASE FlushEnds
  BY <1>1, <1>10, SectionsStand DEF FlushEnds, link
<1> QED
  BY <1>2, <1>3, <1>4, <1>5, <1>6, <1>7, <1>8, <1>9, <1>10 DEF DeviceSteps

\* A step of the application that programs nothing.
Quiet ==
  /\ UNCHANGED deviceVars
  /\ \/ outPacket' = outPacket
     \/ ~Full(outPacket) /\ outPacket'.cmd \notin Programming

LEMMA SectionsQuiet ==
  ASSUME Sections, Quiet
  PROVE  /\ AfterSent' = AfterSent
         /\ ContiguousSections'
         /\ (outPacket.cmd = "PROGRAM_DEVICE" => AfterRunning \in {InvalidAddress, outPacket.addr})'
<1>1. AfterRunning' = AfterRunning
  BY DEF Quiet, deviceVars, progVars, AfterRunning, Running
<1> QED
  BY <1>1 DEF Quiet, deviceVars, progVars, Sections, ContiguousSections, Dispatched, AfterSent,
              Full, Programming

\* It opens no section, and one that is open stays where it is.
LEMMA SectionsAway ==
  ASSUME Sections, Quiet, ~(handle = "open" /\ hpc \in {"program", "complete"}),
         hpc' = "program" => skipping' = TRUE
  PROVE  Sections'
<1>1. AfterSent' = InvalidAddress
  BY SectionsQuiet DEF Sections
<1> QED
  BY <1>1, SectionsQuiet DEF Sections

LEMMA SectionsProgram ==
  ASSUME HostTypeOK, Progress, Sections, ProgramIterates, UNCHANGED deviceVars
  PROVE  Sections'
<1>1. /\ hpc = "program" /\ addr' = addr + PacketWords
      /\ hpc' = IF addr' < ProgramEnd THEN "program" ELSE IF completed' THEN "programmed" ELSE "complete"
  BY DEF ProgramIterates, AfterLoop
<1>2. AfterRunning' = AfterRunning /\ (ContiguousSections => ContiguousSections')
  BY DEF deviceVars, progVars, AfterRunning, Running, ContiguousSections, Dispatched
<1>3. ASSUME Send(ProgramPacket), DataSent PROVE Sections'
  <2>1. /\ ProgramPacket.cmd = "PROGRAM_DEVICE" /\ ProgramPacket.addr = addr
        /\ ProgramPacket.size = ProgramSize
        /\ addr + PacketWords < ProgramEnd => ProgramSize = PacketWords
    BY <1>1, ProgramPacketFacts
  <2>2. /\ handle = "open" /\ handle' = "open" /\ outPacket.cmd = "none"
        /\ outPacket' = ProgramPacket
        /\ skipping' = FALSE /\ completed' = FALSE
    BY <1>3 DEF Send, Full, DataSent
  <2>3. AfterRunning \in {InvalidAddress, addr}
    BY <1>1, <2>2 DEF Sections, AfterSent
  <2>4. AfterSent' = addr + ProgramSize
    BY <2>1, <2>2 DEF AfterSent
  <2> QED
    BY <1>1, <1>2, <2>1, <2>2, <2>3, <2>4 DEF Sections
<1>4. ASSUME Send(Plain("PROGRAM_COMPLETE")), skipping' = TRUE, completed' = TRUE PROVE Sections'
  <2>1. outPacket'.cmd = "PROGRAM_COMPLETE"
    BY <1>4, PlainFacts DEF Send, Commands
  <2>2. AfterSent' = InvalidAddress
    BY <2>1 DEF AfterSent
  <2> QED
    BY <1>1, <1>2, <1>4, <2>1, <2>2 DEF Sections
<1>5. ASSUME skipping, UNCHANGED <<skipping, completed, handle, link>> PROVE Sections'
  <2>1. AfterSent = InvalidAddress
    BY <1>1, <1>5 DEF Sections
  <2>2. AfterSent' = InvalidAddress /\ skipping' = TRUE /\ outPacket' = outPacket
    BY <1>2, <1>5, <2>1 DEF AfterSent, link, HostTypeOK
  <2> QED
    BY <1>2, <2>2 DEF Sections
<1> QED
  BY <1>3, <1>4, <1>5 DEF ProgramIterates

LEMMA SectionsTasks ==
  ASSUME HostTypeOK, Progress, Sections, Tasks, UNCHANGED deviceVars
  PROVE  Sections'
<1> USE DEF Quiet, Send, Programming
<1>1. CASE TransferFails
  BY <1>1, SectionsAway DEF TransferFails, GiveUp, Lost, link, AtTransfer
<1>2. CASE LockUnlockConfig
  BY <1>2, SectionsAway, LockWellFormed DEF LockUnlockConfig
<1>3. CASE SendQuery
  BY <1>3, SectionsAway, PlainFacts DEF SendQuery, Commands
<1>4. CASE GetQuery
  BY <1>4, SectionsAway DEF GetQuery, Take
<1>5. CASE Erase
  BY <1>5, SectionsAway, PlainFacts DEF Erase, Commands
<1>6. CASE EraseAnswered
  BY <1>6, SectionsAway DEF EraseAnswered, Take, StartRegion
<1>7. CASE ProgramIterates
  BY <1>7, SectionsProgram
<1>8. CASE ProgramCompletes
  <2>1. /\ hpc' = "programmed" /\ outPacket'.cmd = "PROGRAM_COMPLETE"
        /\ AfterSent' = InvalidAddress
    BY <1>8, PlainFacts DEF ProgramCompletes, Commands, AfterSent
  <2>2. ContiguousSections'
    BY DEF deviceVars, progVars, Sections, ContiguousSections, Dispatched
  <2> QED
    BY <2>1, <2>2 DEF Sections
<1>9. CASE NextRange
  BY <1>9, SectionsAway DEF NextRange, StartRegion, link
<1>10. CASE SendRead
  BY <1>10, SectionsAway, ReadPacketFacts DEF SendRead
<1>11. CASE ReceiveRead
  BY <1>11, SectionsAway DEF ReceiveRead, Take
<1>12. CASE RangeRead
  BY <1>12, SectionsAway DEF RangeRead, StartRegion, link
<1> QED
  BY <1>1, <1>2, <1>3, <1>4, <1>5, <1>6, <1>7, <1>8, <1>9, <1>10, <1>11, <1>12 DEF Tasks

\* The user and the timer act while no file is being programmed.
LEMMA UserQuiet ==
  ASSUME User \/ Reset, UNCHANGED deviceVars
  PROVE  /\ Quiet
         /\ ~(handle = "open" /\ hpc \in {"program", "complete", "programmed", "read", "reply"})
         /\ hpc' # "program" \/ handle' # "open"
<1>1. hpc \in {"idle", "stuck"} \/ handle = "none"
  BY DEF User, Reset, Connection, Disconnection, ChangeSettings, LoadFile, LoadFails, Start,
         EraseButton, WriteButton, VerifyButton, BlankCheckButton, Relaunch
<1>2. ASSUME User PROVE Quiet
  BY <1>2, LocalLink DEF User, Local, Quiet, link
<1>3. ASSUME Reset PROVE Quiet
  BY <1>3, PlainFacts DEF Reset, Send, Quiet, link, Commands, Programming
<1>4. hpc' # "program" \/ handle' # "open"
  BY DEF User, Reset, Connection, Disconnection, ChangeSettings, LoadFile, LoadFails, Start,
         EraseButton, WriteButton, VerifyButton, BlankCheckButton, Relaunch
<1> QED
  BY <1>1, <1>2, <1>3, <1>4

LEMMA SectionsNext ==
  ASSUME DeviceInv, HostTypeOK, Progress, Sections, Next
  PROVE  Sections'
<1>1. CASE Leaving
  <2>1. outPacket'.cmd = "none" /\ pointer' = InvalidAddress /\ handle' # "open"
        /\ (pc' # "idle" => pc' = "erase" /\ packet'.cmd = "ERASE_DEVICE")
    BY <1>1, LeavingFacts, PlainFacts DEF Empty
  <2> QED
    BY <2>1 DEF Sections, ContiguousSections, Dispatched, AfterSent, AfterRunning, Running
<1>2. CASE (User \/ Reset) /\ UNCHANGED deviceVars
  <2>1. AfterSent' = InvalidAddress
    BY <1>2, UserQuiet, SectionsQuiet DEF Sections
  <2> QED
    BY <1>2, <2>1, UserQuiet, SectionsQuiet DEF Sections
<1> QED
  BY <1>1, <1>2, SectionsDevice, SectionsTasks, Steps

-----------------------------------------------------------------------------
(* FromImage: what is on its way to the memory.                            *)

\* What the buffer holds after a step of the device.
LEMMA BufferedNext ==
  ASSUME DeviceInv, DeviceSteps
  PROVE  \/ Buffered' \subseteq Buffered
         \/ /\ Running("PROGRAM_DEVICE") /\ packet.addr \in Nat
            /\ \E i \in 0 .. packet.size - 1 :
                 Buffered' = Buffered \cup {<<packet.addr + i, Payload(packet, i)>>}
<1>1. CASE BufferWord
  <2>1. Running("PROGRAM_DEVICE") /\ done \in 0 .. packet.size - 1 /\ packet.addr \in Nat
    BY <1>1 DEF BufferWord, DeviceInv, DeviceTypeOK, Position, Running, Packet
  <2> QED
    BY <1>1, <2>1, DeviceInvBufferWord
<1>2. CASE ~BufferWord
  BY <1>2, DeviceInvBystander, DeviceInvProgramDevice, DeviceInvProgramEnds,
     DeviceInvProgramComplete, DeviceInvWriteInstruction, DeviceInvFlushEnds
  DEF DeviceSteps, Bystander
<1> QED
  BY <1>1, <1>2

\* A command is taken, kept or dropped; while no command programs, no section
\* is opened.
LEMMA PacketNext ==
  ASSUME DeviceInv, DeviceSteps
  PROVE  /\ \/ Receive /\ packet' = outPacket /\ outPacket' = Empty
            \/ packet' = packet /\ outPacket' = outPacket /\ pc # "idle"
         /\ (pc # "idle" => packet.cmd \notin Programming) => pointer' = pointer
BY DEF DeviceInv, Position, Programming, DeviceSteps, Receive, QueryDevice, UnlockConfig, EraseDevice,
       EraseFlash, EraseEnds, ProgramDevice, BufferWord, ProgramEnds, ProgramComplete,
       WriteInstruction, FlushEnds, GetData, Dispatched, progVars, link

LEMMA FromImageDevice ==
  ASSUME DeviceInv, FromImage, DeviceSteps, UNCHANGED hostVars
  PROVE  FromImage'
<1>1. UNCHANGED <<handle, hpc, image>>
  BY DEF hostVars, windowVars
<1>2. Empty.cmd = "none"
  BY PlainFacts DEF Empty
<1>3. ASSUME NEW pkt, Imaged(pkt) PROVE Imaged(pkt)'
  BY <1>1, <1>3 DEF Imaged
<1>4. (outPacket.cmd = "PROGRAM_DEVICE" => Imaged(outPacket))'
  BY <1>1, <1>2, PacketNext DEF FromImage, Imaged
<1>5. (Running("PROGRAM_DEVICE") => Imaged(packet))'
  <2>1. CASE Receive /\ packet' = outPacket
    BY <1>1, <2>1 DEF FromImage, Imaged, Running
  <2>2. CASE packet' = packet /\ pc # "idle"
    BY <1>1, <2>2 DEF FromImage, Imaged, Running
  <2> QED
    BY <2>1, <2>2, PacketNext
<1>6. (\A w \in Buffered : UserStart <= w[1] /\ w[2] = image[w[1]])'
  <2>1. CASE Buffered' \subseteq Buffered
    BY <1>1, <2>1 DEF FromImage
  <2>2. ASSUME Running("PROGRAM_DEVICE"), packet.addr \in Nat, NEW i \in 0 .. packet.size - 1,
               Buffered' = Buffered \cup {<<packet.addr + i, Payload(packet, i)>>}
        PROVE  (\A w \in Buffered : UserStart <= w[1] /\ w[2] = image[w[1]])'
    <3>1. UserStart <= packet.addr + i /\ Payload(packet, i) = image[packet.addr + i]
      BY <2>2, RangeFacts DEF FromImage, Imaged
    <3> QED
      BY <1>1, <2>2, <3>1 DEF FromImage
  <2> QED
    BY <2>1, <2>2, BufferedNext
<1>7. ASSUME ~(handle = "open" /\ hpc \in {"program", "complete", "programmed", "read", "reply"})
      PROVE  /\ outPacket'.cmd \notin Programming
             /\ (pc' # "idle" => packet'.cmd \notin Programming)
             /\ pointer' = InvalidAddress
  <2>1. /\ outPacket.cmd \notin Programming /\ (pc # "idle" => packet.cmd \notin Programming)
        /\ pointer = InvalidAddress
    BY <1>7 DEF FromImage
  <2> QED
    BY <1>2, <2>1, PacketNext DEF Programming
<1> QED
  BY <1>1, <1>4, <1>5, <1>6, <1>7 DEF FromImage

\* A step of the application that programs nothing and keeps the image.
LEMMA FromImageQuiet ==
  ASSUME DeviceInv, FromImage, Quiet, image' = image
  PROVE  /\ (outPacket.cmd = "PROGRAM_DEVICE" => Imaged(outPacket))'
         /\ (Running("PROGRAM_DEVICE") => Imaged(packet))'
         /\ (\A w \in Buffered : UserStart <= w[1] /\ w[2] = image[w[1]])'
         /\ outPacket.cmd \notin Programming => outPacket'.cmd \notin Programming
         /\ UNCHANGED <<pc, packet, pointer>>
<1>1. Buffered' = Buffered
  BY BufferedStays DEF Quiet, deviceVars, progVars, First
<1> QED
  BY <1>1 DEF Quiet, deviceVars, progVars, FromImage, Imaged, Running, Programming

\* Either it stays among the steps of a transfer, or it starts outside them.
LEMMA FromImageAway ==
  ASSUME DeviceInv, FromImage, Quiet, image' = image,
         \/ ~(handle = "open" /\ hpc \in {"program", "complete", "programmed", "read", "reply"})
         \/ handle' = "open" /\ hpc' \in {"program", "complete", "programmed", "read", "reply"}
  PROVE  FromImage'
BY FromImageQuiet DEF FromImage

LEMMA FromImageProgram ==
  ASSUME DeviceInv, HostTypeOK, Progress, FromImage, ProgramIterates, UNCHANGED deviceVars
  PROVE  FromImage'
<1>1. hpc = "program" /\ hpc' \in {"program", "programmed", "complete"} /\ image' = image
      /\ handle' = handle
  BY DEF ProgramIterates, AfterLoop, windowVars, Send
<1>2. ASSUME Send(ProgramPacket) PROVE FromImage'
  <2>1. handle' = "open" /\ outPacket' = ProgramPacket
    BY <1>2 DEF Send
  <2>2. Imaged(outPacket)'
    BY <1>1, <2>1, ProgramPacketFacts DEF Imaged
  <2>3. Buffered' = Buffered
    BY BufferedStays DEF deviceVars, progVars, First
  <2> QED
    BY <1>1, <2>1, <2>2, <2>3 DEF FromImage, Imaged, Running, deviceVars, progVars
<1>3. ASSUME Send(Plain("PROGRAM_COMPLETE")) PROVE FromImage'
  <2>1. handle' = "open" /\ outPacket'.cmd = "PROGRAM_COMPLETE"
    BY <1>3, PlainFacts DEF Send, Commands
  <2>2. Buffered' = Buffered
    BY BufferedStays DEF deviceVars, progVars, First
  <2> QED
    BY <1>1, <2>1, <2>2 DEF FromImage, Imaged, Running, deviceVars, progVars
<1>4. ASSUME UNCHANGED link PROVE FromImage'
  <2>1. Quiet
    BY <1>4 DEF Quiet, link
  <2> QED
    BY <1>1, <2>1, FromImageAway
<1> QED
  BY <1>2, <1>3, <1>4 DEF ProgramIterates

\* The read that ends a task finds no section open.
LEMMA ReadEnds ==
  ASSUME HostTypeOK, Progress, Sections, Verified, RangeRead
  PROVE  /\ Calm /\ pointer = InvalidAddress
<1>1. ReadEnd \in Nat /\ RegionStart(region) \in Nat /\ RegionStart(region) < ReadEnd
      /\ ReadEnd <= addr /\ addr \in Nat /\ hpc = "read"
  BY RegionFacts DEF RangeRead, ReadEnd, HostTypeOK
<1>2. RegionStart(region) \in ReadBack
  BY <1>1 DEF ReadBack
<1>3. Calm
  BY <1>2 DEF Verified
<1> QED
  BY <1>1, <1>3 DEF Sections, AfterSent, AfterRunning, Running, Calm, Writing

LEMMA FromImageTasks ==
  ASSUME DeviceInv, HostTypeOK, Progress, Sections, Verified, FromImage, Tasks,
         UNCHANGED deviceVars
  PROVE  FromImage'
<1> USE DEF Quiet, Send, Programming, windowVars
<1>1. CASE TransferFails
  BY <1>1, FromImageAway DEF TransferFails, GiveUp, Lost, link
<1>2. CASE LockUnlockConfig
  BY <1>2, FromImageAway, LockWellFormed DEF LockUnlockConfig
<1>3. CASE SendQuery
  BY <1>3, FromImageAway, PlainFacts DEF SendQuery, Commands
<1>4. CASE GetQuery
  BY <1>4, FromImageAway DEF GetQuery, Take
<1>5. CASE Erase
  BY <1>5, FromImageAway, PlainFacts DEF Erase, Commands
<1>6. CASE EraseAnswered
  BY <1>6, FromImageAway DEF EraseAnswered, Take
<1>7. CASE ProgramIterates
  BY <1>7, FromImageProgram
<1>8. CASE ProgramCompletes
  <2>1. /\ hpc' = "programmed" /\ handle' = "open" /\ outPacket'.cmd = "PROGRAM_COMPLETE"
        /\ image' = image
    BY <1>8, PlainFacts DEF ProgramCompletes, Commands
  <2>2. Buffered' = Buffered
    BY BufferedStays DEF deviceVars, progVars, First
  <2> QED
    BY <2>1, <2>2 DEF FromImage, Imaged, Running, deviceVars, progVars
<1>9. CASE NextRange
  <2>1. hpc = "programmed" /\ hpc' \in {"program", "read"} /\ handle' = handle /\ Quiet
        /\ image' = image
    BY <1>9 DEF NextRange, link
  <2> QED
    BY <2>1, FromImageAway
<1>10. CASE SendRead
  BY <1>10, FromImageAway, ReadPacketFacts DEF SendRead
<1>11. CASE ReceiveRead
  BY <1>11, FromImageAway DEF ReceiveRead, Take
<1>12. CASE RangeRead
  <2>1. Calm /\ pointer = InvalidAddress
    BY <1>12, ReadEnds
  <2>2. Quiet /\ image' = image /\ UNCHANGED <<outPacket, pc, packet, pointer>>
    BY <1>12 DEF RangeRead, link, deviceVars, progVars
  <2> QED
    BY <2>1, <2>2, FromImageQuiet DEF FromImage, Calm, Writing
<1> QED
  BY <1>1, <1>2, <1>3, <1>4, <1>5, <1>6, <1>7, <1>8, <1>9, <1>10, <1>11, <1>12 DEF Tasks

LEMMA FromImageNext ==
  ASSUME DeviceInv, HostTypeOK, Progress, Sections, Verified, FromImage, Next
  PROVE  FromImage'
<1>1. CASE Leaving
  <2>1. Buffered' = {}
    BY <1>1, DeviceInvDisruption DEF Leaving
  <2>2. outPacket'.cmd = "none" /\ pointer' = InvalidAddress
        /\ (pc' # "idle" => packet'.cmd = "ERASE_DEVICE")
    BY <1>1, LeavingFacts, PlainFacts DEF Empty
  <2> QED
    BY <2>1, <2>2 DEF FromImage, Running, Programming
<1>2. CASE (User \/ Reset) /\ UNCHANGED deviceVars
  <2>1. /\ outPacket.cmd \notin Programming /\ (pc # "idle" => packet.cmd \notin Programming)
        /\ pointer = InvalidAddress
    BY <1>2, UserQuiet DEF FromImage
  <2>2. index = 0
    BY <2>1 DEF DeviceInv, Position
  <2>3. UNCHANGED <<pc, packet, pointer, index>>
    BY <1>2 DEF deviceVars, progVars
  <2>4. Buffered' = {} /\ outPacket'.cmd \notin Programming
    BY <1>2, <2>1, <2>2, <2>3, UserQuiet, NothingBufferedNext DEF Quiet
  <2> QED
    BY <2>1, <2>3, <2>4 DEF FromImage, Running, Programming
<1> QED
  BY <1>1, <1>2, FromImageDevice, FromImageTasks, Steps

-----------------------------------------------------------------------------
(* Verified: what has been read back, and what is said of it.              *)

ShownVars == <<hpc, task, view, hexView, image, writeConfig, region, addr, mismatch, report>>

LEMMA VerifiedStays ==
  ASSUME Verified, UNCHANGED ShownVars,
         (ReadBack # {} \/ Stands) => Calm' /\ flash' = flash
  PROVE  Verified'
<1>1. ReadBack' = ReadBack /\ Stands' = Stands /\ Claimed' = Claimed
      /\ RangesOf(hexView)' = RangesOf(hexView) /\ Range(view, "config")' = Range(view, "config")
  BY DEF ShownVars, ReadBack, Stands, Claimed, RangesOf, Range, RegionStart, RegionEnd
<1>2. (ReadBack # {} \/ Stands => Calm)'
  BY <1>1
<1>3. (task \in {"write", "verify"} /\ ~mismatch =>
         \A a \in ReadBack \cap RangesOf(hexView) : flash[a] = image[a])'
  BY <1>1 DEF Verified, ShownVars
<1>4. VerifiedImage'
  BY <1>1 DEF Verified, VerifiedImage, Claimed, Stands, ShownVars
<1> QED
  BY <1>2, <1>3, <1>4 DEF Verified

\* Nothing is read back yet and no outcome is on display.
LEMMA VerifiedBlank ==
  ASSUME ReadBack' = {}, ~Stands'
  PROVE  Verified'
BY DEF Verified, VerifiedImage, Claimed, Stands

LEMMA ReadBackIdle ==
  ASSUME hpc' \notin {"read", "reply"}
  PROVE  ReadBack' = {}
BY DEF ReadBack

LEMMA ReadBackStarts ==
  ASSUME region' = "program", addr' = RegionStart("program")
  PROVE  ReadBack' = {}
BY RangeFacts DEF ReadBack, RegionStart

\* A quiet memory stays as it is.
LEMMA CalmNext ==
  ASSUME DeviceInv, Calm, DeviceSteps \/ Leaving
  PROVE  Calm' /\ flash' = flash
<1>1. Empty.cmd = "none"
  BY PlainFacts DEF Empty
<1>2. CASE Leaving
  BY <1>1, <1>2, LeavingFacts DEF Calm, Writing
<1>3. CASE Receive \/ QueryDevice \/ UnlockConfig \/ GetData
  BY <1>1, <1>3 DEF Calm, Writing, Receive, QueryDevice, UnlockConfig, GetData, Dispatched, link
<1>4. ~(EraseDevice \/ EraseFlash \/ EraseEnds \/ ProgramDevice \/ BufferWord \/ ProgramEnds
        \/ ProgramComplete \/ WriteInstruction \/ FlushEnds)
  BY DEF Calm, Writing, DeviceInv, Position, EraseDevice, EraseFlash, EraseEnds, ProgramDevice,
         BufferWord, ProgramEnds, ProgramComplete, WriteInstruction, FlushEnds, Dispatched
<1> QED
  BY <1>2, <1>3, <1>4 DEF DeviceSteps

\* The words of a reply agree with the memory, and unless a mismatch is noted
\* with the image.
LEMMA VerifiedReply ==
  ASSUME DeviceInv, HostTypeOK, Progress, Exchange, Verified, ReceiveRead, UNCHANGED deviceVars
  PROVE  Verified'
<1>1. /\ Expected(inPacket) /\ pc = "idle" /\ ~Full(outPacket) /\ outPacket' = outPacket
  BY AnswerTaken DEF ReceiveRead
<1>2. /\ hpc = "reply" /\ hpc' = "read" /\ addr' = addr + inPacket.size
      /\ UNCHANGED <<task, windowVars, region, report>>
      /\ mismatch' \in {mismatch \/ Differs, mismatch \/ Differs \/ Overrun}
  BY DEF ReceiveRead
<1>3. /\ inPacket.cmd = "GET_DATA" /\ inPacket.addr = addr /\ Full(inPacket)
      /\ inPacket.size \in Nat /\ addr \in Nat /\ RegionStart(region) \in Nat
      /\ RegionStart(region) <= addr
  BY <1>1, <1>2, LayoutFacts, RegionFacts
  DEF ReceiveRead, Take, Expected, DeviceInv, DeviceTypeOK, Packet, HostTypeOK, Progress
<1>4. flash' = flash /\ Calm'
  BY <1>1 DEF deviceVars, Calm, Full, Writing
<1>5. report = "none" /\ ~Stands'
  BY <1>2 DEF Progress, Stands
<1>6. ReadBack' = ReadBack \cup (addr .. addr + inPacket.size - 1)
  <2>1. RegionStart(region) .. addr' - 1
          = (RegionStart(region) .. addr - 1) \cup (addr .. addr + inPacket.size - 1)
    BY <1>2, <1>3
  <2> QED
    BY <1>2, <2>1 DEF ReadBack, windowVars, Range, RegionStart, RegionEnd
<1>7. ASSUME task \in {"write", "verify"}, ~mismatch', NEW a \in ReadBack' \cap RangesOf(hexView)
      PROVE  flash[a] = image[a]
  <2>1. ~mismatch /\ ~Differs
    BY <1>2, <1>7
  <2>2. CASE a \in ReadBack
    BY <1>7, <2>1, <2>2 DEF Verified
  <2>3. CASE a \in addr .. addr + inPacket.size - 1
    <3>1. a \in DOMAIN ReadWords /\ ReadWords[a] = Payload(inPacket, a - addr)
      BY <2>3 DEF ReadWords
    <3>2. ReadWords[a] = image[a]
      BY <1>7, <2>1, <3>1 DEF Differs, Compared
    <3>3. a - addr \in 0 .. inPacket.size - 1 /\ addr + (a - addr) = a
      BY <1>3, <2>3
    <3>4. Payload(inPacket, a - addr) = flash[addr + (a - addr)]
      BY <1>3, <3>3 DEF Exchange
    <3> QED
      BY <3>1, <3>2, <3>3, <3>4
  <2> QED
    BY <1>6, <1>7, <2>2, <2>3
<1>8. RangesOf(hexView)' = RangesOf(hexView)
  BY <1>2 DEF windowVars, RangesOf, Range, RegionStart, RegionEnd
<1>9. VerifiedImage'
  BY <1>5 DEF VerifiedImage, Claimed, Stands
<1> QED
  BY <1>2, <1>4, <1>5, <1>7, <1>8, <1>9 DEF Verified, windowVars

\* The end of a range: the next one is read, or the outcome is shown.
LEMMA VerifiedRange ==
  ASSUME HostTypeOK, Progress, Sections, Verified, RangeRead, UNCHANGED deviceVars
  PROVE  Verified'
<1>1. Calm' /\ flash' = flash
  BY ReadEnds DEF Calm, RangeRead, link, deviceVars
<1>2. /\ hpc = "read" /\ addr = ReadEnd /\ report = "none"
      /\ UNCHANGED <<task, windowVars>>
  <2>1. ReadEnd \in Nat /\ addr \in Nat
    BY RegionFacts DEF ReadEnd, HostTypeOK
  <2> QED
    BY <2>1 DEF RangeRead, Progress
<1>3. ReadBack = (IF region = "config" THEN Range(view, "program") ELSE {}) \cup Range(view, region)
  BY <1>2 DEF ReadBack, ReadEnd, Range
<1>4. RangesOf(hexView)' = RangesOf(hexView) /\ RangesOf(view)' = RangesOf(view)
      /\ Range(view, "config")' = Range(view, "config")
  BY <1>2 DEF windowVars, RangesOf, Range, RegionStart, RegionEnd
<1>5. ASSUME ~mismatch, region = "program", StartRegion("config"), UNCHANGED <<hpc, report>>
      PROVE  Verified'
  <2>1. ReadBack' = Range(view, "program")
    <3>1. region' = "config" /\ addr' = RegionStart("config") /\ view' = view /\ hpc' = "read"
      BY <1>2, <1>5 DEF StartRegion, windowVars
    <3>2. Range(view, "program")' = Range(view, "program")
      BY <3>1 DEF Range, RegionStart, RegionEnd
    <3>3. RegionStart("config") .. RegionStart("config") - 1 = {}
      BY RangeFacts DEF RegionStart
    <3>4. ReadBack' = Range(view, "program")' \cup (RegionStart("config") .. RegionStart("config") - 1)
      BY <3>1 DEF ReadBack, RegionStart
    <3> QED
      BY <3>2, <3>3, <3>4
  <2>2. ReadBack' = ReadBack
    BY <1>3, <1>5, <2>1
  <2>3. ~Stands' /\ VerifiedImage'
    BY <1>2, <1>5 DEF Stands, VerifiedImage, Claimed
  <2> QED
    BY <1>1, <1>2, <1>4, <1>5, <2>2, <2>3 DEF Verified, windowVars
<1>6. ASSUME hpc' = "idle", report' = IF mismatch THEN "failed" ELSE "success",
             ~(~mismatch /\ task # "blank" /\ region = "program" /\ view = "unlocked" /\ writeConfig),
             UNCHANGED transferVars
      PROVE  Verified'
  <2>1. ReadBack' = {}
    BY <1>6 DEF ReadBack
  <2>2. ASSUME NEW a \in Claimed' \ (IF writeConfig' THEN {} ELSE Range(view', "config"))
        PROVE  flash[a] = image[a]
    <3>1. /\ ~mismatch /\ task \in {"write", "verify"}
          /\ a \in RangesOf(view) /\ a \in RangesOf(hexView)
          /\ writeConfig \/ a \notin Range(view, "config")
      BY <1>2, <1>4, <1>6, <2>2 DEF Claimed, windowVars
    <3>2. a \in ReadBack
      <4>1. region \in {"program", "config"} /\ view \in Views
        BY DEF HostTypeOK
      <4>2. RangesOf(view) \subseteq Range(view, "program") \cup Range(view, "config")
        BY <4>1 DEF RangesOf, Views
      <4>3. CASE region = "config"
        BY <1>3, <3>1, <4>2, <4>3
      <4>4. CASE region = "program"
        <5>1. a \in Range(view, "program")
          BY <1>6, <3>1, <4>1, <4>4 DEF RangesOf, Views
        <5> QED
          BY <1>3, <4>4, <5>1
      <4> QED
        BY <4>1, <4>3, <4>4
    <3> QED
      BY <3>1, <3>2 DEF Verified
  <2>3. VerifiedImage'
    BY <1>1, <1>2, <2>2 DEF VerifiedImage, windowVars
  <2> QED
    BY <1>1, <2>1, <2>3 DEF Verified
<1> QED
  BY <1>5, <1>6 DEF RangeRead

LEMMA VerifiedTasks ==
  ASSUME DeviceInv, HostTypeOK, Progress, Exchange, Sections, Verified, Tasks,
         UNCHANGED deviceVars
  PROVE  Verified'
<1> USE DEF windowVars, transferVars
<1>1. CASE ReceiveRead
  BY <1>1, VerifiedReply
<1>2. CASE RangeRead
  BY <1>2, VerifiedRange
<1>3. CASE SendRead
  <2>1. /\ UNCHANGED <<task, windowVars, transferVars, report, flash>>
        /\ hpc = "read" /\ hpc' = "reply" /\ report = "none"
    BY <1>3 DEF SendRead, Progress, deviceVars
  <2>2. ReadBack' = ReadBack /\ RangesOf(hexView)' = RangesOf(hexView) /\ ~Stands'
    BY <2>1 DEF ReadBack, RangesOf, Range, RegionStart, RegionEnd, Stands
  <2>3. outPacket'.cmd = "GET_DATA" /\ pc' = pc /\ packet' = packet
    BY <1>3, ReadPacketFacts DEF SendRead, Send, deviceVars
  <2>4. Calm => Calm'
    BY <2>3 DEF Calm, Writing
  <2> QED
    BY <2>1, <2>2, <2>4 DEF Verified, VerifiedImage, Claimed, Stands
<1>4. CASE NextRange
  <2>1. report' = "none"
    BY <1>4 DEF NextRange, Progress
  <2>2. ReadBack' = {}
    BY <1>4, ReadBackIdle, ReadBackStarts DEF NextRange, StartRegion
  <2> QED
    BY <2>1, <2>2, VerifiedBlank DEF Stands
<1>5. CASE TransferFails \/ LockUnlockConfig \/ SendQuery \/ GetQuery \/ Erase \/ EraseAnswered
           \/ ProgramIterates \/ ProgramCompletes
  <2>1. hpc' \notin {"read", "reply"}
    BY <1>5 DEF TransferFails, GiveUp, LockUnlockConfig, SendQuery, GetQuery, Erase, EraseAnswered,
                ProgramIterates, AfterLoop, ProgramCompletes
  <2>2. hpc # "idle"
    BY <1>5 DEF TransferFails, AtTransfer, LockUnlockConfig, SendQuery, GetQuery, Erase, EraseAnswered,
                ProgramIterates, ProgramCompletes
  <2>3. report' \in {report, "failed"} \/ task' = "erase"
    BY <1>5 DEF TransferFails, GiveUp, LockUnlockConfig, SendQuery, GetQuery, Erase, EraseAnswered,
                ProgramIterates, ProgramCompletes
  <2>4. ~Stands'
    BY <2>2, <2>3 DEF Progress, Stands
  <2> QED
    BY <2>1, <2>4, ReadBackIdle, VerifiedBlank
<1> QED
  BY <1>1, <1>2, <1>3, <1>4, <1>5 DEF Tasks

LEMMA VerifiedUser ==
  ASSUME HostTypeOK, Progress, Verified, User \/ Reset, UNCHANGED deviceVars
  PROVE  Verified'
<1> USE DEF windowVars, transferVars
<1>1. CASE Disconnection \/ Reset
  <2>1. UNCHANGED ShownVars
    BY <1>1 DEF Disconnection, Reset, ShownVars
  <2>2. Calm => Calm'
    BY <1>1, PlainFacts DEF Disconnection, Reset, Send, link, Commands, Calm, Writing, deviceVars
  <2> QED
    BY <2>1, <2>2, VerifiedStays DEF Verified, deviceVars
<1>2. CASE User /\ ~Disconnection
  <2>1. report' = "none"
    BY <1>2 DEF User, Connection, ChangeSettings, LoadFile, LoadFails, Start, EraseButton, WriteButton,
                VerifyButton, BlankCheckButton, Relaunch
  <2>2. \/ hpc' \notin {"read", "reply"}
        \/ region' = "program" /\ addr' = RegionStart("program")
    BY <1>2 DEF User, Connection, ChangeSettings, LoadFile, LoadFails, Start, EraseButton, WriteButton,
                VerifyButton, BlankCheckButton, Relaunch, StartRegion
  <2> QED
    BY <2>1, <2>2, ReadBackIdle, ReadBackStarts, VerifiedBlank DEF Stands
<1> QED
  BY <1>1, <1>2

LEMMA VerifiedNext ==
  ASSUME DeviceInv, HostTypeOK, Progress, Exchange, Sections, Verified, Next
  PROVE  Verified'
<1>1. CASE DeviceSteps /\ UNCHANGED hostVars
  <2>1. UNCHANGED ShownVars
    BY <1>1 DEF hostVars, windowVars, transferVars, ShownVars
  <2> QED
    BY <1>1, <2>1, CalmNext, VerifiedStays DEF Verified
<1>2. CASE Leaving
  <2>1. UNCHANGED ShownVars
    BY <1>2, LeavesFacts DEF Leaving, windowVars, transferVars, ShownVars
  <2> QED
    BY <1>2, <2>1, CalmNext, VerifiedStays DEF Verified
<1> QED
  BY <1>1, <1>2, VerifiedTasks, VerifiedUser, Steps

-----------------------------------------------------------------------------
(* The invariant holds.                                                    *)

LEMMA SystemInvInit == Init => SystemInv
<1> SUFFICES ASSUME Init PROVE SystemInv
  OBVIOUS
<1> USE DEF Init, Launched
<1>1. DeviceInit /\ flash \in [Address -> {Blank}]
  OBVIOUS
<1>2. DeviceInv /\ Buffered = {}
  BY <1>1, DeviceInvInit
<1>3. /\ pc = "idle" /\ pointer = InvalidAddress
      /\ outPacket.cmd = "none" /\ inPacket.cmd = "none"
  BY PlainFacts DEF DeviceInit, Empty
<1>4. HostTypeOK
  <2>1. image \in [Address -> Data]
    BY DEF BlankImage, Data
  <2>2. addr \in Nat /\ faults \in 0 .. MaxFaults
    BY RangeFacts, FaultsAssumption DEF FaultsAssumption
  <2> QED
    BY <2>1, <2>2 DEF HostTypeOK, Views
<1>5. Progress
  BY DEF Progress
<1>6. Exchange
  BY <1>3 DEF Exchange, Asking, Full
<1>7. Sections
  BY <1>3 DEF Sections, ContiguousSections, Dispatched, AfterSent, AfterRunning, Running
<1>8. Verified
  BY <1>3 DEF Verified, VerifiedImage, Claimed, ReadBack, Stands, Calm
<1>9. FromImage
  BY <1>2, <1>3 DEF FromImage, Running, Programming
<1> QED
  BY <1>2, <1>4, <1>5, <1>6, <1>7, <1>8, <1>9 DEF SystemInv

LEMMA SectionsStutter ==
  ASSUME Sections, UNCHANGED vars
  PROVE  Sections'
<1> USE DEF vars, deviceVars, progVars, hostVars, windowVars, transferVars, link
<1>1. AfterRunning' = AfterRunning
  BY DEF AfterRunning, Running
<1>2. AfterSent' = AfterSent
  BY <1>1 DEF AfterSent
<1> QED
  BY <1>1, <1>2 DEF Sections, ContiguousSections, Dispatched

LEMMA SystemInvStutter ==
  ASSUME SystemInv, UNCHANGED vars
  PROVE  SystemInv'
<1> USE DEF vars, deviceVars, progVars, hostVars, windowVars, transferVars, link
<1>1. DeviceInv' /\ Buffered' = Buffered
  BY DeviceInvHost DEF SystemInv
<1>2. HostTypeOK'
  BY DEF SystemInv, HostTypeOK
<1>3. Progress'
  BY DEF SystemInv, Progress, ProgramEnd, ReadEnd
<1>4. Exchange'
  BY DEF SystemInv, Exchange, Expected, ReadEnd
<1>5. Sections'
  BY SectionsStutter DEF SystemInv
<1>6. Verified'
  BY VerifiedStays DEF SystemInv, Verified, ShownVars, Calm
<1>7. FromImage'
  BY <1>1 DEF SystemInv, FromImage, Imaged, Running
<1> QED
  BY <1>1, <1>2, <1>3, <1>4, <1>5, <1>6, <1>7 DEF SystemInv

LEMMA SystemInvNext ==
  ASSUME SystemInv, [Next]_vars
  PROVE  SystemInv'
<1>1. CASE Next
  BY <1>1, TypesNext, ProgressNext, ExchangeNext, SectionsNext, VerifiedNext, FromImageNext
  DEF SystemInv
<1> QED
  BY <1>1, SystemInvStutter

\* The bootloader, the application and the mailboxes between them keep their
\* types, a question is answered from the memory as it is, the host knows
\* where the open section stands, and everything on its way to the memory is
\* the image's (app_hid_boot_loader.c:214-367, Comm.cpp:388-663,
\* MainWindow.cpp:560-760).
THEOREM SystemInvAlways == Spec => []SystemInv
BY SystemInvInit, SystemInvNext, PTL DEF Spec

\* The variables of both ends keep to their types, whatever the files, the
\* faults and the restarts (app_hid_boot_loader.c:139-155, Comm.h, MainWindow.h).
THEOREM SystemTypeCorrect == Spec => []SystemTypeOK
<1>1. SystemInv => SystemTypeOK
  BY DEF SystemInv, DeviceInv, SystemTypeOK
<1> QED
  BY <1>1, SystemInvAlways, PTL

\* No task is ever handed the answer to a question of an earlier one
\* (Comm.cpp:388-418,547-556).
THEOREM RepliesAreOwn == Spec => []OwnReply
<1>1. SystemInv => OwnReply
  BY DEF SystemInv, Exchange, Expected, OwnReply
<1> QED
  BY <1>1, SystemInvAlways, PTL

\* A section never goes on anywhere but where the last packet ended
\* (app_hid_boot_loader.c:300-318, Comm.cpp:421-545).
THEOREM SectionsAreContiguous == Spec => []ContiguousSections
<1>1. SystemInv => ContiguousSections
  BY DEF SystemInv, Sections
<1> QED
  BY <1>1, SystemInvAlways, PTL

\* A success that is on display is one: the words it stands for are the
\* file's (MainWindow.cpp:663-667).
THEOREM SuccessIsVerified == Spec => []VerifiedImage
<1>1. SystemInv => VerifiedImage
  BY DEF SystemInv, Verified
<1> QED
  BY <1>1, SystemInvAlways, PTL

\* Outside the bootloader itself, a word of the memory is only ever erased or
\* given what the opened file says of it, however the bus fails and the
\* application is restarted in the meantime (app_hid_boot_loader.c:282-329,
\* Comm.cpp:421-545).
WritesImage ==
  [][\A a \in Address :
       flash'[a] # flash[a] => /\ a >= UserStart
                               /\ flash'[a] \in {Blank, Burn(flash[a], image[a])}]_vars

LEMMA ErasedPage ==
  ASSUME DeviceInv, EraseFlash, NEW a \in Address, a \in PageOf(erasePage)
  PROVE  a >= UserStart
<1>1. erasePage \in Nat /\ StartPage \in Nat /\ StartPage <= erasePage /\ PageWords \in Nat
  BY LayoutFacts, LayoutAssumption DEF DeviceInv, DeviceTypeOK, LayoutAssumption
<1>2. erasePage * PageWords <= a
  BY <1>1 DEF PageOf
<1>3. \A p, q \in Nat : p <= q => p * PageWords <= q * PageWords
  BY <1>1
<1>4. StartPage * PageWords <= erasePage * PageWords
  BY <1>1, <1>3
<1> QED
  BY <1>1, <1>2, <1>4 DEF UserStart, Address

THEOREM WritesTheImage == Spec => WritesImage
<1> DEFINE Written ==
      \A a \in Address :
        flash'[a] # flash[a] => /\ a >= UserStart
                                /\ flash'[a] \in {Blank, Burn(flash[a], image[a])}
<1>1. SystemInv /\ [Next]_vars => [Written]_vars
  <2> SUFFICES ASSUME SystemInv, Next, NEW a \in Address, flash'[a] # flash[a]
               PROVE  a >= UserStart /\ flash'[a] \in {Blank, Burn(flash[a], image[a])}
    OBVIOUS
  <2>1. EraseFlash \/ WriteInstruction
    <3>1. CASE DeviceSteps
      BY <3>1 DEF DeviceSteps, Receive, QueryDevice, UnlockConfig, EraseDevice, EraseEnds, ProgramDevice,
                  BufferWord, ProgramEnds, ProgramComplete, FlushEnds, GetData
    <3>2. CASE Leaving \/ UNCHANGED deviceVars
      BY <3>2, LeavingFacts DEF SystemInv, deviceVars
    <3> QED
      BY <3>1, <3>2, Steps
  <2>2. CASE EraseFlash
    <3>1. a \in PageOf(erasePage) /\ flash'[a] = Blank
      BY <2>2 DEF EraseFlash
    <3> QED
      BY <2>2, <3>1, ErasedPage DEF SystemInv
  <2>3. CASE WriteInstruction
    <3>1. /\ FlushAddress \in Address /\ FlushAddress + 1 \in Address
          /\ FlushAddress # FlushAddress + 1
          /\ Instruction \subseteq Buffered
      BY <2>3, InstructionFacts DEF SystemInv, WriteInstruction
    <3>2. /\ UserStart <= FlushAddress /\ buffer[latch] = image[FlushAddress]
          /\ UserStart <= FlushAddress + 1 /\ buffer[latch + 1] = image[FlushAddress + 1]
      BY <3>1 DEF Instruction, SystemInv, FromImage
    <3>3. flash \in [Address -> Contents]
      BY DEF SystemInv, DeviceInv, DeviceTypeOK
    <3>4. \/ a = FlushAddress /\ flash'[a] = Burn(flash[a], buffer[latch])
          \/ a = FlushAddress + 1 /\ flash'[a] = Burn(flash[a], buffer[latch + 1])
      BY <2>3, <3>1, <3>3 DEF WriteInstruction
    <3>5. UserStart \in Nat /\ a \in Int
      BY RangeFacts DEF Address
    <3> QED
      BY <3>2, <3>4, <3>5
  <2> QED
    BY <2>1, <2>2, <2>3
<1> QED
  BY <1>1, SystemInvAlways, PTL DEF Spec, WritesImage
=============================================================================
