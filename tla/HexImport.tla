------------------------------ MODULE HexImport ------------------------------
(***************************************************************************)
(* HexImporter::ImportHexFile (ImportExportHex.cpp) and the lookup of an   *)
(* address in the programmable ranges (Device.cpp): a hex file is a        *)
(* sequence of records, read in order until one ends or breaks it.         *)
(*                                                                         *)
(* Addresses and payloads are counted in words, as in BootLayout; the      *)
(* fields of a line are given, with what is wrong with them, if anything:  *)
(* its start, length or checksum, or a payload cut short that leaves the   *)
(* checksum right.                                                         *)
(***************************************************************************)
EXTENDS BootLayout, Sequences

CONSTANTS
  SegmentUnit,   \* what an extended segment address counts, 16 bytes
  LinearUnit     \* what an extended linear address counts, 2^16 bytes

ASSUME UnitsAssumption == SegmentUnit \in Nat \ {0} /\ LinearUnit \in Nat \ {0}

Record ==
  [type  : {"DATA", "END_OF_FILE", "EXTENDED_SEGMENT_ADDR", "EXTENDED_LINEAR_ADDR", "other"},
   at    : Nat,              \* the address field
   words : Seq(Data),        \* payload of DATA
   upper : Nat,              \* payload of an extended address
   flaw  : {"none", "checksum", "short"}]

BlankImage == [a \in Address |-> Blank]

\* Mutant: both kinds of extended address count the same.
Unit_Linear(type) == LinearUnit

Unit(type) == IF type = "EXTENDED_SEGMENT_ADDR" THEN SegmentUnit ELSE LinearUnit

Extended(r) == r.type \in {"EXTENDED_SEGMENT_ADDR", "EXTENDED_LINEAR_ADDR"}

\* The length is looked at where there is a payload to read.
Broken(r) ==
  \/ r.flaw = "checksum"
  \/ r.flaw = "short" /\ (r.type = "DATA" \/ Extended(r))

\* Where the words of a DATA record belong, from segment on.
Placed(r, segment) == segment + r.at .. segment + r.at + Len(r.words) - 1

\* Words outside the programmable ranges are discarded.
Store(s, r, ranges) ==
  LET in == Placed(r, s.segment) \cap ranges
  IN [s EXCEPT
        !.image    = [a \in Address |->
                        IF a \in in THEN r.words[a - s.segment - r.at + 1] ELSE @[a]],
        !.imported = @ \cup in]

\* One line of the file.
Line(s, r, ranges) ==
  CASE s.at # "line"         -> s
    [] s.at = "line" /\ Broken(r) -> [s EXCEPT !.at = "error"]
    [] s.at = "line" /\ ~Broken(r) ->
         CASE r.type = "END_OF_FILE" -> [s EXCEPT !.at = "end"]
           [] Extended(r)            -> [s EXCEPT !.segment = r.upper * Unit(r.type)]
           [] r.type = "DATA"        -> Store(s, r, ranges)
           [] r.type = "other"       -> s

\* Before the first line.
Opened == [at |-> "line", segment |-> 0, image |-> BlankImage, imported |-> {}]

\* After each number of lines.
Lines(file, ranges) ==
  LET read[n \in 0 .. Len(file)] ==
        IF n = 0 THEN Opened ELSE Line(read[n - 1], file[n], ranges)
  IN  read

\* The whole file: image and hasConfigBits are what is left whatever the
\* result is.  Nothing looks for an END_OF_FILE at the end.
ImportHexFile(file, ranges, config) ==
  LET end == Lines(file, ranges)[Len(file)]
  IN [image         |-> end.image,
      hasConfigBits |-> end.imported \cap config # {},
      result        |-> IF end.at = "error" THEN "ErrorInHexFile"
                        ELSE IF end.imported = {} THEN "NoneInRange" ELSE "Success"]

-----------------------------------------------------------------------------
(* What a hex file says of a word, record by record: the payload of the    *)
(* last DATA record on it, of those before the end or the first broken     *)
(* record, each placed by the extended address nearest before it.          *)

\* The last of some lines, 0 if there is none.
LastOf(lines) == IF lines = {} THEN 0 ELSE CHOOSE k \in lines : \A l \in lines : l <= k

Heeded(file) ==
  {k \in DOMAIN file : \A l \in 1 .. k : file[l].type # "END_OF_FILE" /\ ~Broken(file[l])}

Base(file, k) ==
  LET e == LastOf({l \in DOMAIN file : l < k /\ Extended(file[l])})
  IN  IF e = 0 THEN 0
      ELSE file[e].upper * (IF file[e].type = "EXTENDED_SEGMENT_ADDR" THEN SegmentUnit ELSE LinearUnit)

\* The DATA records with a word for the address.
On(file, a) ==
  {l \in Heeded(file) : /\ file[l].type = "DATA"
                        /\ a - Base(file, l) - file[l].at \in 0 .. Len(file[l].words) - 1}

Says(file, a) ==
  LET k == LastOf(On(file, a))
  IN  IF k = 0 THEN Blank ELSE file[k].words[a - Base(file, k) - file[k].at + 1]
=============================================================================
