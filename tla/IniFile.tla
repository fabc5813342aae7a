------------------------------ MODULE IniFile ------------------------------
(***************************************************************************)
(* iniparser.c of firmware v2: how the sections and keys of config.ini are *)
(* found.  Nothing is kept between two questions: each opens the file and  *)
(* reads it from its start, so that one look-up is many passes over it.    *)
(*                                                                         *)
(* A line is a sequence of pieces: "[" with a section's name and "]", or a *)
(* "key" (up to its "=") and the parts of its value.                       *)
(***************************************************************************)
EXTENDS FatFile

VARIABLES
  scan,   \* one pass: iniBrowseSections or iniBrowseKeys
  get     \* one look-up: iniGetKey

iniVars == <<scan, get>>

CONFIG_FILE_NAME == "config.ini"

IniInit ==
  /\ scan = [at |-> "off", what |-> "sections", wanted |-> "", index |-> 0, count |-> 0,
             inside |-> FALSE, line |-> <<>>, found |-> FALSE, name |-> "", value |-> <<>>]
  /\ get = [at |-> "off", section |-> "", key |-> "", index |-> 0, s |-> 0, k |-> 0,
            count |-> 0, found |-> FALSE]

Scanned == scan.at = "done"
LookedUp == get.at = "done"

-----------------------------------------------------------------------------
(* A pass.                                                                 *)

\* f_mount, f_open.  The string for the value is the caller's and keeps its text.
StartScan(what, section, index) ==
  /\ scan' = [scan EXCEPT !.at = "open", !.what = what, !.wanted = section, !.index = index,
                          !.count = 0, !.inside = FALSE, !.line = <<>>, !.found = FALSE,
                          !.name = ""]
  /\ StartOpen(CONFIG_FILE_NAME)

BrowseSections(index) == StartScan("sections", "", index)
BrowseKeys(section, index) == StartScan("keys", section, index)

Kind(piece) == IF piece = Junk THEN "junk" ELSE piece.kind

\* 0xFF is a negative char, and counts as a space.
RemoveSpaces(line) == SelectSeq(line, LAMBDA piece : piece # Junk)

RemoveLeadingSpaces(line) ==
  LET from == CHOOSE i \in 1 .. Len(line) + 1 :
                /\ \A j \in 1 .. i - 1 : line[j] = Junk
                /\ i <= Len(line) => line[i] # Junk
  IN SubSeq(line, from, Len(line))

Opens(line) == line # <<>> /\ Kind(line[1]) = "["
Closed(line) == Len(line) > 1 /\ Kind(line[2]) = "]"

\* GetSectionName; a name that ends in 0xFF is nobody's.
Name(line) == IF Len(line) > 1 /\ line[2] = Junk THEN "?" ELSE line[1].text

\* Mutant: one candidate too early, but for the first.
Counted_Early(sc) == IF sc.count + 1 >= sc.index THEN [sc EXCEPT !.found = TRUE]
                     ELSE [sc EXCEPT !.count = @ + 1]

\* Another candidate: the one asked for?
Counted(sc) == IF sc.count = sc.index THEN [sc EXCEPT !.found = TRUE]
               ELSE [sc EXCEPT !.count = @ + 1]

\* One line of iniBrowseSections: only a closed name counts.
SectionLine(line) ==
  LET named == [scan EXCEPT !.name = Name(line)]
  IN IF ~Opens(line) THEN scan ELSE IF Closed(line) THEN Counted(named) ELSE named

\* A line before the section of iniBrowseKeys.
LineBefore(line) ==
  IF Opens(line) /\ Name(line) = scan.wanted THEN [scan EXCEPT !.inside = TRUE] ELSE scan

\* GetKey: a line that is no key empties the value all the same.
KeyOf(line) ==
  IF Kind(line[1]) = "key" THEN Counted([scan EXCEPT !.name = line[1].text, !.value = Tail(line)])
  ELSE [scan EXCEPT !.value = <<>>]

\* Mutant: the keys of the sections that follow count as well.
LineInside_RunsOn(line) == IF Opens(line) \/ line = <<>> THEN scan ELSE KeyOf(line)

\* A line of the section, which ends where another one opens.
LineInside(line) ==
  IF Opens(line) THEN [scan EXCEPT !.inside = FALSE]
  ELSE IF line = <<>> \/ Kind(line[1]) = "comment" THEN scan ELSE KeyOf(line)

KeyLine(line) ==
  IF scan.inside THEN LineInside(RemoveSpaces(line)) ELSE LineBefore(RemoveLeadingSpaces(line))

Line(line) ==
  IF scan.found THEN scan
  ELSE IF scan.what = "sections" THEN SectionLine(RemoveLeadingSpaces(line)) ELSE KeyLine(line)

\* iniBrowseKeys reads one more line before it looks whether it has found its key.
Enough(after) == after.found /\ (scan.what = "sections" \/ scan.found)

EndScan(sc) == scan' = [sc EXCEPT !.at = "done", !.line = <<>>] /\ UNCHANGED <<fatVars, sdVars>>

Opened ==
  /\ scan.at = "open" /\ Finished
  /\ IF call.res # "OK" THEN EndScan(scan)
     ELSE scan' = [scan EXCEPT !.at = "gets"] /\ StartRead(1)
  /\ UNCHANGED get

\* f_gets: a line ends with its "\n", and with the file or an error too.
Gets ==
  /\ scan.at = "gets" /\ Finished /\ UNCHANGED get
  /\ LET more  == call.got # <<>> /\ Kind(call.got[1]) # "nl"
         after == Line(scan.line)
     IN \/ /\ more /\ StartRead(1)
           /\ scan' = [scan EXCEPT !.line = @ \o call.got]
        \/ call.got = <<>> /\ scan.line = <<>> /\ EndScan(scan)
        \/ /\ ~more /\ (call.got # <<>> \/ scan.line # <<>>)
           /\ IF Enough(after) THEN EndScan(after)
              ELSE scan' = [after EXCEPT !.line = <<>>] /\ StartRead(1)

-----------------------------------------------------------------------------
(* A look-up.                                                              *)

GetKey(section, key, index) ==
  /\ get' = [at |-> "sections", section |-> section, key |-> key, index |-> index,
             s |-> 0, k |-> 0, count |-> 0, found |-> FALSE]
  /\ BrowseSections(0)

NextSection == get' = [get EXCEPT !.at = "sections", !.s = @ + 1] /\ BrowseSections(get.s + 1)

GetSection ==
  /\ get.at = "sections" /\ Scanned
  /\ IF ~scan.found
     THEN /\ get' = [get EXCEPT !.at = "done"]
          /\ UNCHANGED <<scan, fatVars, sdVars>>
     ELSE IF scan.name = get.section
     THEN get' = [get EXCEPT !.at = "keys", !.k = 0] /\ BrowseKeys(get.section, 0)
     ELSE NextSection

GetValue ==
  /\ get.at = "keys" /\ Scanned
  /\ LET match == scan.name = get.key
     IN IF ~scan.found THEN NextSection
        ELSE IF match /\ get.count = get.index
        THEN /\ get' = [get EXCEPT !.at = "done", !.found = TRUE]
             /\ UNCHANGED <<scan, fatVars, sdVars>>
        ELSE /\ get' = [get EXCEPT !.k = @ + 1, !.count = @ + IF match THEN 1 ELSE 0]
             /\ BrowseKeys(get.section, get.k + 1)

IniStep == Opened \/ Gets \/ GetSection \/ GetValue
=============================================================================
