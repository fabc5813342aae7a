---------------------------- MODULE MCBootSystem ----------------------------
(***************************************************************************)
(* BootSystem on three pages: the bootloader's own, one user page, and the *)
(* page whose last instruction is the configuration words.  With pages of  *)
(* eight words a locked range is two packets, an unlocked one three and a  *)
(* short one; with pages of six both end in a short packet.                *)
(***************************************************************************)
EXTENDS BootSystem

Line0 == [type |-> "other", at |-> 0, words |-> <<>>, upper |-> 0, flaw |-> "none"]

EndOfFile    == [Line0 EXCEPT !.type = "END_OF_FILE"]
LinearAddr(n)  == [Line0 EXCEPT !.type = "EXTENDED_LINEAR_ADDR", !.upper = n]
SegmentAddr(n) == [Line0 EXCEPT !.type = "EXTENDED_SEGMENT_ADDR", !.upper = n]
DataAt(a, words)  == [Line0 EXCEPT !.type = "DATA", !.at = a, !.words = words]

\* n times the word w.
Times(n, w) == [i \in 1 .. n |-> w]

\* All of memory, the bootloader's own page included, a page at a time, and
\* without an END_OF_FILE.
Whole ==
  <<DataAt(0, Times(UserStart, "w"))>> \o
  <<LinearAddr(1), DataAt(UserStart - LinearUnit, Times(PageWords, "v"))>> \o
  <<LinearAddr(2), DataAt(EndNoConfigs - 2 * LinearUnit, Times(PageWords, "v")), Line0>>

\* Data, blank packets, data in the last packet, and configuration words,
\* which come first; a word given twice, and a record after the end.
Sparse ==
  <<LinearAddr(1), DataAt(ConfigStart - 2 - LinearUnit, Times(ConfigEnd - ConfigStart + 2, "w")),
    SegmentAddr(UserStart \div SegmentUnit), DataAt(1, <<"v">>), DataAt(0, <<"w", "w">>),
    EndOfFile, DataAt(4, <<"v", "v">>)>>

\* No configuration words, data on the page they are on.
Bare ==
  <<DataAt(UserStart + 4, <<"w">>), DataAt(ConfigStart - 2, <<"w">>), EndOfFile>>

\* The configuration words are blank ones, and a line is damaged.
Damaged ==
  <<DataAt(UserStart, <<"v", "v">>), DataAt(ConfigStart, Times(ConfigEnd - ConfigStart, Blank)),
    [DataAt(UserStart, <<"w">>) EXCEPT !.flaw = "short"], EndOfFile>>

OneFile  == {Sparse}
TwoFiles == {Whole, Sparse, Damaged}
AllFiles == {Whole, Sparse, Bare}
=============================================================================
