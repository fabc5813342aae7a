----------------------------- MODULE FileStream -----------------------------
(***************************************************************************)
(* What a program that reads a file from a card may rely on.  Each call    *)
(* returns the items of the file that follow those it has had, or fewer.   *)
(* Once the card is lost, no further block is read, the block being read   *)
(* may end in Junk, and never does another card's file take its place.     *)
(***************************************************************************)
EXTENDS Naturals, Sequences

CONSTANTS Block, Junk

VARIABLES
  content,   \* the open file, or <<>>
  pos,       \* the place reached in it
  out,       \* what the current call has returned so far
  lost       \* the card the file is on is gone

stream == <<content, pos, out, lost>>

Init == content = <<>> /\ pos = 0 /\ out = <<>> /\ lost = TRUE

Close == content' = <<>> /\ pos' = 0 /\ out' = <<>> /\ lost' = TRUE

\* Any file, on whatever card is there.
Open == content = <<>> /\ pos' = 0 /\ out' = out

Lose == lost' = TRUE /\ UNCHANGED <<content, pos, out>>

Begin == out' = <<>> /\ UNCHANGED <<content, pos, lost>>

\* The next n items, added to what the call has returned or as a call's first.
Deliver(n, had) ==
  /\ pos' = pos + n /\ n <= Block - (pos % Block) /\ pos' <= Len(content)
  /\ ~lost \/ pos % Block # 0
  /\ lost => lost'
  /\ UNCHANGED content
  /\ Len(out') = Len(had) + n /\ SubSeq(out', 1, Len(had)) = had
  /\ \A i \in 1 .. n :
       out'[Len(had) + i] \in {content[pos + i]} \cup (IF lost' THEN {Junk} ELSE {})

Seek ==
  /\ pos' \in 0 .. Len(content) /\ out' = <<>> /\ UNCHANGED content
  /\ lost => lost'

Next ==
  \/ Close \/ Open \/ Lose \/ Begin \/ Seek
  \/ \E n \in 1 .. Block, had \in {out, <<>>} : Deliver(n, had)

Spec == Init /\ [][Next]_stream
=============================================================================
