----------------------------- MODULE ReportPipe -----------------------------
(***************************************************************************)
(* What the two programs at the ends of the USB cable may rely on: a slot  *)
(* that holds the one report on its way down to the firmware, and a queue  *)
(* of the reports on their way up to the application.  Nothing is made up, *)
(* repeated or overtaken.  While the connection holds nothing is lost      *)
(* either, except the oldest report of a queue that is over its capacity.  *)
(***************************************************************************)
EXTENDS Naturals, Sequences

CONSTANTS Report, Nothing, Capacity

VARIABLES
  connected,   \* the application has the device open, and it is there
  down,        \* the report the firmware has not taken, or Nothing
  up           \* the reports the application has not read, oldest first

channel == <<connected, down, up>>

Init == ~connected /\ down = Nothing /\ up = <<>>

Put(r) == connected /\ down = Nothing /\ down' = r /\ UNCHANGED <<connected, up>>

Take == down # Nothing /\ down' = Nothing /\ UNCHANGED <<connected, up>>

Reply(r) == up' = Append(up, r) /\ UNCHANGED <<connected, down>>

Get == connected /\ up # <<>> /\ up' = Tail(up) /\ UNCHANGED <<connected, down>>

Overflow == Len(up) > Capacity /\ up' = Tail(up) /\ UNCHANGED <<connected, down>>

Connect == ~connected /\ connected' /\ UNCHANGED <<down, up>>

\* The connection breaks, is closed or has not been made: what is on its way
\* may be lost.
Break ==
  /\ ~connected'
  /\ down' \in {down, Nothing}
  /\ \E m \in 1 .. Len(up) + 1, n \in 0 .. Len(up) : up' = SubSeq(up, m, n)

Next ==
  \/ Take \/ Get \/ Overflow \/ Connect \/ Break
  \/ \E r \in Report : Put(r) \/ Reply(r)

Spec == Init /\ [][Next]_channel
=============================================================================
