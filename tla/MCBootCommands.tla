--------------------------- MODULE MCBootCommands ---------------------------
(***************************************************************************)
(* BootCommands on three pages of four words: the bootloader's own, one    *)
(* user page, and the page whose last instruction is the configuration     *)
(* words.  A packet carries up to two instructions.                        *)
(***************************************************************************)
EXTENDS BootCommands

Fill(n) == [s \in Slot |-> IF s >= PacketWords - n THEN "w" ELSE Blank]

Program(a, n) ==
  [Plain("PROGRAM_DEVICE") EXCEPT !.addr = a, !.size = n, !.data = Fill(n)]

MCOffered ==
  {Program(4, 4), Program(4, 2), Program(6, 4), Program(8, 4)}
    \cup {Plain(c) : c \in {"QUERY_DEVICE", "ERASE_DEVICE", "PROGRAM_COMPLETE",
                            "RESET_DEVICE", "UNLOCK_CONFIG"}}
    \cup {[Plain("UNLOCK_CONFIG") EXCEPT !.unlock = TRUE],
          [Plain("GET_DATA") EXCEPT !.addr = 8, !.size = 4]}

=============================================================================
