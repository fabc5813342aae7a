----------------------------- MODULE BootLayout -----------------------------
(***************************************************************************)
(* The program memory of the PIC24 as the USB bootloader sees it, and the  *)
(* single-packet mailboxes of its HID endpoint.                            *)
(*                                                                         *)
(* Addresses count 16-bit words, as the PIC24 does; one instruction is an  *)
(* even word and the odd word after it, and the two are written by a       *)
(* single NVM operation.  The 16 significant contents of a word are        *)
(* abstracted to members of Word; the "phantom byte" of the odd word is    *)
(* not represented, since both ends ignore it.                             *)
(***************************************************************************)
EXTENDS Integers

CONSTANTS
  PageWords,          \* BOOT_ERASE_BLOCK_SIZE
  StartPage,          \* BOOT_CONFIG_USER_MEMORY_ERASE_PAGE_START
  EndPageNoConfigs,   \* BOOT_CONFIG_USER_MEMORY_ERASE_PAGE_END_NO_CONFIGS
  EndPageConfigs,     \* BOOT_CONFIG_USER_MEMORY_ERASE_PAGE_END_CONFIGS
  ConfigStart,        \* BOOT_MEMORY_CONFIG_START_ADDRESS
  PacketWords,        \* RequestDataBlockSize / WORDSIZE
  InvalidAddress,     \* the all-ones address
  Word,               \* contents of a word that is not blank
  Blank,              \* 0xFFFF, an erased word
  Spoiled             \* a word programmed twice without an erase

ASSUME LayoutAssumption ==
  /\ PageWords \in Nat /\ PageWords > 0 /\ PageWords % 2 = 0
  /\ StartPage \in Nat /\ EndPageNoConfigs \in Nat /\ EndPageConfigs \in Nat
  /\ StartPage <= EndPageNoConfigs /\ EndPageNoConfigs <= EndPageConfigs
  /\ ConfigStart \in Nat /\ ConfigStart % 2 = 0
  /\ (EndPageNoConfigs + 1) * PageWords <= ConfigStart
  /\ ConfigStart < (EndPageConfigs + 1) * PageWords
  /\ PacketWords \in Nat /\ PacketWords > 0 /\ PacketWords % 2 = 0
  /\ InvalidAddress \in Nat /\ (EndPageConfigs + 1) * PageWords < InvalidAddress
  /\ Blank \notin Word /\ Spoiled \notin Word /\ Blank # Spoiled

UserStart    == StartPage * PageWords
EndNoConfigs == (EndPageNoConfigs + 1) * PageWords
ConfigEnd    == (EndPageConfigs + 1) * PageWords

Address  == 0 .. ConfigEnd - 1
Data     == Word \cup {Blank}
Contents == Data \cup {Spoiled}
Slot     == 0 .. PacketWords - 1

PageOf(p) == p * PageWords .. (p + 1) * PageWords - 1

\* The fields of PacketToFromPC the commands use.  Payloads are right
\* justified: the words of a packet of size n are data[PacketWords-n ..].
Commands == {"QUERY_DEVICE", "UNLOCK_CONFIG", "ERASE_DEVICE", "PROGRAM_DEVICE",
             "PROGRAM_COMPLETE", "GET_DATA", "RESET_DEVICE"}

Packet == [cmd : Commands \cup {"none"}, addr : Nat, size : 0 .. PacketWords,
           data : [Slot -> Contents], unlock : BOOLEAN]

NoData == [s \in Slot |-> Blank]

\* A command that has no operand of its own: the other fields stay zero.
Plain(cmd) ==
  [cmd |-> cmd, addr |-> 0, size |-> 0, data |-> NoData, unlock |-> FALSE]

Empty == Plain("none")
Full(box) == box.cmd # "none"

Payload(pkt, i) == pkt.data[PacketWords - pkt.size + i]

\* Programming a word can only clear bits.
Burn(old, new) ==
  IF new = Blank \/ old = new THEN old ELSE IF old = Blank THEN new ELSE Spoiled

VARIABLES
  outPacket,   \* PacketFromPCBuffer once the SIE has filled it, Empty while armed
  inPacket     \* PacketToPC from USBTxOnePacket to the host's read, or Empty

link == <<outPacket, inPacket>>

=============================================================================
