---------------------------- MODULE UsbEndpoint ----------------------------
(***************************************************************************)
(* The board's generic USB endpoint as firmware_v2/usb_handler.c uses it   *)
(* through Microchip's stack: two OUT buffer descriptors, even (0) and odd *)
(* (1), that take turns and share one packet memory, and one IN packet.    *)
(*                                                                         *)
(* owned[b]  the descriptor belongs to the USB module (UOWN)               *)
(* sie       the descriptor the USB module fills next                      *)
(* cpu       the one the firmware arms next (pBDTEntryOut), or NoBuffer    *)
(* out       USBGenericOutHandle: the one the firmware looks at            *)
(* packet    USBGenericOutPacket                                           *)
(* reply     what waits in the IN descriptor, or NoReply                   *)
(*                                                                         *)
(* Histories: fresh, a packet has come since the firmware last took one    *)
(* and since the last SET_CONFIGURATION; current, the last answer was      *)
(* given since then.                                                       *)
(***************************************************************************)
EXTENDS Naturals

CONSTANT NoReply

Buffers  == {0, 1}
NoBuffer == 2

Released == [b \in Buffers |-> FALSE]

\* Mutant: the handle is kept, and looks at a descriptor that is not armed.
Arm_KeepsHandle(e) ==
  IF e.cpu = NoBuffer
    THEN [e EXCEPT !.out = NoBuffer]
    ELSE [e EXCEPT !.owned[e.cpu] = TRUE, !.cpu = 1 - e.cpu]

\* USBGenRead: arms the next descriptor, if the endpoint has been configured.
Arm(e) ==
  IF e.cpu = NoBuffer
    THEN [e EXCEPT !.out = NoBuffer]
    ELSE [e EXCEPT !.owned[e.cpu] = TRUE, !.out = e.cpu, !.cpu = 1 - e.cpu]

\* No descriptor is armed; b is the next to arm, and h what the handle is.
Cleared(p, b, h) ==
  [owned |-> Released, sie |-> 0, cpu |-> b, out |-> h, packet |-> p,
   fresh |-> FALSE, current |-> FALSE, reply |-> NoReply]

EndpointInit(p) == Cleared(p, NoBuffer, NoBuffer)

\* A bus reset clears what the stack keeps, but not the firmware's handle.
BusReset(e) == Cleared(e.packet, NoBuffer, e.out)

\* Mutant: the descriptors are not cleared, so an old reply stays.
Configure_KeepsReply(e) == Arm([Cleared(e.packet, 0, NoBuffer) EXCEPT !.reply = e.reply])

\* SET_CONFIGURATION clears every descriptor and both turns, and then
\* EVENT_CONFIGURED arms the even one; the packet memory is not touched.
Configure(e) == Arm(Cleared(e.packet, 0, NoBuffer))

\* The host's packet is stored if the descriptor whose turn it is is armed.
CanStore(e) == e.owned[e.sie]

Store(e, p) ==
  [e EXCEPT !.owned[e.sie] = FALSE, !.sie = 1 - e.sie,
            !.packet = p, !.fresh = TRUE]

\* ~USBHandleBusy(USBGenericOutHandle); a null handle is not busy either.
Received(e) == e.out = NoBuffer \/ ~e.owned[e.out]

EndpointType(Packets, Replies) ==
  [owned: [Buffers -> BOOLEAN], sie: Buffers, cpu: Buffers \cup {NoBuffer},
   out: Buffers \cup {NoBuffer}, packet: Packets,
   fresh: BOOLEAN, current: BOOLEAN, reply: Replies \cup {NoReply}]
=============================================================================
