----------------------------- MODULE MCUsbLink -----------------------------
EXTENDS UsbLink

CONSTANTS query, erase

MCReport == {query, erase}
MCAnswered == {query}

\* "device" needs an empty packet after two full ones, "report" less than a packet.
MCSize == [device |-> 4, configuration |-> 4, report |-> 3, hid |-> 1,
           getStatus |-> 2, getConfiguration |-> 1, getIdle |-> 1]

Req(kind, arg, pipe, len) == [kind |-> kind, arg |-> arg, pipe |-> pipe, len |-> len]

MCRequests ==
  {Req("device", 0, "in1", 6), Req("report", 0, "in1", 1),
   Req("setAddress", 1, "in1", 0), Req("setConfiguration", 1, "in1", 0),
   Req("setHalt", 0, "out1", 0), Req("clearHalt", 0, "out1", 0),
   Req("setReport", 0, "in1", 3), Req("other", 0, "in1", 0)}
=============================================================================
