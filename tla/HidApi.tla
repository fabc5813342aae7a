------------------------------- MODULE HidApi -------------------------------
(***************************************************************************)
(* HIDAPI over libusb (HIDAPI/linux/hid-libusb.c): one device handle, the  *)
(* thread that calls the library and the read thread the library starts.   *)
(*                                                                         *)
(* libusb runs read_callback in whichever thread is handling events: the   *)
(* read thread, or the caller inside a synchronous write.  libusb itself   *)
(* is modelled by its contract: a cancellation succeeds on a transfer in   *)
(* progress only, and fails on one that is complete or already cancelled,  *)
(* also when its callback is still to come.                                *)
(***************************************************************************)
EXTENDS Integers, Sequences

CONSTANTS
  Report,
  MaxQueued,    \* the 30 of read_callback
  Nothing

ASSUME HidAssumption == MaxQueued \in Nat /\ Nothing \notin Report

VARIABLES
  user,       \* where the calling thread is
  thread,     \* where read_thread is
  urb,        \* dev->transfer: "none", "idle", "flying", or a result not yet reaped
  arrived,    \* the report in the transfer's buffer
  shutdown,   \* dev->shutdown_thread
  reports,    \* dev->input_reports
  blocking,   \* dev->blocking
  signalled,  \* dev->condition was signalled since the caller began to wait
  attached,   \* the handle's device is still there
  writing     \* the report hid_write sends, or Nothing

hidVars == <<user, thread, urb, arrived, shutdown, reports, blocking, signalled,
             attached, writing>>

Results == {"COMPLETED", "TIMED_OUT", "NO_DEVICE", "CANCELLED"}

HidInit ==
  /\ user = "closed" /\ thread = "none" /\ urb = "none" /\ arrived = Nothing
  /\ shutdown = FALSE /\ reports = <<>> /\ blocking = TRUE /\ signalled = FALSE
  /\ attached = FALSE /\ writing = Nothing

-----------------------------------------------------------------------------
(* Opening.                                                                *)

\* hid_open_path up to the barrier.
OpenPath ==
  /\ user = "closed"
  /\ user' = "barrier" /\ thread' = "starting" /\ urb' = "idle"
  /\ shutdown' = FALSE /\ reports' = <<>> /\ blocking' = TRUE /\ attached' = TRUE
  /\ UNCHANGED <<arrived, signalled, writing>>

\* libusb_submit_transfer, whose failure nobody looks at.
Submitted == urb' = IF attached THEN "flying" ELSE "idle"

\* read_thread up to the barrier, which lets both threads go on.
ThreadStarts ==
  /\ thread = "starting"
  /\ Submitted
  /\ thread' = "loop" /\ user' = "open"
  /\ UNCHANGED <<arrived, shutdown, reports, blocking, signalled, attached, writing>>

SetNonblocking ==
  /\ user = "open" /\ blocking
  /\ blocking' = FALSE
  /\ UNCHANGED <<user, thread, urb, arrived, shutdown, reports, signalled, attached, writing>>

-----------------------------------------------------------------------------
(* The read thread and its callback.                                       *)

\* Mutant: the new report is counted.
Queued_Early(r) ==
  LET q == Append(reports, r)
  IN  IF Len(reports) > MaxQueued THEN Tail(q) ELSE q

\* num_queued counts the reports behind the first, before the new one.
Queued(r) ==
  LET q == Append(reports, r)
  IN  IF Len(reports) > MaxQueued + 1 THEN Tail(q) ELSE q

\* Mutant: the waiter is only woken by the second report.
Signals_Late == reports # <<>>

Signals == reports = <<>>

Callback ==
  \/ /\ urb = "COMPLETED"
     /\ reports' = Queued(arrived)
     /\ signalled' = (signalled \/ Signals)
     /\ Submitted
     /\ UNCHANGED shutdown
  \/ /\ urb = "TIMED_OUT"
     /\ Submitted
     /\ UNCHANGED <<reports, signalled, shutdown>>
  \/ /\ urb \in {"NO_DEVICE", "CANCELLED"}
     /\ shutdown' = TRUE
     /\ urb' = "idle"
     /\ UNCHANGED <<reports, signalled>>

\* Somebody handles events; the event the read thread waits for after it
\* has cancelled is its last.
Reap ==
  /\ \/ thread = "loop" /\ UNCHANGED thread
     \/ thread = "cancelled" /\ thread' = "ended"
     \/ user = "writing" /\ UNCHANGED thread
  /\ Callback
  /\ arrived' = Nothing
  /\ UNCHANGED <<user, blocking, attached, writing>>

Cancellable == urb = "flying"

\* libusb_cancel_transfer; where it fails nothing changes.
CancelTransfer == urb' = IF Cancellable THEN "CANCELLED" ELSE urb

\* Mutant: it waits whether or not there is anything to wait for.
AfterCancel_Always(cancelled) == "cancelled"

AfterCancel(cancelled) == IF cancelled THEN "cancelled" ELSE "ended"

\* Mutant: the thread relies on the cancellation of hid_close.
LoopEnds_Relying ==
  /\ thread = "loop" /\ shutdown
  /\ thread' = "ended"
  /\ UNCHANGED <<user, urb, arrived, shutdown, reports, blocking, signalled, attached, writing>>

LoopEnds ==
  /\ thread = "loop" /\ shutdown
  /\ thread' = AfterCancel(Cancellable)
  /\ CancelTransfer
  /\ UNCHANGED <<user, arrived, shutdown, reports, blocking, signalled, attached, writing>>

-----------------------------------------------------------------------------
(* Calls on an open handle.                                                *)

Write(r) ==
  /\ user = "open"
  /\ user' = "writing" /\ writing' = r
  /\ UNCHANGED <<thread, urb, arrived, shutdown, reports, blocking, signalled, attached>>

\* libusb_interrupt_transfer returns: sent, timed out, or no device.
WriteReturns ==
  /\ user = "writing"
  /\ user' = "open" /\ writing' = Nothing
  /\ UNCHANGED <<thread, urb, arrived, shutdown, reports, blocking, signalled, attached>>

\* return_data for the caller; an empty list would be a null pointer.
ReturnData ==
  /\ reports # <<>>
  /\ reports' = Tail(reports)
  /\ UNCHANGED <<thread, urb, arrived, shutdown, blocking, attached, writing>>

\* hid_read that finds a report.
Read == user = "open" /\ ReturnData /\ UNCHANGED <<user, signalled>>

\* hid_read that has to wait; one that may not returns 0, or -1 after the
\* read thread has shut down, and changes nothing.
ReadWaits ==
  /\ user = "open" /\ reports = <<>> /\ ~shutdown /\ blocking
  /\ user' = "waiting" /\ signalled' = FALSE
  /\ UNCHANGED <<thread, urb, arrived, shutdown, reports, blocking, attached, writing>>

ReadWakes ==
  /\ user = "waiting" /\ signalled
  /\ ReturnData
  /\ user' = "open" /\ signalled' = FALSE

-----------------------------------------------------------------------------
(* hid_close.                                                              *)

Close ==
  /\ user = "open"
  /\ shutdown' = TRUE /\ user' = "closing"
  /\ UNCHANGED <<thread, urb, arrived, reports, blocking, signalled, attached, writing>>

CloseCancels ==
  /\ user = "closing"
  /\ CancelTransfer
  /\ user' = "joining"
  /\ UNCHANGED <<thread, arrived, shutdown, reports, blocking, signalled, attached, writing>>

\* pthread_join, and everything is freed.
CloseJoins ==
  /\ user = "joining" /\ thread = "ended"
  /\ user' = "closed" /\ thread' = "none" /\ urb' = "none"
  /\ arrived' = Nothing /\ reports' = <<>> /\ signalled' = FALSE
  /\ shutdown' = FALSE /\ blocking' = TRUE /\ attached' = FALSE
  /\ UNCHANGED writing

-----------------------------------------------------------------------------
(* The kernel.                                                             *)

Arrives(r) ==
  /\ urb = "flying"
  /\ urb' = "COMPLETED" /\ arrived' = r
  /\ UNCHANGED <<user, thread, shutdown, reports, blocking, signalled, attached, writing>>

\* The five seconds of the transfer are over.
TimesOut ==
  /\ urb = "flying"
  /\ urb' = "TIMED_OUT"
  /\ UNCHANGED <<user, thread, arrived, shutdown, reports, blocking, signalled, attached, writing>>

\* The device is gone; a later enumeration does not bring the handle back.
Detached ==
  /\ attached' = FALSE
  /\ urb' = IF urb = "flying" THEN "NO_DEVICE" ELSE urb
  /\ UNCHANGED <<user, thread, arrived, shutdown, reports, blocking, signalled, writing>>

HidSteps == ThreadStarts \/ Reap \/ LoopEnds \/ ReadWakes \/ CloseCancels \/ CloseJoins

HidCalls == SetNonblocking \/ Read \/ ReadWaits \/ Close

=============================================================================
