----------------------------- MODULE MCUsbMode -----------------------------
(* Scenarios for UsbMode.                                                  *)
EXTENDS UsbMode

\* Everything that may fail, together in one behaviour.
AllFailures == {FaultKinds}

\* A start fails half-way; everything else works.
HalfBuilt == {{"build"}}
=============================================================================
