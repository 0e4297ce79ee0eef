--------------------------- MODULE MCCaptureSwitch ---------------------------
(* Two devices and three tray requests, so that a toggle can cross a device  *)
(* selection still in the queue, on Windows: elsewhere the exclusive steps   *)
(* never occur and every behaviour is one of these.  A second launch reads   *)
(* what the first, ended at any step, left in the preferences file.          *)
EXTENDS CaptureSwitch
=============================================================================
