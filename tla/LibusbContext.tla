--------------------------- MODULE LibusbContext ---------------------------
(***************************************************************************)
(* The libusb context that the backends and the plugins share: made by the *)
(* first init_libusb, exited by the exit_libusb that takes the count to    *)
(* zero (common/libusb/handle_events.c). Its users take these steps inside *)
(* their calls.                                                            *)
(***************************************************************************)
EXTENDS Integers

VARIABLES
  ctx,       \* libusb_ctx: "null", "live", or "dead" (exited, not reset)
  initRefs   \* init_refcnt

\* A context that was exited is not reset to NULL, and so is not made again.
InitLibusb ==
  /\ ctx' = IF ctx = "null" THEN "live" ELSE ctx
  /\ initRefs' = initRefs + 1

\* Mutant: each exit exits the context.
ExitLibusbAlways ==
  /\ initRefs' = initRefs - 1
  /\ ctx' = "dead"

ExitLibusb ==
  /\ initRefs' = IF initRefs <= 0 THEN -1 ELSE initRefs - 1
  /\ ctx' = IF initRefs' = 0 THEN "dead" ELSE ctx
=============================================================================
