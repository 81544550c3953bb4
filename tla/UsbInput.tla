------------------------------ MODULE UsbInput ------------------------------
(***************************************************************************)
(* What the libusb backends take in from the camera: the descriptors, at   *)
(* init (UsbDescriptors), and the payloads of a channel, while it streams  *)
(* (UvcDemux). The parsed descriptors say how the payloads are put         *)
(* together.                                                               *)
(***************************************************************************)
EXTENDS UsbDescriptors, UvcDemux

CONSTANT Players    \* the configurations whose first channel is also streamed

ASSUME InputAssumption == Players \subseteq Devices

vars == <<descVars, demuxVars>>

Init == DescInit /\ DemuxInit

\* The format is one that set_format accepts: the stream of transport packets,
\* the stream without its packets where the camera has no format of its own for
\* that, or one that is passed on.
Formats(types) ==
  (IF "mpeg2ts" \in types THEN {"ts"} ELSE {}) \cup
  (IF "mpeg2ts" \in types /\ "frame_based" \notin types THEN {"quirk"} ELSE {}) \cup
  (IF types \ {"mpeg2ts"} # {} THEN {"raw"} ELSE {})

VideoStart ==
  /\ device \in Players /\ parse.video = "parsed" /\ parse.by = "none"
  /\ LET formats == vcfg[1].formats
     IN  \E f \in Formats({formats[i].type : i \in DOMAIN formats}) :
           StartStream(f, vcfg[1].bulk)
  /\ UNCHANGED descVars

Next ==
  \/ starts = 0 /\ DescNext /\ UNCHANGED demuxVars
  \/ VideoStart
  \/ DemuxNext /\ UNCHANGED descVars

Spec == Init /\ [][Next]_vars
=============================================================================
