------------------------------ MODULE UvcDemux ------------------------------
(***************************************************************************)
(* demux_uvc (video/libusb-uvc/uvc.c): puts the UVC payloads of a channel  *)
(* together to frames and gives them to the client. Payloads carry a frame *)
(* id that toggles and an end-of-frame bit but no number; a transport      *)
(* stream has a continuity counter besides. Isochronous payloads get lost. *)
(* The camera is external.                                                 *)
(***************************************************************************)
EXTENDS Integers, Sequences, FiniteSets, SequencesExt

CONSTANTS
  MaxFrames,      \* frames the camera sends
  Payloads,       \* payloads that an isochronous camera splits a frame into
  Parts,          \* transport packets of the video in one of them
  CcModulus,      \* of the continuity counter: 16 in MPEG-2
  MaxFrameSize,   \* MAX_FRAME_SIZE, in parts
  MaxStarts       \* starts of the stream

ASSUME DemuxAssumption ==
  /\ MaxFrames \in Nat /\ MaxStarts \in Nat
  /\ Payloads \in Nat \ {0} /\ Parts \in Nat \ {0} /\ CcModulus \in Nat \ {0, 1}
  /\ MaxFrameSize \in Nat /\ MaxFrameSize > Payloads * Parts

VARIABLES
  stream,  \* "raw", "ts" or "quirk" (quirk_demuxts), and whether vs.bulk
  starts,  \* starts of the stream so far
  demux,   \* the statics of demux_uvc, first_transfer, and the abort of assert
  out,     \* what the client was last called with
  camera,  \* the frame and payload to be sent next, and the counter
  wire     \* what happened to the payloads, see WireInit

demuxVars == <<stream, starts, demux, out, camera, wire>>

NoCc == -1
Quirk == stream.format = "quirk"
Transport == stream.format # "raw"
Cut == IF stream.bulk THEN 1 ELSE Payloads        \* payloads of a frame
Fid(frame) == frame % 2

\* The reset at the first transfer after a start.
Reset == [first |-> FALSE, fid |-> 0, eof |-> TRUE, buf |-> <<>>, error |-> FALSE,
          cc |-> NoCc, aborted |-> FALSE]

\* Lost video packets since the last that arrived; frames with a loss or damage,
\* frames of which something arrived, frames whose end did; the first video
\* frame after a start if its beginning was lost; a gap the counter cannot show;
\* frames that had to be delivered and those that were.
WireInit == [gap |-> 0, hurt |-> {}, seen |-> {}, ended |-> {}, headless |-> {},
             hidden |-> FALSE, due |-> {}, given |-> {}, first |-> 1]

DemuxInit ==
  /\ stream = [format |-> "none", bulk |-> FALSE] /\ starts = 0
  /\ demux = Reset /\ out = <<>>
  /\ camera = [frame |-> 1, payload |-> 1, cc |-> 0]
  /\ wire = WireInit
-----------------------------------------------------------------------------
(* The camera *)

\* A packet without payload repeats the counter of the last one.
Packet(kind, part, cc) ==
  [kind |-> kind, frame |-> camera.frame, part |-> part, start |-> part = 1, cc |-> cc]

Size == IF stream.bulk THEN Payloads * Parts ELSE Parts

Video(damaged) ==
  [i \in 1 .. Size |->
     LET part == (camera.payload - 1) * Size + i
     IN  Packet(IF damaged /\ i = 1 THEN "damaged" ELSE "video", part, (camera.cc + i) % CcModulus)]

\* Other pids and adaptation fields come between, where it is a transport stream.
Sendable ==
  {Video(FALSE)} \cup
  (IF Transport
     THEN {Video(TRUE), <<Packet("other", 0, 0)>> \o Video(FALSE),
           <<Packet("fill", 0, camera.cc)>> \o Video(FALSE)}
     ELSE {})

AtEnd == camera.payload = Cut

Sent == camera' = [frame |-> IF AtEnd THEN camera.frame + 1 ELSE camera.frame,
                   payload |-> IF AtEnd THEN 1 ELSE camera.payload + 1,
                   cc |-> (camera.cc + Size) % CcModulus]
-----------------------------------------------------------------------------
(* demux_uvc *)

\* The frame id toggled. Without the end of the old frame the new one counts as
\* damaged.
Toggle(d, fid) ==
  IF d.fid = fid THEN d
  ELSE [d EXCEPT !.fid = fid, !.buf = <<>>, !.error = @ \/ ~d.eof]

\* Mutant: the continuity is not checked.
TsPacketUnchecked(d, p) ==
  LET head == [d EXCEPT !.cc = p.cc, !.buf = IF p.start /\ Quirk THEN <<>> ELSE @]
  IN  CASE p.kind = "other" -> d
        [] p.kind = "fill" -> [d EXCEPT !.cc = p.cc]
        [] p.kind = "damaged" -> [d EXCEPT !.cc = p.cc, !.error = TRUE]
        [] p.kind = "video" -> IF Quirk /\ ~d.error THEN [head EXCEPT !.buf = Append(@, p)] ELSE head

\* A packet of the transport stream; only the quirk takes its data here, unless the
\* frame would be as long as the buffer. The counter of a packet without payload is
\* taken over unchecked.
TsPacket(d, p) ==
  LET jump == d.cc # NoCc /\ p.kind # "fill" /\ (d.cc + 1) % CcModulus # p.cc
      seen == [d EXCEPT !.cc = p.cc, !.error = @ \/ jump]
      head == [seen EXCEPT !.buf = IF p.start /\ Quirk THEN <<>> ELSE @]
  IN  CASE p.kind = "other" -> d
        [] p.kind # "other" /\ (seen.error \/ p.kind = "fill") -> seen
        [] p.kind = "damaged" /\ ~seen.error -> [seen EXCEPT !.error = TRUE]
        [] p.kind = "video" /\ ~seen.error ->
             IF Quirk /\ Len(head.buf) + 1 < MaxFrameSize
               THEN [head EXCEPT !.buf = Append(@, p)] ELSE head

Demuxed(d, packets) == IF Transport THEN FoldLeft(TsPacket, d, packets) ELSE d

Collect(d, packets) ==
  CASE Quirk -> d
    [] ~Quirk /\ stream.bulk -> [d EXCEPT !.buf = packets]
    [] ~Quirk /\ ~stream.bulk -> [d EXCEPT !.buf = @ \o packets]

\* The packets of the video.
Data(packets) == {i \in DOMAIN packets : packets[i].kind = "video"}

\* Copying more than MAX_FRAME_SIZE, of whatever packets, fails an assertion.
Overflows(d, packets) ==
  ~Quirk /\ ~stream.bulk /\ Len(d.buf \o packets) > MaxFrameSize

\* Mutant: the error of a frame stays.
DeliverStuck(d) ==
  IF ~AtEnd THEN demux' = d /\ UNCHANGED out
  ELSE demux' = [d EXCEPT !.buf = <<>>] /\ out' = IF d.error THEN out ELSE d.buf

\* What the client is given at the end of a frame.
Deliver(d) ==
  IF ~AtEnd THEN demux' = d /\ UNCHANGED out
  ELSE /\ demux' = [d EXCEPT !.error = FALSE, !.buf = <<>>]
       /\ out' = IF d.error THEN out ELSE d.buf

Entry(d) == IF d.first THEN Reset ELSE d
Filled(packets) ==
  Collect(Demuxed([Toggle(Entry(demux), Fid(camera.frame)) EXCEPT !.eof = AtEnd], packets), packets)
-----------------------------------------------------------------------------
(* What happened on the wire *)

\* The packets hold the first parts of a frame, in order, and no other data.
Holds(packets, frame, parts) ==
  /\ \A i \in Data(packets) : packets[i].frame = frame
  /\ {packets[i].part : i \in Data(packets)} = 1 .. parts
  /\ \A i, j \in Data(packets) : i < j => packets[i].part < packets[j].part

Whole(packets) == \E f \in 1 .. MaxFrames : Holds(packets, f, Payloads * Parts)

\* A gap is hidden when it spans whole rounds of the counter, or when a packet
\* without payload comes first after it.
Note(packets) ==
  LET f == camera.frame
      damage == \E i \in DOMAIN packets : packets[i].kind = "damaged"
      begins == demux.first \/ demux.cc = NoCc
      due == AtEnd /\ f \notin wire.hurt /\ ~damage
               /\ (f = wire.first \/ f - 1 \in wire.ended)
      given == AtEnd /\ ~Filled(packets).error /\ Whole(Filled(packets).buf)
  IN  wire' = [wire EXCEPT
        !.gap = 0,
        !.hurt = IF damage THEN @ \cup {f} ELSE @,
        !.seen = @ \cup {f},
        !.ended = IF AtEnd THEN @ \cup {f} ELSE @,
        !.headless = IF begins /\ camera.payload > 1 THEN @ \cup {f} ELSE @,
        !.hidden = @ \/ (~begins /\ wire.gap > 0
                           /\ (wire.gap % CcModulus = 0 \/ packets[1].kind = "fill")),
        !.due = IF due THEN @ \cup {f} ELSE @,
        !.given = IF given THEN @ \cup {f} ELSE @]
-----------------------------------------------------------------------------
Streaming == starts > 0 /\ ~demux.aborted /\ camera.frame <= MaxFrames

Receive ==
  /\ Streaming
  /\ \E packets \in Sendable :
       IF Overflows(Toggle(Entry(demux), Fid(camera.frame)), packets)
         THEN demux' = [demux EXCEPT !.aborted = TRUE] /\ UNCHANGED <<out, wire>>
         ELSE Deliver(Filled(packets)) /\ Note(packets)
  /\ Sent
  /\ UNCHANGED <<stream, starts>>

\* A payload that is lost, or that is refused for the length of its header.
Lose ==
  /\ Streaming
  /\ Sent
  /\ wire' = [wire EXCEPT !.gap = @ + Size, !.hurt = @ \cup {camera.frame}]
  /\ UNCHANGED <<stream, starts, demux, out>>

\* The stream is started, again: the camera begins a frame of either id.
StartStream(format, bulk) ==
  /\ starts < MaxStarts /\ starts' = starts + 1
  /\ stream' = [format |-> format, bulk |-> bulk]
  /\ demux' = [demux EXCEPT !.first = TRUE]
  /\ \E frame \in {camera.frame, camera.frame + 1} :
       /\ camera' = [camera EXCEPT !.frame = frame, !.payload = 1]
       /\ wire' = [WireInit EXCEPT !.first = frame, !.due = wire.due, !.given = wire.given]
  /\ out' = <<>>

DemuxNext == Receive \/ Lose
-----------------------------------------------------------------------------
(* Properties *)

\* A frame of a transport stream is given to the client whole or not at all, as
\* the continuity counter shows what is missing. Of any format, data of two frames
\* of the camera is put together only if the ends of all but the last were lost,
\* and between them every frame of the other id altogether (demux_uvc:
\* uvc.c:647-666, 698-716, 734-739, 784-790). Holes within a frame of the other
\* formats go unnoticed, a gap before the first packet of a stream too, and so do
\* the gaps that a counter cannot show.
DeliveredWhole ==
  /\ Transport /\ out # <<>> /\ ~wire.hidden =>
       Whole(out) \/ out[1].frame \in wire.headless
  /\ \A i, j \in DOMAIN out :
       LET f == out[i].frame
           g == out[j].frame
       IN  f < g => \A h \in f .. g :
                      (h \in wire.seen => Fid(h) = Fid(f)) /\ (h < g => h \notin wire.ended)

\* No frame is lost without a loss on the wire: one that arrived whole, right
\* after the end of the one before it or after the start of the stream, was
\* given to the client (uvc.c:624-635, 647-669, 784-822).
NoFalseDrop == ~demux.aborted => wire.due \subseteq wire.given
=============================================================================
