--------------------------- MODULE UsbDescriptors ---------------------------
(***************************************************************************)
(* The descriptor parsers of the libusb backends                           *)
(* (video/libusb-uvc/desc-parser.c, audio/libusb-uac/adesc-parser.c). Both *)
(* walk the configuration of the camera in order: init of the video        *)
(* backend fills mxuvc_vcfg[], init of the audio backend aud_cfg. A        *)
(* configuration is a sequence of descriptors; bytes are abstracted.       *)
(***************************************************************************)
EXTENDS Integers, Sequences, FiniteSets, SequencesExt

CONSTANTS
  Devices,          \* configurations of cameras: sequences of descriptors
  NumVidChannel,    \* NUM_VID_CHANNEL
  MaxAudFmts,       \* MAX_AUD_FMTS
  MaxIntervals,     \* of a frame of a frame-based format: 5
  MaxAlts,          \* MAX_ALT_PER_INT
  Rates,            \* values of the option audio_sampling_rate
  MaxInits          \* inits of the audio backend

ASSUME DescriptorAssumption ==
  {NumVidChannel, MaxAudFmts, MaxIntervals, MaxAlts, MaxInits} \subseteq Nat \ {0}

-----------------------------------------------------------------------------
(* The descriptors: what the parsers take from each. A plain one is taken    *)
(* for its kind alone: "unknown", or "zero" for a length of zero.            *)

Vc(n) == [kind |-> "vc", if |-> n]
Unit(k, n) == [kind |-> k, id |-> n]         \* camera, processing, extension, feature
Vs(n, announced) == [kind |-> "vs", if |-> n, formats |-> announced]
Format(t, n, announced) == [kind |-> "format", type |-> t, id |-> n, frames |-> announced]
Frame(t, n, i) == [kind |-> "frame", type |-> t, id |-> n, fri |-> i]
Endpoint(b, n) == [kind |-> "endpoint", bulk |-> b, endpoints |-> n]
Alt(bytes, n) == [kind |-> "alt", size |-> bytes, endpoints |-> n]
Ac(n) == [kind |-> "ac", if |-> n]
Input(n) == [kind |-> "input", channels |-> n]
As(a, r) == [kind |-> "as", if |-> 9, alt |-> a, rate |-> r]
Plain(k) == [kind |-> k]

\* The intervals of a frame: a list of n, or a range.
List(n) == [type |-> "discrete", list |-> [i \in 1 .. n |-> 10 * i]]
Span(a, b) == [type |-> "continuous", min |-> a, max |-> b, step |-> 1]

\* The first descriptors of interfaces.
Headers == {"vc", "vs", "endpoint", "alt", "ac", "as"}

Intervals == [type : {"discrete"}, list : Seq(Nat)]
               \cup [type : {"continuous"}, min : Nat, max : Nat, step : Nat]
Descriptors ==
  [kind : {"vc", "ac"}, if : Nat] \cup [kind : {"vs"}, if : Nat, formats : Nat]
    \cup [kind : {"camera", "processing", "extension", "feature"}, id : Nat]
    \cup [kind : {"format"}, type : STRING, id : Nat, frames : Nat]
    \cup [kind : {"frame"}, type : STRING, id : Nat, fri : Intervals]
    \cup [kind : {"endpoint"}, bulk : BOOLEAN, endpoints : Nat]
    \cup [kind : {"alt"}, size : Nat, endpoints : Nat]
    \cup [kind : {"input"}, channels : Nat] \cup [kind : {"as"}, if : Nat, alt : Nat, rate : Nat]
    \cup [kind : {"unknown", "zero"}]

Positions(d, kind) == {i \in DOMAIN d : d[i].kind = kind}

\* The interface of position i begins with a descriptor of this kind.
Under(d, i, kind) ==
  \E h \in Positions(d, kind) : h < i /\ \A j \in h + 1 .. i : d[j].kind \notin Headers

\* The video function that position i belongs to.
Function(d, i) == Cardinality({j \in Positions(d, "vc") : j <= i})

\* Units belong to interfaces of video control, formats and frames to those of video
\* streaming, of which each video function has one, after its video control. The code
\* relies on two things that it does not test, and writes beyond its tables without
\* them: a frame comes after a format, and a function has no more than MAX_ALT_PER_INT
\* alternate settings (desc-parser.c:572-580, 867-879; desc-parser.h:120-121).
WellFormed(d) ==
  /\ d \in Seq(Descriptors)
  /\ \A i \in DOMAIN d :
       /\ d[i].kind \in {"camera", "processing", "extension"} => Under(d, i, "vc")
       /\ d[i].kind \in {"format", "frame"} => Under(d, i, "vs")
       /\ d[i].kind = "frame" => Under(d, i, "format")
       /\ d[i].kind \in {"vs", "endpoint", "alt"} => \E v \in Positions(d, "vc") : v < i
  /\ \A a, b \in Positions(d, "vs") : a < b => \E v \in Positions(d, "vc") : a < v /\ v < b
  /\ \A c \in 1 .. NumVidChannel :
       Cardinality({i \in Positions(d, "alt") : Function(d, i) = c}) <= MaxAlts

ASSUME DevicesAssumption == (\A d \in Devices : WellFormed(d)) /\ Rates \subseteq Nat \ {0}
-----------------------------------------------------------------------------
VARIABLES
  device,   \* the configuration that is read
  parse,    \* which parser reads, where it is, and the result of each
  vcfg,     \* mxuvc_vcfg[]
  chan,     \* the statics chan and cfg, and the locals of parse_uvc_vs
  aud,      \* aud_cfg
  rate,     \* the sampling rate asked for
  inits     \* inits of the audio backend so far

descVars == <<device, parse, vcfg, chan, aud, rate, inits>>

Unset == [type |-> "unset"]         \* memory from malloc
NoChannel == [enabled |-> FALSE, vcIf |-> 0, camera |-> 0, processing |-> 0,
              extension |-> <<>>, vsIf |-> 0, formats |-> <<>>, bulk |-> FALSE, alts |-> <<>>]
NoFormat == [alt |-> 0, samFr |-> 0]

DescInit ==
  /\ device \in Devices
  /\ parse = [by |-> "none", at |-> 1, video |-> "none", audio |-> "none"]
  /\ vcfg = [c \in 1 .. NumVidChannel |-> NoChannel]
  /\ chan = [next |-> 1, cfg |-> 0, format |-> 0, frame |-> 0, skip |-> FALSE]
  /\ aud = [format |-> [i \in 0 .. MaxAudFmts - 1 |-> NoFormat], idx |-> 0, ctrlIf |-> 0,
            interface |-> 0, feature |-> 0, numChan |-> 0]
  /\ rate \in Rates /\ inits = 0
-----------------------------------------------------------------------------
(* The walk *)

AudioKinds == {"ac", "feature", "input", "as"}
Here == device[parse.at]
Reading(kind) ==
  parse.by = (IF kind \in AudioKinds THEN "audio" ELSE "video")
    /\ parse.at <= Len(device) /\ Here.kind = kind

\* The descriptors that follow a class-specific one of length zero are not read,
\* up to the next interface.
InInterface == {"camera", "processing", "extension", "format", "frame", "unknown", "zero"}
Parsing(kind) == Reading(kind) /\ (kind \in InInterface => ~chan.skip)

Advance == parse' = [parse EXCEPT !.at = @ + 1]
Refuse == parse' = [parse EXCEPT !.by = "none", ![parse.by] = "refused"]
Rest == UNCHANGED <<device, rate, inits>>

VideoParse ==
  /\ parse.by = "none" /\ parse.video = "none"
  /\ parse' = [parse EXCEPT !.by = "video", !.at = 1]
  /\ UNCHANGED <<vcfg, chan, aud>> /\ Rest

AudioParse ==
  /\ parse.by = "none" /\ inits < MaxInits /\ inits' = inits + 1
  /\ parse' = [parse EXCEPT !.by = "audio", !.at = 1]
  /\ rate' \in Rates
  /\ UNCHANGED <<device, vcfg, chan, aud>>

\* The other parser's interfaces, and what is skipped.
Ignore ==
  /\ parse.at <= Len(device)
  /\ \/ parse.by = "video" /\ Here.kind \in AudioKinds
     \/ parse.by = "audio" /\ Here.kind \notin AudioKinds
     \/ parse.by = "video" /\ Here.kind \in InInterface /\ chan.skip
     \/ Parsing("unknown")
  /\ Advance /\ UNCHANGED <<vcfg, chan, aud>> /\ Rest
-----------------------------------------------------------------------------
(* Video *)

Cfg == vcfg[chan.cfg]
SetCfg(field, value) == vcfg' = [vcfg EXCEPT ![chan.cfg][field] = value]

\* parse_uvc_format and parse_uvc_frame.
ReadFormat(d) ==
  [type |-> d.type, id |-> d.id,
   frames |-> [i \in 1 .. IF d.type = "mpeg2ts" THEN 0 ELSE d.frames |-> Unset]]

\* The intervals of a frame: a list, or a range, of which a firmware may send
\* the ends exchanged. A list that is too long is not stored: the number is.
ParseIntervals(type, fri) ==
  CASE fri.type = "discrete" /\ type = "frame_based" /\ Len(fri.list) > MaxIntervals ->
         [type |-> "discrete", list |-> [i \in 1 .. Len(fri.list) |-> 0]]
    [] fri.type = "discrete" /\ ~(type = "frame_based" /\ Len(fri.list) > MaxIntervals) -> fri
    [] fri.type = "continuous" ->
         IF fri.min > fri.max THEN [fri EXCEPT !.min = fri.max, !.max = fri.min] ELSE fri

ReadFrame(d) == [type |-> d.type, id |-> d.id, fri |-> ParseIntervals(d.type, d.fri)]

\* Mutant: what follows still goes to the first channel.
ParseVcFirst ==
  /\ Parsing("vc") /\ chan.next <= NumVidChannel
  /\ Advance
  /\ chan' = [chan EXCEPT !.next = @ + 1, !.cfg = 1, !.skip = FALSE]
  /\ vcfg' = [vcfg EXCEPT ![chan.next].enabled = TRUE, ![chan.next].vcIf = Here.if]
  /\ UNCHANGED aud /\ Rest

\* The next channel: interfaces of video streaming that follow belong to it.
ParseVc ==
  /\ Parsing("vc")
  /\ IF chan.next > NumVidChannel
       THEN Refuse /\ UNCHANGED <<vcfg, chan>>
       ELSE /\ Advance
            /\ chan' = [chan EXCEPT !.next = @ + 1, !.cfg = chan.next, !.skip = FALSE]
            /\ vcfg' = [vcfg EXCEPT ![chan.next].enabled = TRUE, ![chan.next].vcIf = Here.if]
  /\ UNCHANGED aud /\ Rest

ParseUnit ==
  /\ \/ Parsing("camera") /\ SetCfg("camera", Here.id)
     \/ Parsing("processing") /\ SetCfg("processing", Here.id)
     \/ Parsing("extension") /\ SetCfg("extension", Append(Cfg.extension, Here.id))
  /\ Advance /\ UNCHANGED <<chan, aud>> /\ Rest

ParseZero ==
  /\ Parsing("zero") /\ chan' = [chan EXCEPT !.skip = TRUE]
  /\ Advance /\ UNCHANGED <<vcfg, aud>> /\ Rest

\* Alternate setting 0: the table of formats is allocated as long as announced.
ParseVs ==
  /\ Parsing("vs") /\ chan.cfg # 0
  /\ vcfg' = [vcfg EXCEPT ![chan.cfg].vsIf = Here.if,
                          ![chan.cfg].formats = [i \in 1 .. Here.formats |-> Unset]]
  /\ chan' = [chan EXCEPT !.format = 0, !.frame = 0, !.skip = FALSE]
  /\ Advance /\ UNCHANGED aud /\ Rest

ParseFormat ==
  /\ Parsing("format")
  /\ IF chan.format >= Len(Cfg.formats)
       THEN Refuse /\ UNCHANGED <<vcfg, chan>>
       ELSE /\ vcfg' = [vcfg EXCEPT ![chan.cfg].formats[chan.format + 1] = ReadFormat(Here)]
            /\ chan' = [chan EXCEPT !.format = @ + 1, !.frame = 0]
            /\ Advance
  /\ UNCHANGED aud /\ Rest

\* What parse_uvc_frame returns is not looked at.
ParseFrame ==
  /\ Parsing("frame")
  /\ IF chan.frame >= Len(Cfg.formats[chan.format].frames)
       THEN Refuse /\ UNCHANGED <<vcfg, chan>>
       ELSE /\ vcfg' = [vcfg EXCEPT ![chan.cfg].formats[chan.format].frames[chan.frame + 1] = ReadFrame(Here)]
            /\ chan' = [chan EXCEPT !.frame = @ + 1]
            /\ Advance
  /\ UNCHANGED aud /\ Rest

ParseEndpoint ==
  /\ Parsing("endpoint")
  /\ IF Here.bulk /\ Here.endpoints # 1
       THEN Refuse /\ UNCHANGED vcfg
       ELSE Advance /\ SetCfg("bulk", Cfg.bulk \/ Here.bulk)
  /\ UNCHANGED <<chan, aud>> /\ Rest

ParseAlt ==
  /\ Parsing("alt")
  /\ IF Here.endpoints # 1
       THEN Refuse /\ UNCHANGED vcfg
       ELSE Advance /\ SetCfg("alts", Append(Cfg.alts, Here.size))
  /\ UNCHANGED <<chan, aud>> /\ Rest
-----------------------------------------------------------------------------
(* Audio *)

ParseAc ==
  /\ \/ Parsing("ac") /\ aud' = [aud EXCEPT !.ctrlIf = Here.if]
     \/ Parsing("feature") /\ aud' = [aud EXCEPT !.feature = Here.id]
     \/ Parsing("input") /\ aud' = [aud EXCEPT !.numChan = Here.channels]
  /\ Advance /\ UNCHANGED <<vcfg, chan>> /\ Rest

\* The test of the index comes first, for alternate setting 0 too.
ParseAs ==
  /\ Parsing("as")
  /\ IF aud.idx >= MaxAudFmts
       THEN Refuse /\ UNCHANGED aud
       ELSE /\ Advance
            /\ aud' = IF Here.alt = 0 THEN [aud EXCEPT !.interface = Here.if]
                      ELSE [aud EXCEPT !.interface = Here.if, !.idx = @ + 1,
                              !.format[aud.idx] = [alt |-> Here.alt, samFr |-> Here.rate]]
  /\ UNCHANGED <<vcfg, chan>> /\ Rest
-----------------------------------------------------------------------------
\* The end of the walk. Audio then takes the first slot with the rate asked for,
\* stale ones of an earlier init included; idx stays where the next init goes on.
Slots == {i \in 0 .. MaxAudFmts - 1 : aud.format[i].samFr = rate}
First(slots) == CHOOSE i \in slots : \A j \in slots : i <= j

ParseEnd ==
  /\ parse.by # "none" /\ parse.at > Len(device)
  /\ IF parse.by = "audio" /\ Slots # {}
       THEN aud' = [aud EXCEPT !.idx = First(Slots)] ELSE UNCHANGED aud
  /\ IF parse.by = "audio" /\ Slots = {}
       THEN Refuse ELSE parse' = [parse EXCEPT !.by = "none", ![parse.by] = "parsed"]
  /\ UNCHANGED <<vcfg, chan>> /\ Rest

DescNext ==
  \/ VideoParse \/ AudioParse \/ Ignore \/ ParseEnd
  \/ ParseVc \/ ParseUnit \/ ParseZero \/ ParseVs \/ ParseFormat \/ ParseFrame
  \/ ParseEndpoint \/ ParseAlt \/ ParseAc \/ ParseAs
-----------------------------------------------------------------------------
(* What a configuration d describes, stated without the walk *)

\* No descriptor of length zero comes before this one in its interface.
Live(d, i) ==
  ~\E z \in Positions(d, "zero") : z < i /\ \A j \in z .. i : d[j].kind \notin Headers

\* The positions of a kind that belong to the c-th function, among the first n.
Of(d, kind, c, n) == {i \in Positions(d, kind) : i <= n /\ Function(d, i) = c /\ Live(d, i)}

\* The frames of the format at position i are those up to the next format.
FramesOf(d, i, c, n) ==
  {f \in Of(d, "frame", c, n) : f > i /\ ~\E g \in Positions(d, "format") : i < g /\ g < f}

\* The place of position i among some.
Rank(i, positions) == Cardinality({j \in positions : j <= i})

\* An identifier is that of the last descriptor at some positions, 0 if there is none.
LastId(d, id, positions) ==
  IF positions = {} THEN id = 0
  ELSE \E i \in positions : id = d[i].id /\ \A j \in positions : j <= i

Ordered(fri) == fri.type = "discrete" \/ fri.min <= fri.max
TooMany(frame) == frame.type = "frame_based" /\ frame.fri.type = "discrete" /\ Len(frame.fri.list) > MaxIntervals

FrameDescribed(stored, frame) ==
  /\ stored.id = frame.id /\ stored.type = frame.type
  /\ Ordered(stored.fri)
  /\ Ordered(frame.fri) /\ ~TooMany(frame) => stored.fri = frame.fri

FormatDescribed(d, stored, i, c, n) ==
  LET frames == FramesOf(d, i, c, n)
  IN  /\ stored.id = d[i].id /\ stored.type = d[i].type
      /\ Cardinality(frames) <= Len(stored.frames)
      /\ \A f \in frames : FrameDescribed(stored.frames[Rank(f, frames)], d[f])

FormatsDescribed(d, stored, c, n) ==
  LET formats == Of(d, "format", c, n)
  IN  /\ Cardinality(formats) <= Len(stored)
      /\ \A i \in formats : FormatDescribed(d, stored[Rank(i, formats)], i, c, n)

\* A list holds the values of some positions, in their order.
Listed(list, values) ==
  /\ Len(list) = Cardinality(DOMAIN values)
  /\ \A i \in DOMAIN values : list[Rank(i, DOMAIN values)] = values[i]

\* The first n descriptors are in the record of channel c.
ChannelDescribed(d, v, c, n) ==
  /\ LastId(d, v.camera, Of(d, "camera", c, n))
  /\ LastId(d, v.processing, Of(d, "processing", c, n))
  /\ Listed(v.extension, [i \in Of(d, "extension", c, n) |-> d[i].id])
  /\ FormatsDescribed(d, v.formats, c, n)
  /\ Listed(v.alts, [i \in Of(d, "alt", c, n) |-> d[i].size])
  /\ v.bulk <=> \E i \in Of(d, "endpoint", c, n) : d[i].bulk

VideoDescribed(n) ==
  \A c \in 1 .. NumVidChannel :
    IF c <= Function(device, n) THEN ChannelDescribed(device, vcfg[c], c, n) ELSE vcfg[c] = NoChannel

AudioDescribed ==
  \E i \in Positions(device, "as") :
    aud.format[aud.idx] = [alt |-> device[i].alt, samFr |-> rate] /\ device[i].rate = rate

\* An accepted configuration is understood as it is: each channel of the video
\* has the units, formats, frames, intervals and settings of its own function,
\* none of another one (desc-parser.c:305-888), and the audio runs, also when
\* it is initialised again, with an alternate setting of the rate asked for
\* (adesc-parser.c:195-296, uac.c:396-405).
ParsedAsDescribed ==
  /\ parse.video = "parsed" => VideoDescribed(Len(device))
  /\ parse.audio = "parsed" /\ parse.by # "audio" => AudioDescribed
=============================================================================
