---------------------------- MODULE V4l2Settings ----------------------------
(***************************************************************************)
(* Formats, sizes, rates and controls in the v4l2 backend                  *)
(* (video/v4l2/uvc.c). A channel is a mux channel, the raw channel of an   *)
(* ip camera, or a channel of a camera with or without Skype's SECS mode,  *)
(* which wraps every stream in 720p MJPEG.                                 *)
(***************************************************************************)
EXTENDS ChannelSettings

CONSTANT Channel      \* the channel's number: 1 for CH1, ... 7 for CH7

Fourcc(f) == IF f \in TsFormats THEN "MPEG" ELSE f         \* vidformat2fourcc
VidFormat(p) == IF p = "MPEG" THEN "H264_TS" ELSE p        \* fourcc2vidformat
SecsFormats == {"H264_RAW", "MJPEG_RAW", "YUY2_RAW", "NV12_RAW"}
SecsType(f) == IF f \in SecsFormats THEN f ELSE "none"     \* -1 in the code
IsMux == s.vfmt = "MUX" /\ s.ipcam

\* The driver: VIDIOC_S_FMT takes the nearest format and writes it back; it
\* ends a SECS stream. A SECS commit of an unknown type keeps the type.
Driven(p) == IF p \in Offered THEN p ELSE "MJPEG_RAW"
DriverSet(d, p, sz) == [d EXCEPT !.pix = Driven(p), !.size = sz, !.secs = "none"]
SecsSet(d, t, v) ==
  [d EXCEPT !.secs = IF t = "none" THEN (IF @ = "none" THEN "MJPEG_RAW" ELSE @) ELSE t,
            !.secsSize = v.size, !.rate = v.rate, !.bitrate = v.bitrate]

\* What the camera answers to the probe of a size, a rate and a bit rate: it
\* replaces a zero. When the answer cannot be read the offer stands.
Probed(v, bad) ==
  IF "answer" \in bad THEN v
  ELSE [v EXCEPT !.size = IF @ = "zero" THEN "hd" ELSE @,
                 !.rate = IF @ = 0 THEN 1 ELSE @, !.bitrate = IF @ = 0 THEN 1 ELSE @]

Delivered(d) ==
  IF d.secs # "none" THEN d.secs
  ELSE IF d.pix # "MPEG" THEN d.pix
  ELSE IF d.aac THEN "H264_AAC_TS" ELSE "H264_TS"

\* channel_init reads the format, the size, the rate and, for H.264, the bit
\* rate; a value it cannot read stays 0. AAC muxing is assumed to be off.
ChannelInit ==
  \E mode \in {"mux", "raw", "secs", "plain"}, p \in Offered, sz \in {"small", "hd"},
     on \in BOOLEAN, bad \in Failures({"size", "rate", "bitrate"}) :
    LET f == IF mode = "mux" THEN "MUX" ELSE VidFormat(p) IN
    /\ s = [vfmt |-> f, pix |-> Fourcc(f), big |-> sz = "hd", started |-> FALSE, aac |-> FALSE,
            ipcam |-> mode \in {"mux", "raw"}, secs |-> mode = "secs", secsOn |-> FALSE,
            size |-> IF "size" \in bad THEN "zero" ELSE sz,
            rate |-> IF "rate" \in bad THEN 0 ELSE 1,
            bitrate |-> IF f \in H264Formats /\ "bitrate" \notin bad THEN 1 ELSE 0]
    /\ dev = [pix |-> Fourcc(f), size |-> sz, aac |-> on, secs |-> "none", secsSize |-> sz,
              rate |-> 1, bitrate |-> 1]
    /\ lapse = IF on THEN {"aac"} ELSE {}
    /\ using # {} => sz = "hd" /\ p = "MJPEG_RAW" /\ bad = {} /\ ~on
-----------------------------------------------------------------------------
(* mxuvc_video_set_format. t is the record so far, d the camera, halted     *)
(* says whether the call has stopped the stream.                            *)

Leave(t, d, halted, ret, bad, why) ==
  /\ s' = [t EXCEPT !.started = IF halted THEN "start" \notin bad ELSE @]
  /\ dev' = d /\ lapse' = why
  /\ Return("set_format", IF halted /\ "start" \in bad THEN -1 ELSE ret, bad)

\* Mutant: an error path that does not start the stream again.
AbandonStopped(t, d, halted, bad) ==
  Leave([t EXCEPT !.started = @ /\ ~halted], d, FALSE, -1, bad, lapse \cup {"failed"})

Abandon(t, d, halted, bad) == Leave(t, d, halted, -1, bad, lapse \cup {"failed"})
StopFails(t, d, bad) ==
  Leave([t EXCEPT !.started = FALSE], d, FALSE, -1, bad, lapse \cup {"failed"})

\* Mutant: AAC muxing is switched on and never off.
SetAacOn(t, d, f, halted, bad, why) ==
  IF t.pix = "MPEG" /\ ~t.aac /\ f = "H264_AAC_TS"
    THEN Leave([t EXCEPT !.vfmt = f, !.aac = TRUE], [d EXCEPT !.aac = TRUE], halted, 0, bad, why \ {"aac"})
    ELSE Leave([t EXCEPT !.vfmt = f], d, halted, 0, bad, why)

\* The end of both branches: AAC muxing, which only a transport stream has.
SetAac(t, d, f, halted, bad, why) ==
  LET want == f = "H264_AAC_TS"
      u == [t EXCEPT !.vfmt = f] IN
  IF ~(t.pix = "MPEG" /\ t.aac # want) THEN Leave(u, d, halted, 0, bad, why)
  ELSE IF "aac" \in bad THEN Abandon(u, d, halted, bad)
  ELSE Leave([u EXCEPT !.aac = want], [d EXCEPT !.aac = want], halted, 0, bad, why \ {"aac"})

SecsSetFormat(f, bad) ==
  LET near == s.pix = "MJPEG_RAW" /\ s.big
      t == IF near THEN s ELSE [s EXCEPT !.pix = "MJPEG_RAW", !.big = TRUE]
      early == ~near /\ s.started
      d == IF near \/ "S_FMT" \in bad THEN dev ELSE DriverSet(dev, "MJPEG_RAW", "hd")
      u == Probed([t EXCEPT !.secsOn = TRUE], bad)
  IN \/ early /\ "stop" \in bad /\ StopFails(t, dev, bad)
     \/ /\ ~(early /\ "stop" \in bad)
        /\ bad \cap {"probe", "refuse"} # {}
        /\ Abandon(t, d, early, bad)
     \/ /\ ~early /\ s.started /\ "stop" \in bad
        /\ bad \cap {"probe", "refuse"} = {}
        /\ StopFails(t, d, bad)
     \/ /\ ~(s.started /\ "stop" \in bad) /\ bad \cap {"probe", "refuse"} = {}
        /\ IF "commit" \in bad THEN Abandon(t, d, s.started, bad)
           ELSE SetAac(u, SecsSet(d, SecsType(f), u), f, s.started, bad,
                       lapse \ {"failed", "adjusted", "type"})

PlainSetFormat(f, bad) ==
  LET t == [s EXCEPT !.pix = Fourcc(f)]
      d == DriverSet(dev, t.pix, IF s.big THEN "hd" ELSE "small")
      why == (lapse \ {"failed", "type", "adjusted"})
               \cup (IF d.pix = t.pix THEN {} ELSE {"adjusted"})
  IN \/ IsMux /\ Return("set_format", -1, bad) /\ UNCHANGED <<s, dev, lapse>>
     \/ ~IsMux /\ s.started /\ "stop" \in bad /\ StopFails(t, dev, bad)
     \/ /\ ~IsMux /\ ~(s.started /\ "stop" \in bad)
        /\ IF "S_FMT" \in bad THEN Abandon(t, dev, s.started, bad)
           ELSE SetAac([t EXCEPT !.pix = d.pix], d, f, s.started, bad, why)

SetFormat(f) ==
  /\ lib = "v4l2" /\ OnFormats
  /\ \/ f = s.vfmt /\ Return("set_format", 0, {}) /\ UNCHANGED <<s, dev, lapse>>
     \/ /\ f # s.vfmt
        /\ IF s.secs /\ SecsType(f) # "none"
             THEN \E bad \in Failures({"stop", "start", "S_FMT", "probe", "answer", "refuse",
                                      "commit"}) : SecsSetFormat(f, bad)
             ELSE \E bad \in Failures({"stop", "start", "S_FMT", "aac"}) : PlainSetFormat(f, bad)
  /\ UNCHANGED <<lib, using, ctl, wish>>

\* get_format reports the cache; a mux channel asks the camera instead.
GetFormat == IF IsMux THEN Delivered(dev) ELSE s.vfmt

StartStream ==
  /\ lib = "v4l2" /\ OnFormats /\ ~s.started
  /\ \E bad \in Failures({"start"}) :
       /\ s' = [s EXCEPT !.started = bad = {}]
       /\ Return("start", IF bad = {} THEN 0 ELSE -1, bad)
  /\ UNCHANGED <<lib, using, dev, ctl, wish, lapse>>

StopStream ==
  /\ lib = "v4l2" /\ OnFormats /\ s.started
  /\ s' = [s EXCEPT !.started = FALSE] /\ Return("stop", 0, {})
  /\ UNCHANGED <<lib, using, dev, ctl, wish, lapse>>
-----------------------------------------------------------------------------
(* mxuvc_video_set_resolution and mxuvc_video_get_resolution.               *)

Resized(t, d, ret, bad, why) ==
  s' = t /\ dev' = d /\ Return("set_resolution", ret, bad) /\ lapse' = why

\* SECS: the probe carries the current format, which has no type when a plain
\* format was set since SECS was enabled; only the size is compared.
SecsResolution(sz, bad) ==
  LET t == Probed([s EXCEPT !.size = sz], bad) IN
  IF bad \cap {"probe", "refuse", "commit"} # {} THEN Resized(s, dev, -1, bad, lapse)
  ELSE Resized(t, SecsSet(dev, SecsType(s.vfmt), t), 0, bad,
               lapse \cup (IF SecsType(s.vfmt) = "none" THEN {"type"} ELSE {}))

ControlResolution(sz, bad) ==
  IF "S_CTRL" \in bad THEN Resized(s, dev, -1, bad, lapse)
  ELSE Resized([s EXCEPT !.size = sz], [dev EXCEPT !.size = sz], 0, bad, lapse)

\* The format cache goes to the driver as it is: also a pixel format that an
\* earlier set_format left there and could not set. A failed start is ignored.
FormatResolution(sz, bad) ==
  LET t == [s EXCEPT !.big = sz = "hd", !.started = @ /\ "start" \notin bad]
      d == DriverSet(dev, s.pix, sz) IN
  IF s.started /\ "stop" \in bad
    THEN Resized([s EXCEPT !.started = FALSE], dev, -1, bad, lapse)
  ELSE IF "S_FMT" \in bad THEN Resized(t, dev, -1, bad, lapse)
  ELSE Resized([t EXCEPT !.size = sz, !.pix = d.pix], d, 0, bad, lapse)

SetResolution(sz) ==
  /\ lib = "v4l2" /\ OnFormats
  /\ IF s.secsOn THEN \E bad \in Failures({"probe", "answer", "refuse", "commit"}) :
                         SecsResolution(sz, bad)
     ELSE IF s.vfmt \in H264Formats \/ IsMux THEN \E bad \in Failures({"S_CTRL"}) :
                                                  ControlResolution(sz, bad)
     ELSE \E bad \in Failures({"stop", "start", "S_FMT"}) : FormatResolution(sz, bad)
  /\ UNCHANGED <<lib, using, ctl, wish>>

\* The SECS path does not refresh the cache; a mux channel ignores a failure
\* and caches size 0.
GetResolution ==
  /\ lib = "v4l2" /\ OnFormats
  /\ \E bad \in Failures({"G_FMT"}) :
       s' = IF s.secsOn THEN s
               ELSE IF bad = {} THEN
                 IF s.vfmt \in H264Formats \/ IsMux THEN [s EXCEPT !.size = dev.size]
                 ELSE [s EXCEPT !.size = dev.size, !.pix = dev.pix, !.big = dev.size = "hd"]
               ELSE IF IsMux THEN [s EXCEPT !.size = "zero"] ELSE s
  /\ UNCHANGED <<lib, using, last, dev, ctl, wish, lapse>>
-----------------------------------------------------------------------------
(* The frame rate and the bit rate; n is "rate" or "bitrate". On a mux      *)
(* channel a failed request is not noticed and the cache is written.        *)

SetRate(n, v) ==
  /\ lib = "v4l2" /\ OnFormats
  /\ UNCHANGED last
  /\ \E bad \in Failures({"S_CTRL"}) :
       LET ok == bad = {} \/ IsMux IN
       /\ s' = IF ok THEN [s EXCEPT ![n] = v] ELSE s
       /\ dev' = IF bad = {} THEN [dev EXCEPT ![n] = v] ELSE dev
  /\ UNCHANGED <<lib, using, ctl, wish, lapse>>
SetFramerate(v) == SetRate("rate", v)
SetBitrate(v) == SetRate("bitrate", v)

GetRate(n) ==
  /\ lib = "v4l2" /\ OnFormats
  /\ \E bad \in Failures({"G_CTRL"}) :
       \E got \in IF bad = {} THEN {dev[n]} ELSE IF IsMux THEN 0 .. 1 ELSE {s[n]} :
         s' = [s EXCEPT ![n] = got]
  /\ UNCHANGED <<lib, using, last, dev, ctl, wish, lapse>>
GetFramerate == GetRate("rate")
GetBitrate == GetRate("bitrate")

FormatCalls ==
  \/ \E f \in Formats : SetFormat(f)
  \/ StartStream \/ StopStream
  \/ \E sz \in {"small", "hd"} : SetResolution(sz)
  \/ GetResolution
  \/ SetFramerate(1) \/ SetBitrate(1)
  \/ GetFramerate \/ GetBitrate
-----------------------------------------------------------------------------
(* Controls: which identifier an accessor uses. "?" is none that exists.     *)

MuxOnly == {"vui", "compression_quality", "avc_level", "pict_timing", "gop_hierarchy_level"}
MuxToo == {"zoom", "goplen", "profile", "max_framesize"}
\* The identifiers of a mux channel's parameters: the table has no profile or
\* frame size for channels 6 and 7.
MuxId(name) == IF name \in {"profile", "max_framesize"} /\ Channel > 5 THEN "?" ELSE name

\* Which control an accessor addresses: pict_timing is declared with
\* MUX_XU_VUI_ENABLE; outside a mux channel the mux-only names are no identifiers.
ControlId(name) ==
  LET n == IF name = "pict_timing" THEN "vui" ELSE name IN
  IF IsMux /\ name \in MuxOnly \cup MuxToo THEN MuxId(n)
  ELSE IF name \in MuxOnly THEN "?" ELSE n

Controlling(name) ==
  /\ lib = "v4l2" /\ name \in using
  /\ UNCHANGED <<lib, using, s, dev>>

\* The set accessors (DECLARE_SET). On a mux channel the result of the request is dropped.
SetControl(name, v) ==
  /\ Controlling(name)
  /\ \E bad \in Failures({"S_CTRL"}) :
       LET id == ControlId(name)
           swallow == IsMux /\ name \in MuxOnly \cup MuxToo
           failed == Fails(id, "S_CTRL", bad)
           ret == IF failed /\ ~swallow THEN -1 ELSE 0
       IN /\ ctl' = IF failed THEN ctl ELSE Write(ctl, id, v, "value")
          /\ UNCHANGED last
          /\ Wished(ret, name, [value |-> v])
          /\ lapse' = IF failed /\ swallow THEN lapse \cup {name} ELSE lapse \ {name}

\* What the get accessors read (DECLARE_GET).
GetControl(name) == ctl[<<ControlId(name), "value">>]

\* The frame rectangle goes in one request, the power line frequency too.
SetWhole(name, v) ==
  /\ Controlling(name)
  /\ \E bad \in Failures({"S_CTRL"}) :
       LET ret == IF bad = {} THEN 0 ELSE -1 IN
       /\ ctl' = IF bad = {} THEN Write(ctl, name, v, "value") ELSE ctl
       /\ UNCHANGED last /\ Wished(ret, name, [value |-> v]) /\ UNCHANGED lapse
SetCrop(v) == SetWhole("crop", v)
SetPwrLineFreq(v) == SetWhole("pwr_line_freq", v)
SetPan(v) == SetWhole("pan", v)
SetTilt(v) == SetWhole("tilt", v)
GetCrop == ctl[<<"crop", "value">>]
GetPwrLineFreq == ctl[<<"pwr_line_freq", "value">>]
GetPan == ctl[<<"pan", "value">>]
GetTilt == ctl[<<"pan", "value">>]

SetPantilt(p, t) ==
  /\ Controlling("pan") /\ Controlling("tilt")
  /\ \E bad \in Failures({"pan", "tilt"}) :
       LET ret == IF bad = {} THEN 0 ELSE -1
           moved == IF "pan" \in bad THEN ctl ELSE Write(ctl, "pan", p, "value")
       IN /\ ctl' = IF bad = {} THEN Write(moved, "tilt", t, "value") ELSE moved
          /\ UNCHANGED last /\ UNCHANGED lapse
          /\ wish' = [i \in ControlIds |->
               IF i[1] \notin {"pan", "tilt"} THEN wish[i]
               ELSE IF bad # {} THEN Unset ELSE IF i[1] = "pan" THEN p ELSE t]

\* The audio bit rate is a parameter of CH1, whichever channel the other calls
\* are about. CH1 is a mux channel of every ip camera; on another camera nothing
\* happens and the calls return 0.
SetAudioBitrate(v) ==
  /\ Controlling("audio_bitrate")
  /\ \E bad \in Failures({"S_CTRL"}) :
       LET failed == s.ipcam /\ bad # {}
           ret == IF failed THEN -1 ELSE 0
       IN /\ ctl' = IF s.ipcam /\ ~failed THEN Write(ctl, "audio_bitrate", v, "value") ELSE ctl
          /\ UNCHANGED last
          /\ Wished(ret, "audio_bitrate", [value |-> v])
          /\ lapse' = IF s.ipcam THEN lapse ELSE lapse \cup {"audio_bitrate"}
GetAudioBitrate == IF s.ipcam THEN ctl[<<"audio_bitrate", "value">>] ELSE Unset
-----------------------------------------------------------------------------
(* Controls with a mode and a value (SetPair).                               *)

SetWdr(on, v) == Controlling("wdr") /\ SetPair("wdr", on, v, TRUE)
SetExp(on, v) == Controlling("exp") /\ SetPair("exp", on, v, TRUE)
SetNf(on, v) == Controlling("nf") /\ SetPair("nf", on, v, on = 0)
SetWb(on, v) == Controlling("wb") /\ SetPair("wb", on, v, on = 0)
SetZoneWb(on, v) == Controlling("zone_wb") /\ SetPair("zone_wb", on, v, on = 1)

\* Refused under auto exposure, as the camera reports it at that moment.
SetZoneExp(on, v) ==
  /\ Controlling("zone_exp") /\ "exp" \in using
  /\ \/ \E bad \in Failures({"get_exp"}) :
          /\ bad # {} \/ ctl[<<"exp", "on">>] = 1
          /\ UNCHANGED <<ctl, wish, last, lapse>>
     \/ ctl[<<"exp", "on">>] = 0 /\ SetPair("zone_exp", on, v, TRUE)

\* What the get functions report, as <<mode, value>>: no value in the modes
\* that have none, and no zone under auto exposure.
Get(name) == <<ctl[<<name, "on">>], ctl[<<name, "value">>]>>
GetWdr == Get("wdr")
GetExp == Get("exp")
GetNf == IF ctl[<<"nf", "on">>] = 1 THEN <<1, Unset>> ELSE Get("nf")
GetWb == IF ctl[<<"wb", "on">>] = 1 THEN <<1, Unset>> ELSE Get("wb")
GetZoneWb == IF ctl[<<"zone_wb", "on">>] = 0 THEN <<0, Unset>> ELSE Get("zone_wb")
GetZoneExp == IF ctl[<<"exp", "on">>] = 1 THEN <<Unset, Unset>> ELSE Get("zone_exp")
GetPair(name) ==
  CASE name = "wdr" -> GetWdr [] name = "exp" -> GetExp [] name = "nf" -> GetNf
    [] name = "wb" -> GetWb [] name = "zone_wb" -> GetZoneWb [] name = "zone_exp" -> GetZoneExp

ControlCalls ==
  \E v \in 0 .. 1 :
    \/ \E name \in MuxOnly \cup MuxToo \cup {"brightness"} : SetControl(name, v)
    \/ SetCrop(v) \/ SetPwrLineFreq(v) \/ SetPan(v) \/ SetTilt(v) \/ SetAudioBitrate(v)
    \/ \E w \in 0 .. 1 : \/ SetPantilt(v, w) \/ SetWdr(v, w) \/ SetExp(v, w) \/ SetNf(v, w)
                         \/ SetWb(v, w) \/ SetZoneWb(v, w) \/ SetZoneExp(v, w)

V4l2Init == ChannelInit /\ lib = "v4l2"
V4l2Next == FormatCalls \/ ControlCalls
=============================================================================
