----------------------------- MODULE UsbSettings -----------------------------
(***************************************************************************)
(* Formats, sizes, rates and the pan and tilt in the libusb backend        *)
(* (video/libusb-uvc/uvc.c). The descriptors say which formats there are;  *)
(* the camera learns the current one when a probe is committed, at start.  *)
(* H.264 is taken from a transport stream when the camera has no raw H.264 *)
(* or when its continuity is to be checked: quirk_demuxts.                 *)
(***************************************************************************)
EXTENDS ChannelSettings

\* The format descriptor that set_format finds for a video format; "none" when
\* the camera has none, and at first for H.264 with the continuity check.
Descriptor(f) ==
  LET want == IF f \in TsFormats \/ (f = "H264_RAW" /\ s.continuity) THEN "MPEG" ELSE f IN
  IF want \in Offered \ {"GREY_RAW", "MUX"} THEN want ELSE "none"

\* What comes out of the demultiplexer.
UsbDelivered ==
  IF dev.pix = "MPEG" THEN
    IF s.quirk THEN "H264_RAW" ELSE IF dev.aac THEN "H264_AAC_TS" ELSE "H264_TS"
  ELSE IF s.quirk \/ s.vfmt \in TsFormats THEN "garbage" ELSE dev.pix

\* controls_init: a control that the descriptors do not announce is disabled.
\* The pan and tilt are read from the camera.
UsbControlsInit ==
  {[enabled |-> e, pan |-> 0, tilt |-> 0] : e \in SUBSET (using \cap {"brightness", "goplen"})}

\* mxuvc_video_init: the first format of the descriptors, not started.
UsbChannelInit ==
  \E p \in Offered, check \in BOOLEAN, on \in BOOLEAN, c \in UsbControlsInit :
    /\ s = [vfmt |-> IF p = "MPEG" THEN "H264_TS" ELSE p, desc |-> p, quirk |-> FALSE,
            frame |-> IF p = "MPEG" THEN "none" ELSE p, interval |-> 1,
            started |-> FALSE, aac |-> FALSE, continuity |-> check,
            enabled |-> c.enabled, pan |-> c.pan, tilt |-> c.tilt]
    /\ dev = [pix |-> p, aac |-> on, frame |-> "none", interval |-> 1]
    /\ lapse = IF on THEN {"aac"} ELSE {}
    /\ using # {} => p \in {"MJPEG_RAW", "H264_RAW"} /\ ~check /\ ~on

UsbCall == lib = "libusb-uvc" /\ OnFormats /\ UNCHANGED <<lib, using, ctl, wish>>

\* probe_commit_settings: after it the camera streams what the record says.
Committed(d, t) == [d EXCEPT !.pix = t.desc, !.frame = t.frame, !.interval = t.interval]
ProbeCommit(t, bad) == dev' = IF "commit" \in bad THEN dev ELSE Committed(dev, t)
-----------------------------------------------------------------------------
(* mxuvc_video_set_format: the descriptor is chosen and quirk_demuxts set,  *)
(* the record written, the stream stopped, AAC muxing switched, and the     *)
(* stream started again, which commits the format.                          *)

\* The quirk is set for raw H.264 out of a transport stream, also when none is
\* found, and never cleared.
Chosen(f) ==
  LET d == Descriptor(f)
      ts == f = "H264_RAW" /\ (s.continuity \/ (d = "none" /\ "MPEG" \in Offered)) IN
  [s EXCEPT !.desc = IF d # "none" THEN d ELSE IF ts /\ "MPEG" \in Offered THEN "MPEG" ELSE @,
            !.quirk = @ \/ ts]
Found(f) == Descriptor(f) # "none" \/ (f = "H264_RAW" /\ "MPEG" \in Offered)

UsbLeave(t, ret, bad, why) ==
  s' = t /\ lapse' = why /\ Return("set_format", ret, bad)

\* Restart: start commits the format; it may fail before or after that, and a
\* failed submit leaves the record started. AAC muxing only in a transport stream.
UsbSwitch(t, f, restart, bad) ==
  LET want == f = "H264_AAC_TS"
      switch == t.desc = "MPEG" /\ t.aac # want
      u == [t EXCEPT !.aac = IF switch THEN want ELSE @]
      why == (lapse \ ({"failed", "quirk"} \cup (IF switch THEN {"aac"} ELSE {})))
               \cup (IF t.quirk /\ f # "H264_RAW" THEN {"quirk"} ELSE {})
      cam == [dev EXCEPT !.aac = IF switch THEN want ELSE @] IN
  IF switch /\ "aac" \in bad
    THEN UsbLeave(t, -1, bad, lapse \cup {"failed"}) /\ UNCHANGED dev
  ELSE IF ~restart THEN UsbLeave(u, 0, bad, why) /\ dev' = cam
  ELSE IF "start" \in bad
    THEN UsbLeave(u, -1, bad, why \cup {"failed"}) /\ dev' \in {cam, Committed(cam, u)}
  ELSE /\ UsbLeave([u EXCEPT !.started = TRUE], IF "submit" \in bad THEN -1 ELSE 0, bad, why)
       /\ dev' = Committed(cam, u)

\* find_default_frame tests a frame pointer that it does not reset: with an
\* earlier frame in it, a format without its default frame keeps that one.
UsbSetFormat(f) ==
  /\ UsbCall
  /\ \E bad \in Failures({"frame", "stop", "aac", "start", "submit"}) :
       LET t == [Chosen(f) EXCEPT !.vfmt = f]
           nodefault == t.desc # "MPEG" /\ "frame" \in bad
           u == [t EXCEPT !.frame = IF t.desc = "MPEG" THEN "none"
                                    ELSE IF nodefault THEN @ ELSE t.desc,
                          !.interval = IF nodefault /\ s.frame = "none" THEN 0 ELSE 1]
       IN \/ f = s.vfmt /\ UsbLeave(s, 0, {}, lapse) /\ UNCHANGED dev
          \/ /\ f # s.vfmt /\ ~Found(f)
             /\ UsbLeave(Chosen(f), -1, {}, lapse \cup {"failed"}) /\ UNCHANGED dev
          \/ /\ f # s.vfmt /\ Found(f) /\ nodefault /\ s.frame = "none"
             /\ UsbLeave(u, -1, bad, lapse \cup {"failed"}) /\ UNCHANGED dev
          \/ /\ f # s.vfmt /\ Found(f) /\ ~(nodefault /\ s.frame = "none")
             /\ IF s.started /\ "stop" \in bad
                  THEN /\ UsbLeave([u EXCEPT !.started = FALSE], -1, bad, lapse \cup {"failed"})
                       /\ UNCHANGED dev
                ELSE UsbSwitch([u EXCEPT !.started = FALSE], f, s.started, bad)

UsbGetFormat == s.vfmt

\* start probes and commits before it allocates and submits. A submit that fails
\* comes after the record was marked as started, and leaves it so.
UsbStart ==
  /\ UsbCall /\ ~s.started
  /\ \E bad \in Failures({"commit", "start", "submit"}) :
       /\ ProbeCommit(s, bad)
       /\ s' = [s EXCEPT !.started = {"commit", "start"} \cap bad = {}]
       /\ Return("start", IF bad = {} THEN 0 ELSE -1, bad)
  /\ UNCHANGED lapse

UsbStop ==
  /\ UsbCall /\ s.started
  /\ s' = [s EXCEPT !.started = FALSE] /\ Return("stop", 0, {})
  /\ UNCHANGED <<dev, lapse>>
-----------------------------------------------------------------------------
(* Sizes and rates: H.264 has a control for the size, the other formats a   *)
(* frame descriptor; both are committed while the stream runs.              *)

UsbSetResolution ==
  /\ UsbCall
  /\ \E bad \in Failures({"size", "commit"}) :
       LET t == [s EXCEPT !.frame = s.desc, !.interval = 1] IN
       \/ /\ s.vfmt \in H264Formats
          /\ Return("set_resolution", IF "size" \in bad THEN -1 ELSE 0, bad)
          /\ UNCHANGED <<s, dev>>
       \/ /\ s.vfmt \notin H264Formats /\ "size" \in bad       \* no such frame
          /\ Return("set_resolution", -1, bad) /\ UNCHANGED <<s, dev>>
       \/ /\ s.vfmt \notin H264Formats /\ "size" \notin bad
          /\ s' = t /\ ProbeCommit(t, bad)
          /\ Return("set_resolution", IF bad = {} THEN 0 ELSE -1, bad)
  /\ UNCHANGED lapse

\* A rate that the frame does not have becomes one that it has, but a transport
\* stream takes any. fps 0 is refused; without a frame the code has none to read.
UsbSetFramerate(fps) ==
  /\ UsbCall
  /\ \E bad \in Failures({"commit"}) :
       LET any == s.vfmt \in TsFormats \/ s.quirk
           t == [s EXCEPT !.interval = IF any THEN fps ELSE 1] IN
       /\ fps # 0 /\ (any \/ s.frame # "none")
       /\ s' = t /\ ProbeCommit(t, bad)
  /\ UNCHANGED <<last, lapse>>

UsbFormatCalls ==
  \/ \E f \in Formats : UsbSetFormat(f)
  \/ UsbStart \/ UsbStop \/ UsbSetResolution
  \/ UsbSetFramerate(1)
-----------------------------------------------------------------------------
(* Controls. Pan and tilt are one control: a call that moves one of them    *)
(* takes the other from a cache, which init reads, whether or not it can,   *)
(* and a successful call writes.                                            *)

UsbControl(name) ==
  lib = "libusb-uvc" /\ name \in using /\ UNCHANGED <<lib, using, dev>>

\* Mutant: the cache is not written.
UsbSetPantiltUncached(name, p, t) ==
  /\ UsbControl("pan") /\ UsbControl("tilt")
  /\ ctl' = Write(Write(ctl, "pan", p, "value"), "tilt", t, "value")
  /\ UNCHANGED <<s, last, lapse>>
  /\ wish' = [i \in ControlIds |->
       IF i[1] \notin {"pan", "tilt"} \/ (name # "pantilt" /\ i[1] # name) THEN wish[i]
       ELSE IF i[1] = "pan" THEN p ELSE t]

UsbSetPantilt(name, p, t) ==
  /\ UsbControl("pan") /\ UsbControl("tilt")
  /\ \E bad \in Failures({"pantilt"}) :
       LET ret == IF bad = {} THEN 0 ELSE -1
           value(i) == IF i = "pan" THEN p ELSE t IN
       /\ ctl' = IF bad = {} THEN Write(Write(ctl, "pan", p, "value"), "tilt", t, "value") ELSE ctl
       /\ s' = IF bad = {} THEN [s EXCEPT !.pan = p, !.tilt = t] ELSE s
       /\ UNCHANGED last /\ UNCHANGED lapse
       /\ wish' = [i \in ControlIds |->
            IF i[1] \notin {"pan", "tilt"} \/ (name # "pantilt" /\ i[1] # name) THEN wish[i]
            ELSE IF ret = 0 THEN value(i[1]) ELSE Unset]
UsbSetPan(p) == UsbSetPantilt("pan", p, s.tilt)
UsbSetTilt(t) == UsbSetPantilt("tilt", s.pan, t)
UsbGetPantilt == <<ctl[<<"pan", "value">>], ctl[<<"tilt", "value">>]>>

UsbSetWdr(on, v) == UsbControl("wdr") /\ SetPair("wdr", on, v, TRUE) /\ UNCHANGED s
UsbGetWdr == <<ctl[<<"wdr", "on">>], ctl[<<"wdr", "value">>]>>

\* DECLARE_STANDARD: the value must be in the range that the camera reported,
\* here 0 .. 1. DECLARE_EXT: any value, but only in an H.264 format. Both refuse
\* a control that is disabled.
UsbSetOne(name, v, allowed) ==
  /\ UsbControl(name) /\ UNCHANGED <<s, lapse>>
  /\ \E bad \in Failures({"set_ctrl"}) :
       LET ok == allowed /\ name \in s.enabled /\ bad = {} IN
       /\ ctl' = IF ok THEN Write(ctl, name, v, "value") ELSE ctl
       /\ UNCHANGED last
       /\ Wished(IF ok THEN 0 ELSE -1, name, [value |-> v])
\* Mutant: the range of the control is not looked at.
UsbSetStandardAny(v) == UsbSetOne("brightness", v, TRUE)

UsbSetStandard(v) == UsbSetOne("brightness", v, v \in 0 .. 1)
UsbSetExt(v) == UsbSetOne("goplen", v, s.vfmt \in H264Formats)
UsbGetStandard == IF "brightness" \in s.enabled THEN ctl[<<"brightness", "value">>] ELSE Unset
UsbGetExt ==
  IF "goplen" \in s.enabled /\ s.vfmt \in H264Formats THEN ctl[<<"goplen", "value">>] ELSE Unset

UsbControlCalls ==
  \E v \in 0 .. 1 :
    \/ UsbSetPan(v) \/ UsbSetTilt(v) \/ UsbSetExt(v) \/ UsbSetStandard(2 * v)
    \/ \E w \in 0 .. 1 : UsbSetPantilt("pantilt", v, w) \/ UsbSetWdr(v, w)

UsbInit == UsbChannelInit /\ lib = "libusb-uvc"
UsbNext == UsbFormatCalls \/ UsbControlCalls
=============================================================================
