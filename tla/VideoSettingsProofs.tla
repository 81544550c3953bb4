------------------------ MODULE VideoSettingsProofs ------------------------
(***************************************************************************)
(* Proofs about VideoSettings, for every set of formats that a camera may  *)
(* offer, for every channel and set of controls, under both backends, and  *)
(* however many requests of a call fail.                                   *)
(***************************************************************************)
EXTENDS VideoSettings, TLAPS

(***************************************************************************)
(* Types *)
(***************************************************************************)

Pixels == Offered \cup {Fourcc(f) : f \in AllFormats}

\* The camera, as it is under either backend.
V4l2Camera ==
  [pix : Pixels, size : {"small", "hd"}, aac : BOOLEAN, secs : SecsFormats \cup {"none"},
   secsSize : Sizes, rate : 0 .. 1, bitrate : 0 .. 1]
UsbCamera ==
  [pix : Offered, aac : BOOLEAN, frame : Offered \cup {"none"}, interval : 0 .. 1]

LastOK == last.ret \in {0, -1} /\ last.failed \subseteq {"stop", "start", "aac"}

TypesOK ==
  /\ lib \in {"v4l2", "libusb-uvc"}
  /\ s \in IF lib = "v4l2" THEN V4l2Record ELSE UsbRecord
  /\ dev \in IF lib = "v4l2" THEN V4l2Camera ELSE UsbCamera
  /\ ctl \in [ControlIds -> 0 .. 1]
  /\ wish \in [ControlIds -> {0, 1, Unset}]
  /\ LastOK

(***************************************************************************)
(* The format. The invariant adds what the calls rely on from one to the   *)
(* next: that AAC muxing is as the record says once it was switched, that  *)
(* SECS is on only on a channel that has it, and that the pixel format of  *)
(* the record, which set_resolution sends, is the camera's.                *)
(***************************************************************************)

AacKnown == "aac" \notin lapse => s.aac = dev.aac

ProbeAgrees == s.size = dev.secsSize /\ s.rate = dev.rate /\ s.bitrate = dev.bitrate

V4l2Inv ==
  /\ s.secsOn => s.secs
  /\ s.secs => ~s.ipcam
  /\ dev.secs # "none" => s.secsOn
  /\ AacKnown
  /\ lapse = {} /\ OnFormats /\ ~IsMux =>
       /\ Delivered(dev) = s.vfmt
       /\ s.secsOn \/ (s.pix = dev.pix /\ dev.pix \in Offered)
       /\ s.secsOn /\ dev.secs # "none" => ProbeAgrees

RecordAgrees ==
  IF s.desc # "MPEG" THEN ~s.quirk /\ s.vfmt = s.desc
  ELSE s.vfmt = IF s.quirk THEN "H264_RAW" ELSE IF s.aac THEN "H264_AAC_TS" ELSE "H264_TS"

UsbInv ==
  /\ s.quirk => s.continuity \/ "H264_RAW" \notin Offered
  /\ AacKnown
  /\ lapse = {} /\ OnFormats => RecordAgrees /\ (s.started => dev.pix = s.desc)

FormatInv == IF lib = "v4l2" THEN V4l2Inv ELSE UsbInv

\* What StreamingKept says of a step.
KeptStep ==
  s.started /\ ~s'.started /\ last'.call # "stop" =>
    /\ last'.failed \cap (IF lib = "v4l2" THEN {"stop", "start"} ELSE {"stop", "start", "aac"}) # {}
    /\ last'.ret = -1 \/ last'.call = "set_resolution"

(***************************************************************************)
(* Lemmas about formats and pixel formats                                  *)
(***************************************************************************)

\* The driver always ends with a format that it has.
LEMMA DrivenOffered == ASSUME NEW p PROVE Driven(p) \in Offered /\ (p \in Offered => Driven(p) = p)
  BY SettingsAssumption DEF SettingsAssumption, Driven

\* A pixel format names one video format, but for the two transport streams.
LEMMA FormatsOfPixels ==
  /\ \A p \in Offered : VidFormat(p) \in AllFormats /\ Fourcc(VidFormat(p)) = p
  /\ \A f \in AllFormats : Fourcc(f) \in Pixels /\ (Fourcc(f) = "MPEG" <=> f \in TsFormats)
                           /\ (f \notin TsFormats => Fourcc(f) = f)
<1>1. ASSUME NEW p \in Offered PROVE VidFormat(p) \in AllFormats /\ Fourcc(VidFormat(p)) = p
  BY SettingsAssumption DEF SettingsAssumption, VidFormat, Fourcc, AllFormats, TsFormats
<1>2. ASSUME NEW f \in AllFormats
      PROVE  Fourcc(f) \in Pixels /\ (Fourcc(f) = "MPEG" <=> f \in TsFormats)
             /\ (f \notin TsFormats => Fourcc(f) = f)
  BY DEF Pixels, Fourcc, AllFormats, TsFormats
<1> QED
  BY <1>1, <1>2

\* A format of the application has a name, and is not the mux itself.
LEMMA FormatsKnown == ASSUME NEW f \in Formats PROVE f \in AllFormats /\ f # "MUX"
  BY SettingsAssumption DEF SettingsAssumption

\* A SECS type is the video format it wraps.
LEMMA SecsTypes ==
  ASSUME NEW f PROVE /\ SecsType(f) \in SecsFormats \cup {"none"}
                     /\ SecsType(f) # "none" => SecsType(f) = f
  BY DEF SecsType

(***************************************************************************)
(* set_format of the v4l2 backend                                          *)
(***************************************************************************)

\* The record is t, but for the format, AAC muxing and whether it is started.
Keeps(t) ==
  /\ s'.pix = t.pix /\ s'.big = t.big /\ s'.ipcam = t.ipcam /\ s'.secs = t.secs
  /\ s'.secsOn = t.secsOn /\ s'.size = t.size /\ s'.rate = t.rate /\ s'.bitrate = t.bitrate

\* How a set_format that stopped the stream, or not, leaves it.
Restarts(t, halted, bad) ==
  /\ s'.started = IF halted THEN "start" \notin bad ELSE t.started
  /\ last'.failed = bad \cap {"stop", "start", "aac"} /\ LastOK'
  /\ halted /\ "start" \in bad => last'.ret = -1

\* How set_format leaves a record, with the stream started again or not.
LEMMA LeaveResult ==
  ASSUME NEW t \in V4l2Record, NEW d, NEW halted \in BOOLEAN, NEW ret \in {0, -1}, NEW bad, NEW why,
         Leave(t, d, halted, ret, bad, why)
  PROVE  /\ s' \in V4l2Record /\ Keeps(t) /\ s'.vfmt = t.vfmt /\ s'.aac = t.aac
         /\ dev' = d /\ lapse' = why
         /\ Restarts(t, halted, bad)
<1>1. s' = [t EXCEPT !.started = IF halted THEN "start" \notin bad ELSE @]
  BY DEF Leave
<1>2. s' \in V4l2Record /\ Keeps(t) /\ s'.vfmt = t.vfmt /\ s'.aac = t.aac
      /\ s'.started = IF halted THEN "start" \notin bad ELSE t.started
  BY <1>1 DEF V4l2Record, Keeps
<1> QED
  BY <1>2 DEF Leave, Return, Restarts, LastOK

\* The end of set_format. AAC muxing is switched, or needs no switching, or
\* fails; only a transport stream has it.
LEMMA SetAacResult ==
  ASSUME NEW t \in V4l2Record, NEW d \in V4l2Camera, NEW f \in AllFormats, NEW halted \in BOOLEAN,
         NEW bad, NEW why, SetAac(t, d, f, halted, bad, why)
  PROVE  /\ s' \in V4l2Record /\ dev' \in V4l2Camera
         /\ Keeps(t) /\ s'.vfmt = f
         /\ Restarts(t, halted, bad)
         /\ \/ lapse' = lapse \cup {"failed"} /\ s'.aac = t.aac /\ dev' = d
            \/ /\ lapse' = why /\ s'.aac = t.aac /\ dev' = d
               /\ t.pix = "MPEG" => t.aac = (f = "H264_AAC_TS")
            \/ /\ lapse' = why \ {"aac"} /\ s'.aac = (f = "H264_AAC_TS")
               /\ dev' = [d EXCEPT !.aac = (f = "H264_AAC_TS")] /\ t.pix = "MPEG"
<1> DEFINE want == f = "H264_AAC_TS"
           u == [t EXCEPT !.vfmt = f]
           v == [u EXCEPT !.aac = want]
           e == [d EXCEPT !.aac = want]
<1>1. u \in V4l2Record /\ (Keeps(u) => Keeps(t)) /\ u.vfmt = f /\ u.aac = t.aac /\ u.started = t.started
  BY DEF V4l2Record, Keeps
<1>2. v \in V4l2Record /\ (Keeps(v) => Keeps(t)) /\ v.vfmt = f /\ v.aac = want /\ v.started = t.started
  BY <1>1 DEF V4l2Record, Keeps
<1>3. e \in V4l2Camera
  BY DEF V4l2Camera
<1>4. CASE ~(t.pix = "MPEG" /\ t.aac # want)
  <2>1. Leave(u, d, halted, 0, bad, why)
    BY <1>4 DEF SetAac
  <2>2. t.pix = "MPEG" => t.aac = want
    BY <1>4
  <2>3. /\ s' \in V4l2Record /\ Keeps(u) /\ s'.vfmt = u.vfmt /\ s'.aac = u.aac
        /\ dev' = d /\ lapse' = why /\ Restarts(u, halted, bad)
    BY <1>1, <2>1, LeaveResult
  <2> QED
    BY <1>1, <2>2, <2>3 DEF Restarts
<1>5. CASE (t.pix = "MPEG" /\ t.aac # want) /\ "aac" \in bad
  <2>1. Leave(u, d, halted, -1, bad, lapse \cup {"failed"})
    BY <1>5 DEF SetAac, Abandon
  <2>2. /\ s' \in V4l2Record /\ Keeps(u) /\ s'.vfmt = u.vfmt /\ s'.aac = u.aac
        /\ dev' = d /\ lapse' = lapse \cup {"failed"} /\ Restarts(u, halted, bad)
    BY <1>1, <2>1, LeaveResult
  <2> QED
    BY <1>1, <2>2 DEF Restarts
<1>6. CASE (t.pix = "MPEG" /\ t.aac # want) /\ "aac" \notin bad
  <2>1. Leave(v, e, halted, 0, bad, why \ {"aac"})
    BY <1>6 DEF SetAac
  <2> HIDE DEF u, v, e, want
  <2>2. /\ s' \in V4l2Record /\ Keeps(v) /\ s'.vfmt = v.vfmt /\ s'.aac = v.aac
        /\ dev' = e /\ lapse' = why \ {"aac"} /\ Restarts(v, halted, bad)
    BY <1>2, <2>1, LeaveResult
  <2> QED
    BY <1>2, <1>3, <1>6, <2>2 DEF Restarts, want, e
<1> QED
  BY <1>4, <1>5, <1>6

\* What the driver does to a camera.
LEMMA DriverSetCamera ==
  ASSUME NEW d \in V4l2Camera, NEW p, NEW sz \in {"small", "hd"}
  PROVE  LET e == DriverSet(d, p, sz) IN
         e \in V4l2Camera /\ e.pix = Driven(p) /\ e.pix \in Offered /\ e.secs = "none" /\ e.aac = d.aac
         /\ e.size = sz
<1>1. Driven(p) \in Offered /\ Driven(p) \in Pixels
  BY DrivenOffered DEF Pixels
<1> QED
  BY <1>1 DEF DriverSet, V4l2Camera, SecsFormats

\* After an H.264 commit the camera has the size and rates of the record.
LEMMA SecsSetCamera ==
  ASSUME NEW d \in V4l2Camera, NEW t \in SecsFormats \cup {"none"}, NEW v \in V4l2Record
  PROVE  LET e == SecsSet(d, t, v) IN
         /\ e \in V4l2Camera /\ e.pix = d.pix /\ e.aac = d.aac
         /\ e.secsSize = v.size /\ e.rate = v.rate /\ e.bitrate = v.bitrate
         /\ t # "none" => e.secs = t
  BY DEF SecsSet, V4l2Camera, V4l2Record, SecsFormats

\* A probe takes sizes and rates from the camera and leaves the rest.
LEMMA ProbedRecord ==
  ASSUME NEW v \in V4l2Record, NEW bad
  PROVE  LET u == Probed(v, bad) IN
         /\ u \in V4l2Record /\ u.vfmt = v.vfmt /\ u.pix = v.pix /\ u.started = v.started
         /\ u.aac = v.aac /\ u.ipcam = v.ipcam /\ u.secs = v.secs /\ u.secsOn = v.secsOn
         /\ u.big = v.big
<1>1. CASE "answer" \in bad
  BY <1>1 DEF Probed
<1>2. CASE "answer" \notin bad
  <2> DEFINE a == IF v.size = "zero" THEN "hd" ELSE v.size
             b == IF v.rate = 0 THEN 1 ELSE v.rate
             c == IF v.bitrate = 0 THEN 1 ELSE v.bitrate
  <2>1. Probed(v, bad) = [v EXCEPT !.size = a, !.rate = b, !.bitrate = c]
    BY <1>2 DEF Probed
  <2>2. a \in Sizes /\ b \in 0 .. 1 /\ c \in 0 .. 1
    BY DEF V4l2Record, Sizes
  <2> HIDE DEF a, b, c
  <2> QED
    BY <2>1, <2>2 DEF V4l2Record
<1> QED
  BY <1>1, <1>2

\* What a call of the v4l2 backend about the format has to keep.
V4l2Before ==
  s \in V4l2Record /\ dev \in V4l2Camera /\ LastOK /\ V4l2Inv /\ lib = "v4l2" /\ OnFormats
V4l2After == s' \in V4l2Record /\ dev' \in V4l2Camera /\ LastOK' /\ V4l2Inv' /\ KeptStep

\* A call that fails half way marks the lapse.
LEMMA FailedKeeps ==
  ASSUME V4l2Before, s' \in V4l2Record, dev' \in V4l2Camera, LastOK', UNCHANGED <<lib, using>>,
         s'.secs = s.secs, s'.ipcam = s.ipcam, s'.secsOn => s'.secs, dev'.secs # "none" => s'.secsOn,
         lapse' = lapse \cup {"failed"}, s'.aac = s.aac, dev'.aac = dev.aac, KeptStep
  PROVE  V4l2After
  BY DEF V4l2Before, V4l2After, V4l2Inv, AacKnown

\* A call that starts a stopped stream again, or says that it failed, keeps it.
LEMMA RestartKeeps ==
  ASSUME NEW t, NEW bad, NEW halted \in BOOLEAN, Restarts(t, halted, bad), lib = "v4l2",
         ~halted => (t.started \/ ~s.started)
  PROVE  KeptStep
<1> SUFFICES ASSUME s.started, ~s'.started
             PROVE  /\ last'.failed \cap {"stop", "start"} # {}
                    /\ last'.ret = -1
  BY DEF KeptStep
<1>1. halted /\ "start" \in bad
  BY DEF Restarts
<1>2. "start" \in last'.failed /\ last'.ret = -1
  BY <1>1 DEF Restarts
<1> QED
  BY <1>2

\* The two ways in which set_format gives up: without and with a start.
LEMMA StopFailsKeeps ==
  ASSUME V4l2Before, NEW t \in V4l2Record, NEW d \in V4l2Camera, NEW bad, UNCHANGED <<lib, using>>,
         t.secs = s.secs, t.ipcam = s.ipcam, t.secsOn = s.secsOn, t.aac = s.aac, d.aac = dev.aac,
         d.secs \in {"none", dev.secs},
         "stop" \in bad, StopFails(t, d, bad)
  PROVE  V4l2After
<1> DEFINE x == [t EXCEPT !.started = FALSE]
<1>1. x \in V4l2Record /\ x.aac = s.aac /\ x.secs = s.secs /\ x.secsOn = s.secsOn /\ x.ipcam = s.ipcam
  BY DEF V4l2Record
<1>2. Leave(x, d, FALSE, -1, bad, lapse \cup {"failed"})
  BY DEF StopFails
<1> HIDE DEF x
<1>3. /\ s' \in V4l2Record /\ Keeps(x) /\ s'.aac = x.aac /\ dev' = d
      /\ lapse' = lapse \cup {"failed"} /\ Restarts(x, FALSE, bad)
  BY <1>1, <1>2, LeaveResult
<1>4. last'.ret = -1 /\ "stop" \in last'.failed
  BY <1>2, <1>3 DEF Leave, Return, Restarts
<1>5. KeptStep
  BY <1>4 DEF KeptStep
<1> QED
  BY <1>1, <1>3, <1>5, FailedKeeps DEF Keeps, Restarts, V4l2Before, V4l2Inv

\* A set_format that fails half way leaves a lapse, and no worse.
LEMMA AbandonKeeps ==
  ASSUME V4l2Before, NEW t \in V4l2Record, NEW d \in V4l2Camera, NEW halted \in BOOLEAN, NEW bad,
         UNCHANGED <<lib, using>>, t.started = s.started,
         t.secs = s.secs, t.ipcam = s.ipcam, t.secsOn = s.secsOn, t.aac = s.aac, d.aac = dev.aac,
         d.secs \in {"none", dev.secs},
         Abandon(t, d, halted, bad)
  PROVE  V4l2After
<1>1. Leave(t, d, halted, -1, bad, lapse \cup {"failed"})
  BY DEF Abandon
<1>2. /\ s' \in V4l2Record /\ Keeps(t) /\ s'.aac = t.aac /\ dev' = d
      /\ lapse' = lapse \cup {"failed"} /\ Restarts(t, halted, bad)
  BY <1>1, LeaveResult
<1>3. KeptStep
  BY <1>2, RestartKeeps DEF V4l2Before
<1> QED
  BY <1>2, <1>3, FailedKeeps DEF Keeps, Restarts, V4l2Before, V4l2Inv

\* set_format without SECS.
LEMMA PlainFormat ==
  ASSUME V4l2Before, NEW f \in Formats, NEW bad, PlainSetFormat(f, bad), UNCHANGED <<lib, using>>
  PROVE  V4l2After
<1> DEFINE t == [s EXCEPT !.pix = Fourcc(f)]
           d == DriverSet(dev, t.pix, IF s.big THEN "hd" ELSE "small")
           why == (lapse \ {"failed", "type", "adjusted"})
                    \cup (IF d.pix = t.pix THEN {} ELSE {"adjusted"})
           y == [t EXCEPT !.pix = d.pix]
<1> f \in AllFormats /\ Fourcc(f) \in Pixels /\ s.started \in BOOLEAN /\ s \in V4l2Record
    /\ dev \in V4l2Camera /\ lib = "v4l2"
  BY FormatsKnown, FormatsOfPixels DEF V4l2Before, V4l2Record
<1>1. t \in V4l2Record /\ t.pix = Fourcc(f) /\ t.aac = s.aac /\ t.secs = s.secs /\ t.secsOn = s.secsOn
      /\ t.ipcam = s.ipcam /\ t.started = s.started
  BY DEF V4l2Record, Pixels
<1>2. /\ d \in V4l2Camera /\ d.pix = Driven(Fourcc(f)) /\ d.pix \in Offered
      /\ d.secs = "none" /\ d.aac = dev.aac
  BY <1>1, DriverSetCamera
<1> HIDE DEF d
<1>3. y \in V4l2Record /\ y.aac = s.aac /\ y.secs = s.secs /\ y.secsOn = s.secsOn /\ y.ipcam = s.ipcam
      /\ y.started = s.started /\ y.pix = d.pix
  BY <1>1, <1>2 DEF V4l2Record, Pixels
<1>4. CASE IsMux /\ Return("set_format", -1, bad) /\ UNCHANGED <<s, dev, lapse>>
  BY <1>4 DEF V4l2Before, V4l2After, V4l2Inv, AacKnown, OnFormats, IsMux, KeptStep, Return, LastOK
<1>5. CASE s.started /\ "stop" \in bad /\ StopFails(t, dev, bad)
  BY <1>1, <1>5, StopFailsKeeps
<1>6. CASE Abandon(t, dev, s.started, bad)
  BY <1>1, <1>6, AbandonKeeps
<1>7. CASE SetAac(y, d, f, s.started, bad, why)
  <2> HIDE DEF y
  <2>1. /\ s' \in V4l2Record /\ dev' \in V4l2Camera
        /\ Keeps(y) /\ s'.vfmt = f
        /\ Restarts(y, s.started, bad)
        /\ \/ lapse' = lapse \cup {"failed"} /\ s'.aac = y.aac /\ dev' = d
           \/ /\ lapse' = why /\ s'.aac = y.aac /\ dev' = d
              /\ y.pix = "MPEG" => y.aac = (f = "H264_AAC_TS")
           \/ /\ lapse' = why \ {"aac"} /\ s'.aac = (f = "H264_AAC_TS")
              /\ dev' = [d EXCEPT !.aac = (f = "H264_AAC_TS")] /\ y.pix = "MPEG"
    BY <1>2, <1>3, <1>7, SetAacResult
  <2>2. KeptStep
    BY <1>3, <2>1, RestartKeeps
  <2>3. dev'.pix = d.pix /\ dev'.secs = "none" /\ s'.pix = d.pix
        /\ s'.secsOn = s.secsOn /\ s'.secs = s.secs /\ s'.ipcam = s.ipcam
    BY <1>2, <1>3, <2>1 DEF V4l2Camera, Keeps
  <2>4. AacKnown'
    <3>1. CASE lapse' = why \ {"aac"} /\ s'.aac = (f = "H264_AAC_TS")
               /\ dev' = [d EXCEPT !.aac = (f = "H264_AAC_TS")]
      BY <1>2, <3>1 DEF V4l2Camera, AacKnown
    <3>2. CASE lapse' \in {lapse \cup {"failed"}, why} /\ s'.aac = s.aac /\ dev' = d
      BY <1>2, <3>2 DEF AacKnown, V4l2Before, V4l2Inv
    <3> QED
      BY <1>3, <2>1, <3>1, <3>2
  <2>5. ASSUME lapse' = {} PROVE Delivered(dev') = f
    <3>1. d.pix = Fourcc(f)
      BY <1>1, <2>1, <2>5
    <3>2. CASE f \notin TsFormats
      BY <2>3, <3>1, <3>2, FormatsOfPixels DEF Delivered
    <3>3. CASE f \in TsFormats
      <4>1. dev'.pix = "MPEG"
        BY <2>3, <3>1, <3>3, FormatsOfPixels
      <4>2. dev'.aac = s'.aac
        BY <2>4, <2>5 DEF AacKnown
      <4>3. s'.aac = (f = "H264_AAC_TS")
        BY <1>3, <2>1, <2>3, <2>5, <4>1
      <4> QED
        BY <2>3, <3>3, <4>1, <4>2, <4>3 DEF Delivered, TsFormats
    <3> QED
      BY <3>2, <3>3
  <2> QED
    BY <1>2, <2>1, <2>2, <2>3, <2>4, <2>5
    DEF V4l2Before, V4l2After, V4l2Inv, OnFormats, Restarts
<1> QED
  BY <1>4, <1>5, <1>6, <1>7 DEF PlainSetFormat, d

\* set_format through SECS, which commits the format inside 720p MJPEG.
LEMMA SecsFormat ==
  ASSUME V4l2Before, NEW f \in Formats, NEW bad, s.secs, SecsType(f) # "none", SecsSetFormat(f, bad),
         UNCHANGED <<lib, using>>
  PROVE  V4l2After
<1> DEFINE near == s.pix = "MJPEG_RAW" /\ s.big
           t == IF near THEN s ELSE [s EXCEPT !.pix = "MJPEG_RAW", !.big = TRUE]
           early == ~near /\ s.started
           d == IF near \/ "S_FMT" \in bad THEN dev ELSE DriverSet(dev, "MJPEG_RAW", "hd")
           v == [t EXCEPT !.secsOn = TRUE]
           u == Probed(v, bad)
           e == SecsSet(d, SecsType(f), u)
           why == lapse \ {"failed", "adjusted", "type"}
<1> s.started \in BOOLEAN /\ early \in BOOLEAN /\ s \in V4l2Record /\ dev \in V4l2Camera /\ lib = "v4l2"
  BY DEF V4l2Before, V4l2Record
<1>1. /\ t \in V4l2Record /\ t.pix = "MJPEG_RAW" /\ t.started = s.started
      /\ t.secs = s.secs /\ t.ipcam = s.ipcam /\ t.secsOn = s.secsOn /\ t.aac = s.aac
  <2>1. CASE near
    BY <2>1
  <2>2. CASE ~near
    <3>1. t = [s EXCEPT !.pix = "MJPEG_RAW", !.big = TRUE] /\ "MJPEG_RAW" \in Pixels
      BY <2>2, SettingsAssumption DEF SettingsAssumption, Pixels
    <3> QED
      BY <3>1 DEF V4l2Record, Pixels
  <2> QED
    BY <2>1, <2>2
<1>2. d \in V4l2Camera /\ d.aac = dev.aac /\ d.secs \in {"none", dev.secs}
  BY DriverSetCamera
<1> HIDE DEF t, d
<1>3. /\ v \in V4l2Record /\ v.pix = "MJPEG_RAW" /\ v.started = s.started
      /\ v.secs = s.secs /\ v.ipcam = s.ipcam /\ v.secsOn = TRUE /\ v.aac = s.aac
  BY <1>1 DEF V4l2Record
<1> HIDE DEF v
<1>4. /\ u \in V4l2Record /\ u.pix = "MJPEG_RAW" /\ u.started = s.started
      /\ u.secs = s.secs /\ u.ipcam = s.ipcam /\ u.secsOn = TRUE /\ u.aac = s.aac
  BY <1>3, ProbedRecord
<1> HIDE DEF u
<1>5. /\ e \in V4l2Camera /\ e.aac = dev.aac /\ e.secs = f
      /\ e.secsSize = u.size /\ e.rate = u.rate /\ e.bitrate = u.bitrate
  BY <1>2, <1>4, SecsTypes, SecsSetCamera
<1> HIDE DEF e
<1>6. CASE "stop" \in bad /\ (StopFails(t, dev, bad) \/ StopFails(t, d, bad))
  BY <1>1, <1>2, <1>6, StopFailsKeeps
<1>7. CASE Abandon(t, d, early, bad) \/ Abandon(t, d, s.started, bad)
  <2> HIDE DEF early
  <2> QED
    BY <1>1, <1>2, <1>7, AbandonKeeps
<1>8. CASE SetAac(u, e, f, s.started, bad, why)
  <2>0. f \in AllFormats /\ f # "none"
    BY FormatsKnown, SecsTypes
  <2>1. /\ s' \in V4l2Record /\ dev' \in V4l2Camera
        /\ Keeps(u) /\ s'.vfmt = f
        /\ Restarts(u, s.started, bad)
        /\ s'.aac = u.aac /\ dev' = e
        /\ lapse' \in {lapse \cup {"failed"}, why}
    BY <1>4, <1>5, <1>8, <2>0, SetAacResult
  <2>2. KeptStep
    BY <1>4, <2>1, RestartKeeps
  <2>3. AacKnown'
    BY <1>4, <1>5, <2>1 DEF AacKnown, V4l2Before, V4l2Inv
  <2>4. Delivered(dev') = f /\ ProbeAgrees'
    BY <1>5, <2>0, <2>1 DEF Delivered, Keeps, ProbeAgrees
  <2> QED
    BY <1>4, <2>1, <2>2, <2>3, <2>4 DEF V4l2Before, V4l2After, V4l2Inv, OnFormats, Restarts, Keeps
<1> QED
  BY <1>6, <1>7, <1>8 DEF SecsSetFormat, t, d, v, u, e

\* A call that leaves format, camera and lapses alone.
LEMMA UnmovedKeeps ==
  ASSUME V4l2Before, UNCHANGED <<lib, using, s, dev, lapse>>, LastOK'
  PROVE  V4l2After
  BY DEF V4l2Before, V4l2After, V4l2Inv, AacKnown, OnFormats, IsMux, KeptStep, ProbeAgrees

\* set_format on each of its paths.
LEMMA V4l2SetFormat ==
  ASSUME V4l2Before, NEW f \in Formats, SetFormat(f) PROVE V4l2After
<1>0. UNCHANGED <<lib, using>>
  BY DEF SetFormat
<1>1. CASE f = s.vfmt /\ Return("set_format", 0, {}) /\ UNCHANGED <<s, dev, lapse>>
  BY <1>0, <1>1, UnmovedKeeps DEF Return, LastOK
<1>2. CASE \E bad : PlainSetFormat(f, bad)
  BY <1>0, <1>2, PlainFormat
<1>3. CASE s.secs /\ SecsType(f) # "none" /\ \E bad : SecsSetFormat(f, bad)
  BY <1>0, <1>3, SecsFormat
<1> QED
  BY <1>1, <1>2, <1>3 DEF SetFormat

(***************************************************************************)
(* The other calls about the format in the v4l2 backend                    *)
(***************************************************************************)

\* Calls that leave the format, in the record and in the camera.
LEMMA MinorKeeps ==
  ASSUME V4l2Before, s' \in V4l2Record, dev' \in V4l2Camera, LastOK', UNCHANGED <<lib, using, lapse>>,
         s'.vfmt = s.vfmt, s'.pix = s.pix, s'.aac = s.aac,
         s'.ipcam = s.ipcam, s'.secs = s.secs, s'.secsOn = s.secsOn,
         dev'.pix = dev.pix, dev'.aac = dev.aac, dev'.secs = dev.secs,
         s.secsOn /\ ProbeAgrees => ProbeAgrees', KeptStep
  PROVE  V4l2After
<1>1. Delivered(dev') = Delivered(dev)
  BY DEF Delivered
<1> QED
  BY <1>1 DEF V4l2Before, V4l2After, V4l2Inv, AacKnown, OnFormats, IsMux

\* start and stop change nothing but the flag.
LEMMA V4l2StartStop ==
  ASSUME V4l2Before, StartStream \/ StopStream PROVE V4l2After
<1>1. PICK b \in BOOLEAN : s' = [s EXCEPT !.started = b]
  BY DEF StartStream, StopStream
<1>2. /\ s' \in V4l2Record
      /\ s'.vfmt = s.vfmt /\ s'.pix = s.pix /\ s'.aac = s.aac
      /\ s'.ipcam = s.ipcam /\ s'.secs = s.secs /\ s'.secsOn = s.secsOn
      /\ s'.size = s.size /\ s'.rate = s.rate /\ s'.bitrate = s.bitrate
  BY <1>1 DEF V4l2Before, V4l2Record
<1>3. UNCHANGED <<lib, using, lapse, dev>> /\ LastOK' /\ (s.started => last'.call = "stop")
  BY DEF StartStream, StopStream, Return, LastOK
<1> QED
  BY <1>2, <1>3, MinorKeeps DEF V4l2Before, ProbeAgrees, KeptStep

\* set_resolution through SECS.
LEMMA SecsSize ==
  ASSUME V4l2Before, NEW sz \in {"small", "hd"}, NEW bad, s.secsOn, SecsResolution(sz, bad),
         UNCHANGED <<lib, using>>
  PROVE  V4l2After
<1> DEFINE v == [s EXCEPT !.size = sz]
           t == Probed(v, bad)
           e == SecsSet(dev, SecsType(s.vfmt), t)
<1>1. CASE Resized(s, dev, -1, bad, lapse)
  BY <1>1, UnmovedKeeps DEF Resized, Return, LastOK
<1>2. CASE Resized(t, e, 0, bad, lapse \cup (IF SecsType(s.vfmt) = "none" THEN {"type"} ELSE {}))
  <2>1. /\ v \in V4l2Record /\ v.vfmt = s.vfmt /\ v.started = s.started /\ v.aac = s.aac
        /\ v.ipcam = s.ipcam /\ v.secs = s.secs /\ v.secsOn = s.secsOn
    BY DEF V4l2Before, V4l2Record, Sizes
  <2> HIDE DEF v
  <2>2. /\ t \in V4l2Record /\ t.vfmt = s.vfmt /\ t.started = s.started /\ t.aac = s.aac
        /\ t.ipcam = s.ipcam /\ t.secs = s.secs /\ t.secsOn = s.secsOn
    BY <2>1, ProbedRecord
  <2> HIDE DEF t
  <2>3. /\ e \in V4l2Camera /\ e.aac = dev.aac
        /\ e.secsSize = t.size /\ e.rate = t.rate /\ e.bitrate = t.bitrate
        /\ SecsType(s.vfmt) # "none" => e.secs = s.vfmt
    <3>1. SecsType(s.vfmt) \in SecsFormats \cup {"none"}
          /\ (SecsType(s.vfmt) # "none" => SecsType(s.vfmt) = s.vfmt) /\ dev \in V4l2Camera
      BY SecsTypes DEF V4l2Before
    <3>2. /\ e \in V4l2Camera /\ e.aac = dev.aac
          /\ e.secsSize = t.size /\ e.rate = t.rate /\ e.bitrate = t.bitrate
          /\ SecsType(s.vfmt) # "none" => e.secs = SecsType(s.vfmt)
      BY <2>2, <3>1, SecsSetCamera
    <3> QED
      BY <3>1, <3>2
  <2> HIDE DEF e
  <2>4. s' = t /\ dev' = e /\ LastOK'
        /\ lapse' = lapse \cup (IF SecsType(s.vfmt) = "none" THEN {"type"} ELSE {})
    BY <1>2 DEF Resized, Return, LastOK
  <2>5. ProbeAgrees' /\ KeptStep
    BY <2>2, <2>3, <2>4 DEF ProbeAgrees, KeptStep
  <2>6. lapse' = {} => Delivered(dev') = s'.vfmt
    <3>1. SecsType(s.vfmt) # "none" => e.secs # "none"
      BY <2>3, SecsTypes
    <3> QED
      BY <2>2, <2>3, <2>4, <3>1 DEF Delivered
  <2> QED
    BY <2>2, <2>3, <2>4, <2>5, <2>6 DEF V4l2Before, V4l2After, V4l2Inv, AacKnown, OnFormats
<1> QED
  BY <1>1, <1>2 DEF SecsResolution

\* set_resolution through the driver: the pixel format of the record is sent
\* again, and is the one that the camera has.
LEMMA FormatSize ==
  ASSUME V4l2Before, NEW sz \in {"small", "hd"}, NEW bad, ~s.secsOn, FormatResolution(sz, bad),
         UNCHANGED <<lib, using>>
  PROVE  V4l2After
<1> DEFINE x == [s EXCEPT !.started = FALSE]
           t == [s EXCEPT !.big = sz = "hd", !.started = @ /\ "start" \notin bad]
           d == DriverSet(dev, s.pix, sz)
           y == [t EXCEPT !.size = sz, !.pix = d.pix]
<1> s \in V4l2Record /\ dev \in V4l2Camera
  BY DEF V4l2Before
<1>1. /\ d \in V4l2Camera /\ d.pix = Driven(s.pix) /\ d.pix \in Offered
      /\ d.secs = "none" /\ d.aac = dev.aac
  BY DriverSetCamera
<1> HIDE DEF d
<1>2. /\ x \in V4l2Record /\ x.vfmt = s.vfmt /\ x.pix = s.pix /\ x.aac = s.aac
      /\ x.ipcam = s.ipcam /\ x.secs = s.secs /\ x.secsOn = s.secsOn
  BY DEF V4l2Record
<1>3. /\ t \in V4l2Record /\ t.vfmt = s.vfmt /\ t.pix = s.pix /\ t.aac = s.aac
      /\ t.ipcam = s.ipcam /\ t.secs = s.secs /\ t.secsOn = s.secsOn
      /\ t.started = (s.started /\ "start" \notin bad)
  BY DEF V4l2Record
<1> HIDE DEF x, t
<1>4. /\ y \in V4l2Record /\ y.vfmt = s.vfmt /\ y.pix = d.pix /\ y.aac = s.aac
      /\ y.ipcam = s.ipcam /\ y.secs = s.secs /\ y.secsOn = s.secsOn
      /\ y.started = (s.started /\ "start" \notin bad)
  BY <1>1, <1>3 DEF V4l2Record, Pixels, Sizes
<1>5. ASSUME NEW r, NEW z, NEW ret \in {0, -1}, Resized(r, z, ret, bad, lapse),
             s.started /\ ~r.started => "stop" \in bad \/ "start" \in bad
      PROVE  s' = r /\ dev' = z /\ LastOK' /\ lapse' = lapse /\ KeptStep
  <2>1. s' = r /\ dev' = z /\ lapse' = lapse /\ LastOK' /\ last'.call = "set_resolution"
        /\ last'.failed = bad \cap {"stop", "start", "aac"}
    BY <1>5 DEF Resized, Return, LastOK
  <2>2. s.started /\ ~s'.started => "stop" \in last'.failed \/ "start" \in last'.failed
    BY <1>5, <2>1
  <2> QED
    BY <2>1, <2>2 DEF KeptStep, V4l2Before
<1> HIDE DEF y
<1>6. CASE s.started /\ "stop" \in bad /\ Resized(x, dev, -1, bad, lapse)
  <2>1. s' = x /\ dev' = dev /\ LastOK' /\ lapse' = lapse /\ KeptStep
    BY <1>5, <1>6
  <2> QED
    BY <1>2, <2>1, MinorKeeps
<1>7. CASE Resized(t, dev, -1, bad, lapse)
  <2>1. s' = t /\ dev' = dev /\ LastOK' /\ lapse' = lapse /\ KeptStep
    BY <1>3, <1>5, <1>7
  <2> QED
    BY <1>3, <2>1, MinorKeeps
<1>8. CASE Resized(y, d, 0, bad, lapse)
  <2>1. s' = y /\ dev' = d /\ LastOK' /\ lapse' = lapse /\ KeptStep
    BY <1>4, <1>5, <1>8
  <2>2. ASSUME lapse = {}, ~IsMux PROVE Delivered(d) = s.vfmt
    <3>1. Delivered(dev) = s.vfmt /\ dev.pix = s.pix /\ s.pix \in Offered /\ dev.secs = "none"
      BY <2>2 DEF V4l2Before, V4l2Inv
    <3>2. d.pix = dev.pix
      BY <1>1, <3>1, DrivenOffered
    <3> QED
      BY <1>1, <3>1, <3>2 DEF Delivered
  <2> QED
    BY <1>1, <1>4, <2>1, <2>2 DEF V4l2Before, V4l2After, V4l2Inv, AacKnown, OnFormats, IsMux
<1> QED
  BY <1>6, <1>7, <1>8 DEF FormatResolution, x, t, y, d

\* set_resolution, by commit in SECS mode and with a restart in the others.
LEMMA V4l2SetResolution ==
  ASSUME V4l2Before, NEW sz \in {"small", "hd"}, SetResolution(sz) PROVE V4l2After
<1>0. UNCHANGED <<lib, using>>
  BY DEF SetResolution
<1>1. CASE s.secsOn /\ \E bad : SecsResolution(sz, bad)
  BY <1>0, <1>1, SecsSize
<1>2. CASE ~s.secsOn /\ \E bad : ControlResolution(sz, bad)
  <2>1. CASE UNCHANGED <<s, dev, lapse>> /\ LastOK'
    BY <1>0, <2>1, UnmovedKeeps
  <2>2. CASE /\ s' = [s EXCEPT !.size = sz] /\ dev' = [dev EXCEPT !.size = sz]
             /\ UNCHANGED lapse /\ LastOK'
    <3>1. /\ s' \in V4l2Record
          /\ s'.vfmt = s.vfmt /\ s'.pix = s.pix /\ s'.aac = s.aac /\ s'.started = s.started
          /\ s'.ipcam = s.ipcam /\ s'.secs = s.secs /\ s'.secsOn = s.secsOn
      BY <2>2 DEF V4l2Before, V4l2Record, Sizes
    <3>2. /\ dev' \in V4l2Camera
          /\ dev'.pix = dev.pix /\ dev'.aac = dev.aac /\ dev'.secs = dev.secs
      BY <2>2 DEF V4l2Before, V4l2Camera
    <3>3. KeptStep
      BY <3>1 DEF KeptStep
    <3> QED
      BY <1>0, <1>2, <2>2, <3>1, <3>2, <3>3, MinorKeeps
  <2> QED
    BY <1>2, <2>1, <2>2 DEF ControlResolution, Resized, Return, LastOK
<1>3. CASE ~s.secsOn /\ \E bad : FormatResolution(sz, bad)
  BY <1>0, <1>3, FormatSize
<1> QED
  BY <1>1, <1>2, <1>3 DEF SetResolution

\* get_resolution may refresh the record from the format of the camera.
LEMMA V4l2GetResolution ==
  ASSUME V4l2Before, GetResolution PROVE V4l2After
<1> s \in V4l2Record /\ dev \in V4l2Camera
  BY DEF V4l2Before
<1>0. UNCHANGED <<lib, using, dev, lapse, last>>
  BY DEF GetResolution
<1>1. CASE s' = s
  BY <1>0, <1>1, UnmovedKeeps DEF V4l2Before, LastOK
<1>2. ASSUME NEW z \in Sizes, ~s.secsOn, s' = [s EXCEPT !.size = z] PROVE V4l2After
  <2>1. /\ s' \in V4l2Record
        /\ s'.vfmt = s.vfmt /\ s'.pix = s.pix /\ s'.aac = s.aac /\ s'.started = s.started
        /\ s'.ipcam = s.ipcam /\ s'.secs = s.secs /\ s'.secsOn = s.secsOn
    BY <1>2 DEF V4l2Record
  <2>2. KeptStep
    BY <2>1 DEF KeptStep
  <2> QED
    BY <1>0, <1>2, <2>1, <2>2, MinorKeeps DEF V4l2Before, LastOK
<1>3. CASE ~s.secsOn /\ s' = [s EXCEPT !.size = dev.size, !.pix = dev.pix, !.big = dev.size = "hd"]
  <2>1. /\ s' \in V4l2Record
        /\ s'.vfmt = s.vfmt /\ s'.pix = dev.pix /\ s'.aac = s.aac /\ s'.started = s.started
        /\ s'.ipcam = s.ipcam /\ s'.secs = s.secs /\ s'.secsOn = s.secsOn
    BY <1>3 DEF V4l2Record, V4l2Camera, Sizes, Pixels
  <2>2. KeptStep
    BY <2>1 DEF KeptStep
  <2> QED
    BY <1>0, <1>3, <2>1, <2>2
    DEF V4l2Before, V4l2After, V4l2Inv, AacKnown, OnFormats, IsMux, LastOK
<1>4. dev.size \in Sizes /\ "zero" \in Sizes
  BY DEF V4l2Camera, Sizes
<1> QED
  BY <1>1, <1>2, <1>3, <1>4 DEF GetResolution

\* set_framerate and set_bitrate, by commit in SECS mode.
LEMMA V4l2SetRate ==
  ASSUME V4l2Before, NEW n \in {"rate", "bitrate"}, SetRate(n, 1) PROVE V4l2After
<1> s \in V4l2Record /\ dev \in V4l2Camera
  BY DEF V4l2Before
<1>0. UNCHANGED <<lib, using, lapse, last>>
  BY DEF SetRate
<1>1. PICK bad : LET ok == bad = {} \/ IsMux IN
                 /\ s' = IF ok THEN [s EXCEPT ![n] = 1] ELSE s
                 /\ dev' = IF bad = {} THEN [dev EXCEPT ![n] = 1] ELSE dev
  BY DEF SetRate
<1>2. /\ s' \in V4l2Record
      /\ s'.vfmt = s.vfmt /\ s'.pix = s.pix /\ s'.aac = s.aac /\ s'.started = s.started
      /\ s'.ipcam = s.ipcam /\ s'.secs = s.secs /\ s'.secsOn = s.secsOn
      /\ s'.size = s.size
  BY <1>1 DEF V4l2Record
<1>3. /\ dev' \in V4l2Camera
      /\ dev'.pix = dev.pix /\ dev'.aac = dev.aac /\ dev'.secs = dev.secs
      /\ dev'.secsSize = dev.secsSize
  BY <1>1 DEF V4l2Camera
<1>4. s.secsOn /\ ProbeAgrees => ProbeAgrees'
  <2>1. s.secsOn => ~IsMux
    BY DEF V4l2Before, V4l2Inv, IsMux
  <2> QED
    BY <1>1, <1>2, <1>3, <2>1 DEF ProbeAgrees, V4l2Record, V4l2Camera
<1>5. KeptStep
  BY <1>2 DEF KeptStep
<1> QED
  BY <1>0, <1>2, <1>3, <1>4, <1>5, MinorKeeps DEF V4l2Before, LastOK

\* get_framerate and get_bitrate may refresh the record.
LEMMA V4l2GetRate ==
  ASSUME V4l2Before, NEW n \in {"rate", "bitrate"}, GetRate(n) PROVE V4l2After
<1> s \in V4l2Record /\ dev \in V4l2Camera
  BY DEF V4l2Before
<1>0. UNCHANGED <<lib, using, lapse, last, dev>>
  BY DEF GetRate
<1>1. PICK bad : \E got \in IF bad = {} THEN {dev[n]} ELSE IF IsMux THEN 0 .. 1 ELSE {s[n]} :
         s' = [s EXCEPT ![n] = got]
  BY DEF GetRate
<1>2. PICK got \in IF bad = {} THEN {dev[n]} ELSE IF IsMux THEN 0 .. 1 ELSE {s[n]} :
         s' = [s EXCEPT ![n] = got]
  BY <1>1
<1>3. got \in 0 .. 1
  BY <1>2 DEF V4l2Record, V4l2Camera
<1>4. /\ s' \in V4l2Record
      /\ s'.vfmt = s.vfmt /\ s'.pix = s.pix /\ s'.aac = s.aac /\ s'.started = s.started
      /\ s'.ipcam = s.ipcam /\ s'.secs = s.secs /\ s'.secsOn = s.secsOn
      /\ s'.size = s.size
  BY <1>2, <1>3 DEF V4l2Record
<1>5. s.secsOn /\ ProbeAgrees => ProbeAgrees'
  <2>1. s.secsOn => ~IsMux
    BY DEF V4l2Before, V4l2Inv, IsMux
  <2>2. s.secsOn /\ ProbeAgrees => got = dev[n] /\ got = s[n]
    BY <1>2, <2>1 DEF ProbeAgrees, V4l2Record, V4l2Camera
  <2> QED
    BY <1>0, <1>2, <1>4, <2>2 DEF ProbeAgrees, V4l2Record, V4l2Camera
<1>6. KeptStep
  BY <1>4 DEF KeptStep
<1> QED
  BY <1>0, <1>4, <1>5, <1>6, MinorKeeps DEF V4l2Before, LastOK

\* Every call about the format in the v4l2 backend.
LEMMA V4l2FormatCalls ==
  ASSUME V4l2Before, FormatCalls PROVE V4l2After
  BY V4l2SetFormat, V4l2StartStop, V4l2SetResolution, V4l2GetResolution, V4l2SetRate, V4l2GetRate
  DEF FormatCalls, SetFramerate, SetBitrate, GetFramerate, GetBitrate

(***************************************************************************)
(* The calls about the format in the libusb backend                        *)
(***************************************************************************)

QuirkNeeded(c) == c.quirk => c.continuity \/ "H264_RAW" \notin Offered

UsbBefore == s \in UsbRecord /\ dev \in UsbCamera /\ LastOK /\ UsbInv /\ lib = "libusb-uvc" /\ OnFormats
UsbAfter == s' \in UsbRecord /\ dev' \in UsbCamera /\ LastOK' /\ UsbInv' /\ KeptStep

\* The descriptor and the quirk that set_format chooses. A raw H.264 descriptor
\* is found only on a channel where the quirk was never set.
LEMMA ChosenResult ==
  ASSUME UsbBefore, NEW f \in Formats
  PROVE  LET c == Chosen(f) IN
         /\ c \in UsbRecord /\ QuirkNeeded(c)
         /\ c.frame = s.frame /\ c.started = s.started /\ c.aac = s.aac /\ c.continuity = s.continuity
         /\ Found(f) /\ c.desc = "MPEG" => f \in TsFormats \/ (f = "H264_RAW" /\ c.quirk)
         /\ Found(f) /\ c.desc # "MPEG" => f = c.desc /\ (f = "H264_RAW" => ~c.quirk)
<1> DEFINE c == Chosen(f)
           want == IF f \in TsFormats \/ (f = "H264_RAW" /\ s.continuity) THEN "MPEG" ELSE f
           g == Descriptor(f)
           ts == f = "H264_RAW" /\ (s.continuity \/ (g = "none" /\ "MPEG" \in Offered))
           h == IF g # "none" THEN g ELSE IF ts /\ "MPEG" \in Offered THEN "MPEG" ELSE s.desc
<1>1. g = (IF want \in Offered \ {"GREY_RAW", "MUX"} THEN want ELSE "none")
  BY DEF Descriptor
<1>2. f \in AllFormats /\ f # "MPEG" /\ f # "none" /\ want # "none"
  BY FormatsKnown DEF AllFormats
<1>3. h \in Offered
  BY <1>1 DEF UsbBefore, UsbRecord
<1>4. c = [s EXCEPT !.desc = h, !.quirk = s.quirk \/ ts]
  BY DEF Chosen
<1>5. c \in UsbRecord /\ c.desc = h /\ c.quirk = (s.quirk \/ ts)
      /\ c.frame = s.frame /\ c.started = s.started /\ c.aac = s.aac /\ c.continuity = s.continuity
  <2> HIDE DEF h, ts, c
  <2>1. (s.quirk \/ ts) \in BOOLEAN /\ s \in UsbRecord
    BY DEF UsbBefore, UsbRecord, ts
  <2> QED
    BY <1>3, <1>4, <2>1 DEF UsbRecord
<1>6. ts => s.continuity \/ "H264_RAW" \notin Offered
  BY <1>1, <1>2 DEF TsFormats
<1>7. QuirkNeeded(s)
  BY DEF UsbBefore, UsbInv, QuirkNeeded
<1>8. QuirkNeeded(c)
  BY <1>5, <1>6, <1>7 DEF QuirkNeeded
<1>9. ASSUME Found(f)
      PROVE  /\ c.desc = "MPEG" => f \in TsFormats \/ (f = "H264_RAW" /\ c.quirk)
             /\ c.desc # "MPEG" => f = c.desc /\ (f = "H264_RAW" => ~c.quirk)
  <2>1. CASE g = "none"
    <3>1. f = "H264_RAW" /\ "MPEG" \in Offered
      BY <1>9, <2>1 DEF Found
    <3> QED
      BY <1>5, <2>1, <3>1
  <2>2. CASE g # "none" /\ want = "MPEG"
    <3>1. h = "MPEG" /\ (f \in TsFormats \/ ts)
      BY <1>1, <2>2, <1>2
    <3> QED
      BY <1>5, <1>2, <3>1
  <2>3. CASE g # "none" /\ want # "MPEG"
    <3>1. h = f /\ f \in Offered /\ f \notin TsFormats /\ (f = "H264_RAW" => ~s.continuity)
      BY <1>1, <2>3
    <3> QED
      BY <1>2, <1>5, <1>6, <1>7, <3>1 DEF QuirkNeeded
  <2> QED
    BY <2>1, <2>2, <2>3
<1> QED
  BY <1>5, <1>8, <1>9

\* After a commit the camera streams the descriptor of the record.
LEMMA CommittedCamera ==
  ASSUME NEW d \in UsbCamera, NEW t \in UsbRecord
  PROVE  LET e == Committed(d, t) IN e \in UsbCamera /\ e.pix = t.desc /\ e.aac = d.aac
  BY DEF Committed, UsbCamera, UsbRecord

\* A call that failed leaves a lapse; the rest has to be kept only.
LEMMA UsbFailedKeeps ==
  ASSUME UsbBefore, s' \in UsbRecord, dev' \in UsbCamera, LastOK', UNCHANGED <<lib, using>>,
         QuirkNeeded(s'), lapse' # {}, AacKnown', KeptStep
  PROVE  UsbAfter
  BY DEF UsbBefore, UsbAfter, UsbInv, QuirkNeeded

\* The end of set_format: AAC muxing, and the start of a stream that ran.
LEMMA SwitchKeeps ==
  ASSUME UsbBefore, UNCHANGED <<lib, using>>, NEW f \in Formats, NEW bad,
         NEW t \in UsbRecord, QuirkNeeded(t), t.aac = s.aac, ~t.started, t.vfmt = f,
         t.desc = "MPEG" => f \in TsFormats \/ (f = "H264_RAW" /\ t.quirk),
         t.desc # "MPEG" => f = t.desc /\ (f = "H264_RAW" => ~t.quirk),
         UsbSwitch(t, f, s.started, bad)
  PROVE  UsbAfter
<1> DEFINE want == f = "H264_AAC_TS"
           switch == t.desc = "MPEG" /\ t.aac # want
           a == IF switch THEN want ELSE t.aac
           b == IF switch THEN want ELSE dev.aac
           u == [t EXCEPT !.aac = a]
           cam == [dev EXCEPT !.aac = b]
           why == (lapse \ ({"failed", "quirk"} \cup (IF switch THEN {"aac"} ELSE {})))
                    \cup (IF t.quirk /\ f # "H264_RAW" THEN {"quirk"} ELSE {})
<1> s \in UsbRecord /\ dev \in UsbCamera /\ lib = "libusb-uvc" /\ AacKnown
  BY DEF UsbBefore, UsbInv
<1>1. a \in BOOLEAN /\ b \in BOOLEAN /\ (t.desc = "MPEG" => a = want)
  BY DEF UsbRecord, UsbCamera
<1>2. "aac" \notin why => a = b
  BY DEF AacKnown
<1>3. /\ u \in UsbRecord /\ u.desc = t.desc /\ u.quirk = t.quirk /\ u.vfmt = f /\ u.aac = a
      /\ u.continuity = t.continuity /\ ~u.started
  <2> HIDE DEF a
  <2> QED
    BY <1>1 DEF UsbRecord
<1>4. cam \in UsbCamera /\ cam.aac = b /\ cam.pix = dev.pix
  <2> HIDE DEF b
  <2> QED
    BY <1>1 DEF UsbCamera
<1>5. QuirkNeeded(u)
  BY <1>3 DEF QuirkNeeded
<1>6. why = {} => IF u.desc # "MPEG" THEN ~u.quirk /\ u.vfmt = u.desc
                  ELSE u.vfmt = IF u.quirk THEN "H264_RAW" ELSE IF u.aac THEN "H264_AAC_TS" ELSE "H264_TS"
  <2> SUFFICES ASSUME why = {}
               PROVE  IF t.desc # "MPEG" THEN ~t.quirk /\ f = t.desc
                      ELSE f = IF t.quirk THEN "H264_RAW" ELSE IF want THEN "H264_AAC_TS" ELSE "H264_TS"
    BY <1>1, <1>3
  <2>1. t.quirk => f = "H264_RAW"
    OBVIOUS
  <2> QED
    BY <2>1 DEF TsFormats, UsbRecord
<1> HIDE DEF u, cam, why
<1>7. ASSUME NEW r, NEW ret \in {0, -1}, NEW w, UsbLeave(r, ret, bad, w)
      PROVE  s' = r /\ lapse' = w /\ LastOK' /\ last'.ret = ret
             /\ (\A x \in {"stop", "start", "aac"} : x \in bad => x \in last'.failed)
  BY <1>7 DEF UsbLeave, Return, LastOK
<1>8. CASE switch /\ "aac" \in bad /\ UsbLeave(t, -1, bad, lapse \cup {"failed"}) /\ UNCHANGED dev
  <2>1. s' = t /\ lapse' = lapse \cup {"failed"} /\ LastOK' /\ last'.ret = -1 /\ "aac" \in last'.failed
    BY <1>7, <1>8
  <2>2. KeptStep
    BY <2>1 DEF KeptStep
  <2>3. AacKnown'
    BY <1>8, <2>1 DEF AacKnown
  <2> QED
    BY <1>8, <2>1, <2>2, <2>3, UsbFailedKeeps
<1>9. CASE ~s.started /\ UsbLeave(u, 0, bad, why) /\ dev' = cam
  <2>1. s' = u /\ lapse' = why /\ LastOK'
    BY <1>7, <1>9
  <2>2. KeptStep
    BY <1>9 DEF KeptStep
  <2> QED
    BY <1>2, <1>3, <1>4, <1>5, <1>6, <1>9, <2>1, <2>2
    DEF UsbAfter, UsbInv, QuirkNeeded, AacKnown, RecordAgrees
<1>10. CASE "start" \in bad /\ UsbLeave(u, -1, bad, why \cup {"failed"})
            /\ dev' \in {cam, Committed(cam, u)}
  <2>1. s' = u /\ lapse' = why \cup {"failed"} /\ LastOK' /\ last'.ret = -1 /\ "start" \in last'.failed
    BY <1>7, <1>10
  <2>2. KeptStep
    BY <2>1 DEF KeptStep
  <2>3. dev' \in UsbCamera /\ dev'.aac = b
    <3>1. CASE dev' = cam
      BY <1>4, <3>1
    <3>2. CASE dev' = Committed(cam, u)
      BY <1>3, <1>4, <3>2, CommittedCamera
    <3> QED
      BY <1>10, <3>1, <3>2
  <2>4. AacKnown'
    BY <1>2, <1>3, <2>1, <2>3 DEF AacKnown
  <2> QED
    BY <1>3, <1>5, <2>1, <2>2, <2>3, <2>4, UsbFailedKeeps
<1>11. CASE UsbLeave([u EXCEPT !.started = TRUE], IF "submit" \in bad THEN -1 ELSE 0, bad, why)
            /\ dev' = Committed(cam, u)
  <2> DEFINE r == [u EXCEPT !.started = TRUE]
  <2>1. s' = r /\ lapse' = why /\ LastOK'
    BY <1>7, <1>11
  <2>2. /\ r \in UsbRecord /\ r.desc = u.desc /\ r.quirk = u.quirk /\ r.vfmt = u.vfmt /\ r.aac = u.aac
        /\ r.continuity = u.continuity /\ r.started
    BY <1>3 DEF UsbRecord
  <2>3. dev' \in UsbCamera /\ dev'.pix = u.desc /\ dev'.aac = b
    BY <1>3, <1>4, <1>11, CommittedCamera
  <2> HIDE DEF r
  <2>4. KeptStep
    BY <2>1, <2>2 DEF KeptStep
  <2> QED
    BY <1>2, <1>3, <1>5, <1>6, <2>1, <2>2, <2>3, <2>4
    DEF UsbAfter, UsbInv, QuirkNeeded, AacKnown, RecordAgrees
<1> QED
  BY <1>8, <1>9, <1>10, <1>11 DEF UsbSwitch, u, cam, why

\* set_format on each of its paths, with AAC muxing and restart.
LEMMA UsbSetFormatKeeps ==
  ASSUME UsbBefore, NEW f \in Formats, UsbSetFormat(f) PROVE UsbAfter
<1> DEFINE c == Chosen(f)
           t == [c EXCEPT !.vfmt = f]
<1>0. UNCHANGED <<lib, using>>
  BY DEF UsbSetFormat, UsbCall
<1> PICK bad :
       LET nodefault == t.desc # "MPEG" /\ "frame" \in bad
           u == [t EXCEPT !.frame = IF t.desc = "MPEG" THEN "none"
                                    ELSE IF nodefault THEN @ ELSE t.desc,
                          !.interval = IF nodefault /\ s.frame = "none" THEN 0 ELSE 1]
       IN \/ f = s.vfmt /\ UsbLeave(s, 0, {}, lapse) /\ UNCHANGED dev
          \/ /\ f # s.vfmt /\ ~Found(f)
             /\ UsbLeave(c, -1, {}, lapse \cup {"failed"}) /\ UNCHANGED dev
          \/ /\ f # s.vfmt /\ Found(f) /\ nodefault /\ s.frame = "none"
             /\ UsbLeave(u, -1, bad, lapse \cup {"failed"}) /\ UNCHANGED dev
          \/ /\ f # s.vfmt /\ Found(f) /\ ~(nodefault /\ s.frame = "none")
             /\ IF s.started /\ "stop" \in bad
                  THEN /\ UsbLeave([u EXCEPT !.started = FALSE], -1, bad, lapse \cup {"failed"})
                       /\ UNCHANGED dev
                ELSE UsbSwitch([u EXCEPT !.started = FALSE], f, s.started, bad)
  BY DEF UsbSetFormat
<1> DEFINE nodefault == t.desc # "MPEG" /\ "frame" \in bad
           fr == IF t.desc = "MPEG" THEN "none" ELSE IF nodefault THEN t.frame ELSE t.desc
           iv == IF nodefault /\ s.frame = "none" THEN 0 ELSE 1
           u == [t EXCEPT !.frame = fr, !.interval = iv]
           x == [u EXCEPT !.started = FALSE]
<1> s \in UsbRecord /\ dev \in UsbCamera /\ lib = "libusb-uvc" /\ UsbInv /\ AacKnown
  BY DEF UsbBefore, UsbInv
<1>1. /\ c \in UsbRecord /\ QuirkNeeded(c)
      /\ c.frame = s.frame /\ c.started = s.started /\ c.aac = s.aac /\ c.continuity = s.continuity
      /\ Found(f) /\ c.desc = "MPEG" => f \in TsFormats \/ (f = "H264_RAW" /\ c.quirk)
      /\ Found(f) /\ c.desc # "MPEG" => f = c.desc /\ (f = "H264_RAW" => ~c.quirk)
  BY ChosenResult
<1> HIDE DEF c
<1>2. /\ t \in UsbRecord /\ t.desc = c.desc /\ t.quirk = c.quirk /\ t.continuity = c.continuity
      /\ t.started = s.started /\ t.aac = s.aac /\ t.vfmt = f
  BY <1>1, FormatsKnown DEF UsbRecord
<1> HIDE DEF t
<1>3. fr \in Offered \cup {"none"} /\ iv \in 0 .. 1
  BY <1>2 DEF UsbRecord
<1>4. /\ u \in UsbRecord /\ u.desc = c.desc /\ u.quirk = c.quirk /\ u.continuity = c.continuity
      /\ u.started = s.started /\ u.aac = s.aac /\ u.vfmt = f
  <2> HIDE DEF fr, iv
  <2> QED
    BY <1>2, <1>3 DEF UsbRecord
<1> HIDE DEF u
<1>5. /\ x \in UsbRecord /\ x.desc = c.desc /\ x.quirk = c.quirk /\ x.continuity = c.continuity
      /\ ~x.started /\ x.aac = s.aac /\ x.vfmt = f
  BY <1>4 DEF UsbRecord
<1> HIDE DEF x
<1>6. QuirkNeeded(u) /\ QuirkNeeded(x)
  BY <1>1, <1>4, <1>5 DEF QuirkNeeded
<1>7. CASE UsbLeave(s, 0, {}, lapse) /\ UNCHANGED dev
  <2>1. UNCHANGED <<s, dev, lapse>> /\ LastOK'
    BY <1>7 DEF UsbLeave, Return, LastOK
  <2> QED
    BY <1>0, <2>1 DEF UsbAfter, UsbInv, AacKnown, OnFormats, RecordAgrees, KeptStep
<1>8. ASSUME NEW r \in UsbRecord, QuirkNeeded(r), r.aac = s.aac, NEW lost,
             UsbLeave(r, -1, lost, lapse \cup {"failed"}), UNCHANGED dev,
             r.started = s.started \/ "stop" \in lost
      PROVE  UsbAfter
  <2>1. s' = r /\ lapse' = lapse \cup {"failed"} /\ LastOK' /\ last'.ret = -1
        /\ ("stop" \in lost => "stop" \in last'.failed)
    BY <1>8 DEF UsbLeave, Return, LastOK
  <2>2. KeptStep /\ AacKnown'
    BY <1>8, <2>1 DEF KeptStep, AacKnown
  <2> QED
    BY <1>0, <1>8, <2>1, <2>2, UsbFailedKeeps
<1>9. CASE UsbLeave(c, -1, {}, lapse \cup {"failed"}) /\ UNCHANGED dev
  BY <1>1, <1>8, <1>9
<1>10. CASE UsbLeave(u, -1, bad, lapse \cup {"failed"}) /\ UNCHANGED dev
  BY <1>4, <1>6, <1>8, <1>10
<1>11. CASE "stop" \in bad /\ UsbLeave(x, -1, bad, lapse \cup {"failed"}) /\ UNCHANGED dev
  BY <1>5, <1>6, <1>8, <1>11
<1>12. CASE Found(f) /\ UsbSwitch(x, f, s.started, bad)
  BY <1>0, <1>1, <1>5, <1>6, <1>12, SwitchKeeps
<1> QED
  BY <1>7, <1>9, <1>10, <1>11, <1>12 DEF u, x

\* Calls that keep the format, the descriptor and the camera's, or commit.
LEMMA UsbMinorKeeps ==
  ASSUME UsbBefore, UNCHANGED <<lib, using, lapse>>, NEW t \in UsbRecord,
         t.vfmt = s.vfmt, t.desc = s.desc, t.quirk = s.quirk, t.aac = s.aac, t.continuity = s.continuity,
         s' = t, dev' \in {dev, Committed(dev, t)}, LastOK', KeptStep,
         t.started => s.started \/ dev' = Committed(dev, t)
  PROVE  UsbAfter
<1>1. /\ dev' \in UsbCamera /\ dev'.aac = dev.aac
      /\ dev' = dev \/ dev'.pix = s.desc
      /\ t.started => s.started \/ dev'.pix = s.desc
  BY CommittedCamera DEF UsbBefore
<1> QED
  BY <1>1 DEF UsbBefore, UsbAfter, UsbInv, AacKnown, OnFormats, RecordAgrees

\* start commits the record, stop changes nothing but the flag.
LEMMA UsbStartStop ==
  ASSUME UsbBefore, UsbStart \/ UsbStop PROVE UsbAfter
<1> s \in UsbRecord
  BY DEF UsbBefore
<1>1. UNCHANGED <<lib, using, lapse>> /\ LastOK'
  BY DEF UsbStart, UsbStop, UsbCall, Return, LastOK
<1>2. PICK b \in BOOLEAN :
        /\ s' = [s EXCEPT !.started = b]
        /\ dev' \in {dev, Committed(dev, s)}
        /\ b => ~s.started /\ dev' = Committed(dev, s)
        /\ ~s.started \/ last'.call = "stop"
  <2>1. CASE UsbStart
    <3>1. PICK bad : /\ ProbeCommit(s, bad) /\ ~s.started
                     /\ s' = [s EXCEPT !.started = {"commit", "start"} \cap bad = {}]
      BY <2>1 DEF UsbStart
    <3> DEFINE b == {"commit", "start"} \cap bad = {}
    <3>2. dev' \in {dev, Committed(dev, s)} /\ (b => dev' = Committed(dev, s))
      BY <3>1 DEF ProbeCommit
    <3>3. b \in BOOLEAN /\ s' = [s EXCEPT !.started = b]
      BY <3>1
    <3> QED
      BY <3>1, <3>2, <3>3
  <2>2. CASE UsbStop
    BY <2>2 DEF UsbStop, Return
  <2> QED
    BY <2>1, <2>2
<1> DEFINE t == [s EXCEPT !.started = b]
<1>3. /\ t \in UsbRecord /\ t.started = b
      /\ t.vfmt = s.vfmt /\ t.desc = s.desc /\ t.quirk = s.quirk /\ t.aac = s.aac
      /\ t.continuity = s.continuity /\ Committed(dev, t) = Committed(dev, s)
  BY DEF UsbRecord, Committed
<1>4. s' = t
  BY <1>2
<1> HIDE DEF t
<1>5. KeptStep
  BY <1>2 DEF KeptStep
<1> QED
  BY <1>1, <1>2, <1>3, <1>4, <1>5, UsbMinorKeeps

\* set_resolution picks a frame of the descriptor and commits it.
LEMMA UsbResolution ==
  ASSUME UsbBefore, UsbSetResolution PROVE UsbAfter
<1> s \in UsbRecord
  BY DEF UsbBefore
<1> DEFINE t == [s EXCEPT !.frame = s.desc, !.interval = 1]
<1>0. s.desc \in Offered
  BY DEF UsbRecord
<1>1. UNCHANGED <<lib, using, lapse>> /\ LastOK'
  BY DEF UsbSetResolution, UsbCall, Return, LastOK
<1>2. \/ UNCHANGED <<s, dev>>
      \/ s' = t /\ dev' \in {dev, Committed(dev, t)}
  BY DEF UsbSetResolution, ProbeCommit
<1>3. /\ t \in UsbRecord /\ t.started = s.started
      /\ t.vfmt = s.vfmt /\ t.desc = s.desc /\ t.quirk = s.quirk /\ t.aac = s.aac
      /\ t.continuity = s.continuity
  <2>1. s.desc \in Offered \cup {"none"} /\ 1 \in 0 .. 1
    BY <1>0
  <2> QED
    BY <2>1 DEF UsbRecord
<1> HIDE DEF t
<1>4. KeptStep
  BY <1>2, <1>3 DEF KeptStep
<1> QED
  BY <1>1, <1>2, <1>3, <1>4, UsbMinorKeeps

\* set_framerate changes the interval and commits it.
LEMMA UsbFramerate ==
  ASSUME UsbBefore, UsbSetFramerate(1) PROVE UsbAfter
<1> s \in UsbRecord
  BY DEF UsbBefore
<1> DEFINE t == [s EXCEPT !.interval = 1]
<1>1. UNCHANGED <<lib, using, lapse, last>>
  BY DEF UsbSetFramerate, UsbCall
<1>2. s' = t /\ dev' \in {dev, Committed(dev, t)}
  BY DEF UsbSetFramerate, ProbeCommit
<1>3. /\ t \in UsbRecord /\ t.started = s.started
      /\ t.vfmt = s.vfmt /\ t.desc = s.desc /\ t.quirk = s.quirk /\ t.aac = s.aac
      /\ t.continuity = s.continuity
  BY DEF UsbRecord
<1> HIDE DEF t
<1>4. KeptStep /\ LastOK'
  BY <1>1, <1>2, <1>3 DEF KeptStep, UsbBefore, LastOK
<1> QED
  BY <1>1, <1>2, <1>3, <1>4, UsbMinorKeeps

\* Every call about the format in the libusb backend.
LEMMA UsbFormatCallsKeep ==
  ASSUME UsbBefore, UsbFormatCalls PROVE UsbAfter
  BY UsbSetFormatKeeps, UsbStartStop, UsbResolution, UsbFramerate DEF UsbFormatCalls

(***************************************************************************)
(* Controls. What the invariant adds is that a setting which counts as set *)
(* is addressed by its own accessor, and that the libusb backend's cache   *)
(* of pan and tilt is what the camera has.                                 *)
(***************************************************************************)

Shared(name) == lib = "v4l2" /\ IsMux /\ name \in {"vui", "pict_timing"}

Addressed(name) ==
  IF lib = "v4l2"
    THEN /\ ControlId(name) = name
         /\ name = "audio_bitrate" => s.ipcam
    ELSE name \in {"pan", "tilt", "wdr", "brightness", "goplen"}

Honest(i) ==
  wish[i] # Unset /\ i[1] \notin lapse /\ ~Shared(i[1]) => ctl[i] = wish[i] /\ Addressed(i[1])

PantiltCached ==
  lib = "libusb-uvc" /\ {"pan", "tilt"} \subseteq using =>
    s.pan = ctl[<<"pan", "value">>] /\ s.tilt = ctl[<<"tilt", "value">>]

HonourInv == (\A i \in ControlIds : Honest(i)) /\ PantiltCached

Values == [ControlIds -> 0 .. 1]
Wishes == [ControlIds -> {0, 1, Unset}]

\* A call that concerns the settings N and no other.
StepOn(N) ==
  /\ UNCHANGED <<lib, using, dev, last>>
  /\ ctl' \in Values /\ wish' \in Wishes
  /\ \A i \in ControlIds : i[1] \notin N => wish'[i] = wish[i] /\ (ctl'[i] = ctl[i] \/ Shared(i[1]))
  /\ \A n : n \notin N => (n \in lapse' <=> n \in lapse)
  /\ \A i \in ControlIds :
       i[1] \in N /\ wish'[i] # Unset /\ i[1] \notin lapse' /\ ~Shared(i[1])
         => ctl'[i] = wish'[i] /\ Addressed(i[1])
  /\ "aac" \notin N /\ ~OnFormats

ControlsBefore == ctl \in Values /\ wish \in Wishes /\ HonourInv

\* The controls and settings are pairs.
LEMMA IdsArePairs ==
  /\ \A i \in ControlIds : /\ i = <<i[1], i[2]>> /\ i[1] \in using /\ i[2] \in {"on", "value"}
                           /\ i[2] = "on" => i[1] \in Pairs
  /\ \A n \in using : <<n, "value">> \in ControlIds
  /\ \A n \in using \cap Pairs : <<n, "on">> \in ControlIds
  BY DEF ControlIds

\* A request changes one control.
LEMMA WriteResult ==
  ASSUME NEW c \in Values, NEW id, NEW v \in 0 .. 1, NEW part
  PROVE  /\ Write(c, id, v, part) \in Values
         /\ \A i \in ControlIds : Write(c, id, v, part)[i] = IF i = <<id, part>> THEN v ELSE c[i]
<1> DEFINE k == <<id, part>>
<1>1. Write(c, id, v, part) = IF k \in ControlIds THEN [c EXCEPT ![k] = v] ELSE c
  BY DEF Write
<1> HIDE DEF k
<1>2. /\ Write(c, id, v, part) \in Values
      /\ \A i \in ControlIds : Write(c, id, v, part)[i] = IF i = k THEN v ELSE c[i]
  BY <1>1 DEF Values
<1> QED
  BY <1>2 DEF k

\* What a call that returned ret leaves the application to count on.
LEMMA WishedResult ==
  ASSUME wish \in Wishes, NEW ret \in {0, -1}, NEW name, NEW vals,
         \A p \in DOMAIN vals : vals[p] \in 0 .. 1, Wished(ret, name, vals)
  PROVE  /\ wish' \in Wishes
         /\ \A i \in ControlIds :
              /\ i[1] # name => wish'[i] = wish[i]
              /\ i[1] = name /\ ret # 0 => wish'[i] = Unset
              /\ i[1] = name /\ ret = 0 => wish'[i] = IF i[2] \in DOMAIN vals THEN vals[i[2]] ELSE wish[i]
  BY DEF Wished, Wishes

\* A single control: it is written and wished, or not written and no longer wished.
LEMMA OneSet ==
  ASSUME ControlsBefore, NEW name \in using \ Pairs, NEW v \in 0 .. 1, NEW ret \in {0, -1}, NEW id,
         Wished(ret, name, [value |-> v]), name # "aac",
         UNCHANGED <<lib, using, dev, last>>,
         ret = 0 => (name \in lapse' \/ Shared(name) \/ (id = name /\ Addressed(name))),
         ctl' = ctl \/ ctl' = Write(ctl, id, v, "value"),
         ret = 0 /\ id = name /\ name \notin lapse' => ctl' = Write(ctl, id, v, "value"),
         id = name \/ Shared(id) \/ ctl' = ctl,
         \A n : n # name => (n \in lapse' <=> n \in lapse)
  PROVE  StepOn({name})
<1>1. wish' \in Wishes /\ \A i \in ControlIds :
        /\ i[1] # name => wish'[i] = wish[i]
        /\ i[1] = name => wish'[i] = IF ret = 0 THEN v ELSE Unset
  <2>1. \A i \in ControlIds : i[1] = name => i[2] = "value"
    BY IdsArePairs
  <2> DEFINE vals == [value |-> v]
  <2>2. DOMAIN vals = {"value"} /\ vals["value"] = v
    OBVIOUS
  <2> HIDE DEF vals
  <2>3. /\ wish' \in Wishes
        /\ \A i \in ControlIds :
             /\ i[1] # name => wish'[i] = wish[i]
             /\ i[1] = name /\ ret # 0 => wish'[i] = Unset
             /\ i[1] = name /\ ret = 0 => wish'[i] = IF i[2] \in DOMAIN vals THEN vals[i[2]] ELSE wish[i]
    <3>1. Wished(ret, name, vals) /\ \A p \in DOMAIN vals : vals[p] \in 0 .. 1
      BY <2>2 DEF vals
    <3> QED
      BY <3>1, WishedResult DEF ControlsBefore
  <2> QED
    BY <2>1, <2>2, <2>3
<1>2. ctl' \in Values
      /\ \A i \in ControlIds : ctl'[i] = ctl[i] \/ (i[1] = id /\ ctl' = Write(ctl, id, v, "value"))
  <2>1. ctl \in Values
    BY DEF ControlsBefore
  <2>2. CASE ctl' = ctl
    BY <2>1, <2>2
  <2>3. CASE ctl' = Write(ctl, id, v, "value")
    <3>1. ctl' \in Values /\ \A i \in ControlIds : ctl'[i] = IF i = <<id, "value">> THEN v ELSE ctl[i]
      BY <2>1, <2>3, WriteResult
    <3>2. \A i \in ControlIds : i[1] # id => i # <<id, "value">>
      OBVIOUS
    <3> QED
      BY <2>3, <3>1, <3>2
  <2> QED
    BY <2>2, <2>3
<1>3. ctl' = Write(ctl, name, v, "value") => \A i \in ControlIds : i[1] = name => ctl'[i] = v
  BY WriteResult, IdsArePairs DEF ControlsBefore
<1>4. \A i \in ControlIds : i[1] # name => ctl'[i] = ctl[i] \/ Shared(i[1])
  BY <1>2
<1>5. ~OnFormats
  BY DEF OnFormats
<1> QED
  BY <1>1, <1>2, <1>3, <1>4, <1>5 DEF StepOn

\* A control with a mode and a value.
LEMMA PairSet ==
  ASSUME ControlsBefore, NEW name \in using \cap Pairs, NEW on \in 0 .. 1, NEW v \in 0 .. 1,
         NEW withValue \in BOOLEAN, SetPair(name, on, v, withValue), Addressed(name),
         UNCHANGED <<lib, using, dev>>
  PROVE  StepOn({name})
<1>0. PICK bad :
    LET ret == IF bad = {} THEN 0 ELSE -1
        switched == IF "on" \in bad THEN ctl ELSE Write(ctl, name, on, "on")
    IN /\ "value" \in bad => withValue
       /\ ctl' = IF bad = {} /\ withValue THEN Write(switched, name, v, "value") ELSE switched
       /\ UNCHANGED <<last, lapse>>
       /\ Wished(ret, name, IF withValue THEN [on |-> on, value |-> v] ELSE [on |-> on])
  BY DEF SetPair
<1> DEFINE ret == IF bad = {} THEN 0 ELSE -1
           switched == IF "on" \in bad THEN ctl ELSE Write(ctl, name, on, "on")
           vals == IF withValue THEN [on |-> on, value |-> v] ELSE [on |-> on]
<1>1. DOMAIN vals = (IF withValue THEN {"on", "value"} ELSE {"on"})
      /\ vals["on"] = on /\ (withValue => vals["value"] = v)
  OBVIOUS
<1>2. ret \in {0, -1} /\ Wished(ret, name, vals) /\ \A p \in DOMAIN vals : vals[p] \in 0 .. 1
  BY <1>0, <1>1
<1> HIDE DEF vals, ret
<1>3. /\ wish' \in Wishes
      /\ \A i \in ControlIds :
           /\ i[1] # name => wish'[i] = wish[i]
           /\ i[1] = name /\ ret # 0 => wish'[i] = Unset
           /\ i[1] = name /\ ret = 0 => wish'[i] = IF i[2] \in DOMAIN vals THEN vals[i[2]] ELSE wish[i]
  BY <1>2, WishedResult DEF ControlsBefore
<1>4. /\ switched \in Values
      /\ \A i \in ControlIds : switched[i] = IF i = <<name, "on">> /\ "on" \notin bad THEN on ELSE ctl[i]
  <2>1. ctl \in Values
    BY DEF ControlsBefore
  <2>2. CASE "on" \in bad
    BY <2>1, <2>2
  <2>3. CASE "on" \notin bad
    <3>1. switched = Write(ctl, name, on, "on")
      BY <2>3
    <3> HIDE DEF switched
    <3> QED
      BY <2>1, <2>3, <3>1, WriteResult
  <2> QED
    BY <2>2, <2>3
<1>5. /\ ctl' = IF bad = {} /\ withValue THEN Write(switched, name, v, "value") ELSE switched
      /\ UNCHANGED <<last, lapse>>
  BY <1>0
<1> HIDE DEF switched
<1>6. ctl' \in Values /\ \A i \in ControlIds :
        ctl'[i] = IF bad = {} /\ withValue /\ i = <<name, "value">> THEN v ELSE switched[i]
  <2>1. CASE ~(bad = {} /\ withValue)
    BY <1>4, <1>5, <2>1
  <2>2. CASE bad = {} /\ withValue
    <3>1. ctl' = Write(switched, name, v, "value")
      BY <1>5, <2>2
    <3>2. switched \in Values
      BY <1>4
    <3>3. /\ Write(switched, name, v, "value") \in Values
          /\ \A i \in ControlIds :
               Write(switched, name, v, "value")[i] = IF i = <<name, "value">> THEN v ELSE switched[i]
      BY <3>2, WriteResult
    <3>4. ctl' \in Values
          /\ \A i \in ControlIds : ctl'[i] = IF i = <<name, "value">> THEN v ELSE switched[i]
      BY <3>1, <3>3
    <3> QED
      BY <2>2, <3>4
  <2> QED
    BY <2>1, <2>2
<1>7. ASSUME NEW i \in ControlIds, i[1] # name PROVE ctl'[i] = ctl[i]
  <2>1. i # <<name, "value">> /\ i # <<name, "on">>
    BY <1>7
  <2> QED
    BY <1>4, <1>6, <2>1
<1>8. ASSUME NEW i \in ControlIds, i[1] = name, wish'[i] # Unset, name \notin lapse, ~Shared(name)
      PROVE  ctl'[i] = wish'[i]
  <2>1. ret = 0 /\ bad = {}
    BY <1>2, <1>3, <1>8 DEF ret
  <2>2. CASE i[2] = "on"
    <3>1. i = <<name, "on">> /\ i # <<name, "value">>
      BY <1>8, <2>2, IdsArePairs
    <3> QED
      BY <1>1, <1>3, <1>4, <1>6, <1>8, <2>1, <2>2, <3>1
  <2>3. CASE i[2] = "value"
    <3>1. i = <<name, "value">> /\ i # <<name, "on">>
      BY <1>8, <2>3, IdsArePairs
    <3>2. CASE withValue
      BY <1>1, <1>3, <1>6, <1>8, <2>1, <2>3, <3>1, <3>2
    <3>3. CASE ~withValue
      <4>1. wish'[i] = wish[i] /\ ctl'[i] = ctl[i]
        BY <1>1, <1>3, <1>4, <1>6, <1>8, <2>1, <2>3, <3>1, <3>3
      <4> QED
        BY <1>5, <1>8, <4>1 DEF ControlsBefore, HonourInv, Honest
    <3> QED
      BY <3>2, <3>3
  <2> QED
    BY <2>2, <2>3, IdsArePairs
<1>9. ~OnFormats /\ name # "aac"
  BY DEF OnFormats, Pairs
<1> QED
  BY <1>3, <1>5, <1>6, <1>7, <1>8, <1>9 DEF StepOn

\* Pan and tilt in one call.
LEMMA TwoSet ==
  ASSUME ControlsBefore, {"pan", "tilt"} \subseteq using, NEW p \in 0 .. 1, NEW t \in 0 .. 1,
         Addressed("pan"), Addressed("tilt"), ctl' \in Values, wish' \in Wishes,
         UNCHANGED <<lib, using, dev, last, lapse>>,
         \A i \in ControlIds : i[1] \notin {"pan", "tilt"} => wish'[i] = wish[i] /\ ctl'[i] = ctl[i],
         "pan" \in lapse \/ wish'[<<"pan", "value">>] \in {Unset, ctl'[<<"pan", "value">>]},
         "tilt" \in lapse \/ wish'[<<"tilt", "value">>] \in {Unset, ctl'[<<"tilt", "value">>]}
  PROVE  StepOn({"pan", "tilt"})
<1>1. ASSUME NEW i \in ControlIds, i[1] \in {"pan", "tilt"}, wish'[i] # Unset, i[1] \notin lapse
      PROVE  ctl'[i] = wish'[i] /\ Addressed(i[1])
  <2>1. i = <<"pan", "value">> \/ i = <<"tilt", "value">>
    BY <1>1, IdsArePairs DEF Pairs
  <2> QED
    BY <1>1, <2>1
<1>2. ~OnFormats
  BY DEF OnFormats
<1> QED
  BY <1>1, <1>2 DEF StepOn

\* An accessor addresses the control it is named after, or none, but for
\* pict_timing on a mux channel.
LEMMA ControlIdResult ==
  ASSUME NEW name
  PROVE  /\ ControlId(name) \in {name, "?"} \/ (IsMux /\ name = "pict_timing" /\ ControlId(name) = "vui")
         /\ name \notin MuxOnly \cup MuxToo => ControlId(name) = name
  BY DEF ControlId, MuxId, MuxOnly, MuxToo

\* The calls that write one control.
LEMMA ControlSet ==
  ASSUME ControlsBefore, NEW name \in MuxOnly \cup MuxToo \cup {"brightness"}, NEW v \in 0 .. 1,
         SetControl(name, v)
  PROVE  StepOn({name}) /\ s' = s
<1> PICK bad :
       LET id == ControlId(name)
           swallow == IsMux /\ name \in MuxOnly \cup MuxToo
           failed == Fails(id, "S_CTRL", bad)
           ret == IF failed /\ ~swallow THEN -1 ELSE 0
       IN /\ ctl' = IF failed THEN ctl ELSE Write(ctl, id, v, "value")
          /\ UNCHANGED last
          /\ Wished(ret, name, [value |-> v])
          /\ lapse' = IF failed /\ swallow THEN lapse \cup {name} ELSE lapse \ {name}
  BY DEF SetControl
<1> DEFINE id == ControlId(name)
           swallow == IsMux /\ name \in MuxOnly \cup MuxToo
           failed == Fails(id, "S_CTRL", bad)
           ret == IF failed /\ ~swallow THEN -1 ELSE 0
<1>1. lib = "v4l2" /\ name \in using \ Pairs /\ name # "aac" /\ name # "?" /\ name # "audio_bitrate"
      /\ UNCHANGED <<lib, using, s, dev>>
  BY DEF SetControl, Controlling, MuxOnly, MuxToo, Pairs
<1>2. id \in {name, "?"} \/ (Shared(name) /\ id = "vui" /\ Shared(id))
  BY <1>1, ControlIdResult DEF Shared
<1>3. id = "?" => failed
  BY DEF Fails
<1>4. id = name => Addressed(name)
  BY <1>1 DEF Addressed
<1> HIDE DEF id, failed
<1>5. ret \in {0, -1}
  OBVIOUS
<1>6. ret = 0 => (name \in lapse' \/ Shared(name) \/ (id = name /\ Addressed(name)))
  <2>1. failed => name \in lapse' \/ ret = -1
    BY DEF id, failed
  <2> QED
    BY <1>2, <1>3, <1>4, <2>1
<1>7. ctl' = ctl \/ ctl' = Write(ctl, id, v, "value")
  BY DEF id, failed
<1>8. ret = 0 /\ id = name /\ name \notin lapse' => ctl' = Write(ctl, id, v, "value")
  BY DEF id, failed
<1>9. id = name \/ Shared(id) \/ ctl' = ctl
  BY <1>2, <1>3 DEF id, failed
<1>10. \A n : n # name => (n \in lapse' <=> n \in lapse)
  BY DEF id, failed
<1>11. Wished(ret, name, [value |-> v]) /\ UNCHANGED last
  BY DEF id, failed
<1> HIDE DEF ret
<1> QED
  BY <1>1, <1>5, <1>6, <1>7, <1>8, <1>9, <1>10, <1>11, OneSet

\* The calls that write one control with no selection of it before.
LEMMA WholeSet ==
  ASSUME ControlsBefore, NEW name \in {"crop", "pwr_line_freq", "pan", "tilt"}, NEW v \in 0 .. 1,
         SetWhole(name, v)
  PROVE  StepOn({name}) /\ s' = s
<1> PICK bad :
       LET ret == IF bad = {} THEN 0 ELSE -1 IN
       /\ ctl' = IF bad = {} THEN Write(ctl, name, v, "value") ELSE ctl
       /\ UNCHANGED last /\ Wished(ret, name, [value |-> v]) /\ UNCHANGED lapse
  BY DEF SetWhole
<1> DEFINE ret == IF bad = {} THEN 0 ELSE -1
<1>1. lib = "v4l2" /\ name \in using \ Pairs /\ name # "aac" /\ UNCHANGED <<lib, using, s, dev>>
  BY DEF SetWhole, Controlling, Pairs
<1>2. Addressed(name)
  BY <1>1, ControlIdResult DEF Addressed, MuxOnly, MuxToo
<1>3. ret \in {0, -1} /\ Wished(ret, name, [value |-> v]) /\ UNCHANGED <<last, lapse>>
  OBVIOUS
<1>4. (ret = 0 => ctl' = Write(ctl, name, v, "value"))
      /\ (ctl' = ctl \/ ctl' = Write(ctl, name, v, "value"))
  OBVIOUS
<1> HIDE DEF ret
<1> QED
  BY <1>1, <1>2, <1>3, <1>4, OneSet

\* set_audio_bitrate, which addresses a control of an ip camera only.
LEMMA AudioBitrateSet ==
  ASSUME ControlsBefore, NEW v \in 0 .. 1, SetAudioBitrate(v)
  PROVE  StepOn({"audio_bitrate"}) /\ s' = s
<1> DEFINE name == "audio_bitrate"
<1> PICK bad :
       LET failed == s.ipcam /\ bad # {}
           ret == IF failed THEN -1 ELSE 0
       IN /\ ctl' = IF s.ipcam /\ ~failed THEN Write(ctl, name, v, "value") ELSE ctl
          /\ UNCHANGED last
          /\ Wished(ret, name, [value |-> v])
          /\ lapse' = IF s.ipcam THEN lapse ELSE lapse \cup {name}
  BY DEF SetAudioBitrate
<1> DEFINE failed == s.ipcam /\ bad # {}
           ret == IF failed THEN -1 ELSE 0
<1>1. lib = "v4l2" /\ name \in using \ Pairs /\ name # "aac" /\ UNCHANGED <<lib, using, s, dev>>
  BY DEF SetAudioBitrate, Controlling, Pairs
<1>2. s.ipcam => Addressed(name)
  BY <1>1, ControlIdResult DEF Addressed, MuxOnly, MuxToo
<1> HIDE DEF failed
<1>3. ret \in {0, -1} /\ Wished(ret, name, [value |-> v]) /\ UNCHANGED last
  BY DEF failed
<1>4. ret = 0 => name \in lapse' \/ Addressed(name)
  BY <1>2 DEF failed
<1>5. (ctl' = ctl \/ ctl' = Write(ctl, name, v, "value"))
      /\ (ret = 0 /\ name \notin lapse' => ctl' = Write(ctl, name, v, "value"))
  BY DEF failed
<1>6. \A n : n # name => (n \in lapse' <=> n \in lapse)
  BY DEF failed
<1> HIDE DEF ret, name
<1>7. StepOn({name})
  BY <1>1, <1>3, <1>4, <1>5, <1>6, OneSet
<1> QED
  BY <1>1, <1>7 DEF name

\* set_pantilt, whose second request may fail after the first moved the camera.
LEMMA PantiltSet ==
  ASSUME ControlsBefore, NEW p \in 0 .. 1, NEW t \in 0 .. 1, SetPantilt(p, t)
  PROVE  StepOn({"pan", "tilt"}) /\ s' = s
<1>0. PICK bad :
       LET moved == IF "pan" \in bad THEN ctl ELSE Write(ctl, "pan", p, "value")
       IN /\ ctl' = IF bad = {} THEN Write(moved, "tilt", t, "value") ELSE moved
          /\ UNCHANGED last /\ UNCHANGED lapse
          /\ wish' = [i \in ControlIds |->
               IF i[1] \notin {"pan", "tilt"} THEN wish[i]
               ELSE IF bad # {} THEN Unset ELSE IF i[1] = "pan" THEN p ELSE t]
  BY DEF SetPantilt
<1> DEFINE moved == IF "pan" \in bad THEN ctl ELSE Write(ctl, "pan", p, "value")
<1>1. lib = "v4l2" /\ {"pan", "tilt"} \subseteq using /\ UNCHANGED <<lib, using, s, dev>>
  BY DEF SetPantilt, Controlling
<1>2. Addressed("pan") /\ Addressed("tilt")
  BY <1>1, ControlIdResult DEF Addressed, MuxOnly, MuxToo
<1>3. ctl \in Values /\ wish \in Wishes
  BY DEF ControlsBefore
<1>4. moved \in Values
      /\ \A i \in ControlIds : moved[i] = IF i = <<"pan", "value">> /\ "pan" \notin bad THEN p ELSE ctl[i]
  <2>1. CASE "pan" \in bad
    BY <1>3, <2>1
  <2>2. CASE "pan" \notin bad
    <3>1. moved = Write(ctl, "pan", p, "value")
      BY <2>2
    <3> HIDE DEF moved
    <3> QED
      BY <1>3, <2>2, <3>1, WriteResult
  <2> QED
    BY <2>1, <2>2
<1>5. ctl' = IF bad = {} THEN Write(moved, "tilt", t, "value") ELSE moved
  BY <1>0
<1> HIDE DEF moved
<1>6. ctl' \in Values /\ \A i \in ControlIds :
        ctl'[i] = IF bad = {} /\ i = <<"tilt", "value">> THEN t ELSE moved[i]
  <2>1. CASE bad # {}
    BY <1>4, <1>5, <2>1
  <2>2. CASE bad = {}
    <3>1. ctl' = Write(moved, "tilt", t, "value")
      BY <1>5, <2>2
    <3> DEFINE w == Write(moved, "tilt", t, "value")
    <3>2. w \in Values
          /\ \A i \in ControlIds : w[i] = IF i = <<"tilt", "value">> THEN t ELSE moved[i]
      <4>1. moved \in Values /\ t \in 0 .. 1
        BY <1>4
      <4> HIDE DEF w
      <4> QED
        BY <4>1, WriteResult DEF w
    <3> QED
      BY <2>2, <3>1, <3>2
  <2> QED
    BY <2>1, <2>2
<1>7. wish' \in Wishes /\ \A i \in ControlIds : i[1] \notin {"pan", "tilt"} => wish'[i] = wish[i]
  BY <1>0, <1>3 DEF Wishes
<1>8. \A i \in ControlIds : i[1] \notin {"pan", "tilt"} => ctl'[i] = ctl[i]
  <2>1. \A i \in ControlIds : i[1] \notin {"pan", "tilt"} =>
          i # <<"pan", "value">> /\ i # <<"tilt", "value">>
    OBVIOUS
  <2> QED
    BY <1>4, <1>6, <2>1
<1>9. <<"pan", "value">> \in ControlIds /\ <<"tilt", "value">> \in ControlIds
  BY <1>1, IdsArePairs
<1>10. wish'[<<"pan", "value">>] \in {Unset, ctl'[<<"pan", "value">>]}
       /\ wish'[<<"tilt", "value">>] \in {Unset, ctl'[<<"tilt", "value">>]}
  BY <1>0, <1>4, <1>6, <1>9
<1> QED
  BY <1>0, <1>1, <1>2, <1>6, <1>7, <1>8, <1>10, TwoSet

\* A step that touches no control at all.
LEMMA NoneSet ==
  ASSUME ControlsBefore, UNCHANGED <<lib, using, dev, last, ctl, wish, lapse>>, using # {}
  PROVE  StepOn({})
  BY DEF StepOn, ControlsBefore, OnFormats

\* Every call about a control in the v4l2 backend.
LEMMA V4l2ControlCalls ==
  ASSUME ControlsBefore, ControlCalls PROVE s' = s /\ lib = "v4l2" /\ \E N : StepOn(N)
<1>1. ASSUME NEW v \in 0 .. 1, NEW name \in MuxOnly \cup MuxToo \cup {"brightness"}, SetControl(name, v)
      PROVE  s' = s /\ \E N : StepOn(N)
  BY <1>1, ControlSet
<1>2. ASSUME NEW v \in 0 .. 1, SetCrop(v) \/ SetPwrLineFreq(v) \/ SetPan(v) \/ SetTilt(v)
      PROVE  s' = s /\ \E N : StepOn(N)
  <2>1. PICK name \in {"crop", "pwr_line_freq", "pan", "tilt"} : SetWhole(name, v)
    BY <1>2 DEF SetCrop, SetPwrLineFreq, SetPan, SetTilt
  <2> QED
    BY <2>1, WholeSet
<1>3. ASSUME NEW v \in 0 .. 1, SetAudioBitrate(v) PROVE s' = s /\ \E N : StepOn(N)
  BY <1>3, AudioBitrateSet
<1>4. ASSUME NEW v \in 0 .. 1, NEW w \in 0 .. 1, SetPantilt(v, w) PROVE s' = s /\ \E N : StepOn(N)
  BY <1>4, PantiltSet
<1>5. ASSUME NEW name \in Pairs, Controlling(name), NEW v \in 0 .. 1, NEW w \in 0 .. 1,
             NEW b \in BOOLEAN, SetPair(name, v, w, b)
      PROVE  s' = s /\ \E N : StepOn(N)
  <2>1. name \in using \cap Pairs /\ UNCHANGED <<lib, using, s, dev>> /\ lib = "v4l2"
    BY <1>5 DEF Controlling
  <2>2. Addressed(name)
    BY <2>1, ControlIdResult DEF Addressed, MuxOnly, MuxToo, Pairs
  <2> QED
    BY <1>5, <2>1, <2>2, PairSet
<1>6. ASSUME NEW v \in 0 .. 1, NEW w \in 0 .. 1,
             SetWdr(v, w) \/ SetExp(v, w) \/ SetNf(v, w) \/ SetWb(v, w) \/ SetZoneWb(v, w)
      PROVE  s' = s /\ \E N : StepOn(N)
  <2>1. PICK name \in Pairs, b \in BOOLEAN : Controlling(name) /\ SetPair(name, v, w, b)
    BY <1>6 DEF SetWdr, SetExp, SetNf, SetWb, SetZoneWb, Pairs
  <2> QED
    BY <1>5, <2>1
<1>7. ASSUME NEW v \in 0 .. 1, NEW w \in 0 .. 1, SetZoneExp(v, w) PROVE s' = s /\ \E N : StepOn(N)
  <2>1. Controlling("zone_exp") /\ "zone_exp" \in Pairs
    BY <1>7 DEF SetZoneExp, Pairs
  <2>2. CASE SetPair("zone_exp", v, w, TRUE)
    BY <1>5, <2>1, <2>2
  <2>3. CASE UNCHANGED <<ctl, wish, last, lapse>>
    BY <2>1, <2>3, NoneSet DEF Controlling
  <2> QED
    BY <1>7, <2>2, <2>3 DEF SetZoneExp
<1>8. lib = "v4l2"
  BY DEF ControlCalls, SetControl, SetCrop, SetPwrLineFreq, SetPan, SetTilt, SetWhole, SetAudioBitrate,
         SetPantilt, SetWdr, SetExp, SetNf, SetWb, SetZoneWb, SetZoneExp, Controlling
<1> QED
  BY <1>1, <1>2, <1>3, <1>4, <1>6, <1>7, <1>8 DEF ControlCalls

\* Pan and tilt in the libusb backend: the one that the application does not
\* give comes from the cache, and so stays as it was.
LEMMA UsbPantiltSet ==
  ASSUME ControlsBefore, s \in UsbRecord, NEW name \in {"pan", "tilt", "pantilt"},
         NEW p \in 0 .. 1, NEW t \in 0 .. 1, UsbSetPantilt(name, p, t),
         name = "pan" => t = s.tilt, name = "tilt" => p = s.pan
  PROVE  /\ StepOn({"pan", "tilt"}) /\ PantiltCached'
         /\ s' \in {s, [s EXCEPT !.pan = p, !.tilt = t]}
<1> DEFINE moved == Write(ctl, "pan", p, "value")
           both == Write(moved, "tilt", t, "value")
           pan == <<"pan", "value">>
           tilt == <<"tilt", "value">>
           r == [s EXCEPT !.pan = p, !.tilt = t]
<1>0. PICK bad :
       LET ret == IF bad = {} THEN 0 ELSE -1
           value(i) == IF i = "pan" THEN p ELSE t IN
       /\ ctl' = IF bad = {} THEN both ELSE ctl
       /\ s' = IF bad = {} THEN r ELSE s
       /\ UNCHANGED last /\ UNCHANGED lapse
       /\ wish' = [i \in ControlIds |->
            IF i[1] \notin {"pan", "tilt"} \/ (name # "pantilt" /\ i[1] # name) THEN wish[i]
            ELSE IF ret = 0 THEN value(i[1]) ELSE Unset]
  BY DEF UsbSetPantilt
<1>1. lib = "libusb-uvc" /\ {"pan", "tilt"} \subseteq using /\ UNCHANGED <<lib, using, dev>>
  BY DEF UsbSetPantilt, UsbControl
<1>2. Addressed("pan") /\ Addressed("tilt")
  BY <1>1 DEF Addressed
<1>3. ctl \in Values /\ wish \in Wishes /\ pan \in ControlIds /\ tilt \in ControlIds
      /\ s.pan = ctl[pan] /\ s.tilt = ctl[tilt]
  BY <1>1, IdsArePairs DEF ControlsBefore, HonourInv, PantiltCached
<1>4. /\ moved \in Values
      /\ \A i \in ControlIds : moved[i] = IF i = pan THEN p ELSE ctl[i]
  <2>1. ctl \in Values /\ p \in 0 .. 1
    BY <1>3
  <2> HIDE DEF moved
  <2> QED
    BY <2>1, WriteResult DEF moved
<1>5. /\ both \in Values
      /\ \A i \in ControlIds : both[i] = IF i = tilt THEN t ELSE moved[i]
  <2>1. moved \in Values /\ t \in 0 .. 1
    BY <1>4
  <2> HIDE DEF moved, both
  <2> QED
    BY <2>1, WriteResult DEF both
<1>6. r.pan = p /\ r.tilt = t
  BY DEF UsbRecord
<1> HIDE DEF moved, both, r
<1>7. /\ ctl' \in Values
      /\ ctl'[pan] = s'.pan /\ ctl'[tilt] = s'.tilt
      /\ \A i \in ControlIds : i[1] \notin {"pan", "tilt"} => ctl'[i] = ctl[i]
  <2>1. pan # tilt /\ \A i \in ControlIds : i[1] \notin {"pan", "tilt"} => i # pan /\ i # tilt
    OBVIOUS
  <2>2. CASE bad # {}
    BY <1>0, <1>3, <2>2
  <2>3. CASE bad = {}
    BY <1>0, <1>3, <1>4, <1>5, <1>6, <2>1, <2>3
  <2> QED
    BY <2>2, <2>3
<1>8. wish' \in Wishes /\ \A i \in ControlIds : i[1] \notin {"pan", "tilt"} => wish'[i] = wish[i]
  BY <1>0, <1>3 DEF Wishes
<1>9. /\ "pan" \in lapse \/ wish[pan] \in {Unset, ctl[pan]}
      /\ "tilt" \in lapse \/ wish[tilt] \in {Unset, ctl[tilt]}
  BY <1>1, <1>3 DEF ControlsBefore, HonourInv, Honest, Shared
<1>10. PantiltCached' /\ UNCHANGED <<last, lapse>>
       /\ s' \in {s, [s EXCEPT !.pan = p, !.tilt = t]}
  BY <1>0, <1>7 DEF PantiltCached, r
<1>11. CASE bad # {}
  <2>1. ctl' = ctl /\ wish'[pan] \in {wish[pan], Unset} /\ wish'[tilt] \in {wish[tilt], Unset}
    BY <1>0, <1>3, <1>11
  <2>2. "pan" \in lapse \/ wish'[pan] \in {Unset, ctl'[pan]}
    BY <1>9, <2>1
  <2>3. "tilt" \in lapse \/ wish'[tilt] \in {Unset, ctl'[tilt]}
    BY <1>9, <2>1
  <2>4. StepOn({"pan", "tilt"})
    BY <1>1, <1>2, <1>7, <1>8, <1>10, <2>2, <2>3, TwoSet
  <2> QED
    BY <1>10, <2>4
<1>12. CASE bad = {}
  <2>1. ctl'[pan] = p /\ ctl'[tilt] = t
    BY <1>0, <1>6, <1>7, <1>12
  <2>2. wish'[pan] = (IF name = "tilt" THEN wish[pan] ELSE p)
        /\ wish'[tilt] = (IF name = "pan" THEN wish[tilt] ELSE t)
    BY <1>0, <1>3, <1>12
  <2>3. "pan" \in lapse \/ wish'[pan] \in {Unset, ctl'[pan]}
    BY <1>3, <1>9, <2>1, <2>2
  <2>4. "tilt" \in lapse \/ wish'[tilt] \in {Unset, ctl'[tilt]}
    BY <1>3, <1>9, <2>1, <2>2
  <2>5. StepOn({"pan", "tilt"})
    BY <1>1, <1>2, <1>7, <1>8, <1>10, <2>3, <2>4, TwoSet
  <2> QED
    BY <1>10, <2>5
<1> QED
  BY <1>11, <1>12

\* brightness and goplen.
LEMMA UsbOneSet ==
  ASSUME ControlsBefore, NEW name \in {"brightness", "goplen"}, NEW v, NEW allowed \in BOOLEAN,
         UsbSetOne(name, v, allowed), allowed => v \in 0 .. 1
  PROVE  StepOn({name}) /\ s' = s
<1>0. PICK bad :
       LET ok == allowed /\ name \in s.enabled /\ bad = {} IN
       /\ ctl' = IF ok THEN Write(ctl, name, v, "value") ELSE ctl
       /\ UNCHANGED last
       /\ Wished(IF ok THEN 0 ELSE -1, name, [value |-> v])
  BY DEF UsbSetOne
<1> DEFINE ok == allowed /\ name \in s.enabled /\ bad = {}
<1>1. lib = "libusb-uvc" /\ name \in using \ Pairs /\ name # "aac"
      /\ UNCHANGED <<lib, using, s, dev, lapse>>
  BY DEF UsbSetOne, UsbControl, Pairs
<1>2. Addressed(name)
  BY <1>1 DEF Addressed
<1>3. CASE ok
  <2>1. v \in 0 .. 1 /\ ctl' = Write(ctl, name, v, "value") /\ Wished(0, name, [value |-> v])
        /\ UNCHANGED last
    BY <1>0, <1>3
  <2> QED
    BY <1>1, <1>2, <2>1, OneSet
<1>4. CASE ~ok
  <2>1. ctl' = ctl /\ Wished(-1, name, [value |-> v]) /\ UNCHANGED last
    BY <1>0, <1>4
  <2>2. \A i \in ControlIds : wish'[i] = IF i[1] = name THEN Unset ELSE wish[i]
    BY <2>1 DEF Wished
  <2>3. wish' \in Wishes
    BY <2>1 DEF Wished, Wishes, ControlsBefore
  <2> QED
    BY <1>1, <2>1, <2>2, <2>3 DEF StepOn, ControlsBefore, OnFormats
<1> QED
  BY <1>3, <1>4

\* What a call about a control keeps, beside the settings it concerns.
UsbKeeps == s' = s \/ \E p, t \in 0 .. 1 : s' = [s EXCEPT !.pan = p, !.tilt = t]

\* Every call about a control in the libusb backend.
LEMMA UsbControlCallsKeep ==
  ASSUME ControlsBefore, s \in UsbRecord, UsbControlCalls
  PROVE  lib = "libusb-uvc" /\ UsbKeeps /\ PantiltCached' /\ \E N : StepOn(N)
<1>1. ASSUME NEW name \in {"pan", "tilt", "pantilt"}, NEW p \in 0 .. 1, NEW t \in 0 .. 1,
             UsbSetPantilt(name, p, t), name = "pan" => t = s.tilt, name = "tilt" => p = s.pan
      PROVE  UsbKeeps /\ PantiltCached' /\ \E N : StepOn(N)
  BY <1>1, UsbPantiltSet DEF UsbKeeps
<1>2. ASSUME NEW name \in {"wdr", "brightness", "goplen"}, StepOn({name}), s' = s
      PROVE  UsbKeeps /\ PantiltCached' /\ \E N : StepOn(N)
  <2>1. ASSUME lib' = "libusb-uvc", {"pan", "tilt"} \subseteq using'
        PROVE  ctl'[<<"pan", "value">>] = ctl[<<"pan", "value">>]
               /\ ctl'[<<"tilt", "value">>] = ctl[<<"tilt", "value">>]
               /\ lib = "libusb-uvc" /\ {"pan", "tilt"} \subseteq using
    <3>1. lib = "libusb-uvc" /\ {"pan", "tilt"} \subseteq using
      BY <1>2, <2>1 DEF StepOn
    <3>2. <<"pan", "value">> \in ControlIds /\ <<"tilt", "value">> \in ControlIds
      BY <3>1, IdsArePairs
    <3> QED
      BY <1>2, <3>1, <3>2 DEF StepOn, Shared
  <2> QED
    BY <1>2, <2>1 DEF PantiltCached, UsbKeeps, ControlsBefore, HonourInv
<1>3. ASSUME NEW v \in 0 .. 1, UsbSetPan(v) \/ UsbSetTilt(v)
      PROVE  UsbKeeps /\ PantiltCached' /\ \E N : StepOn(N)
  <2>1. s.pan \in 0 .. 1 /\ s.tilt \in 0 .. 1
    BY DEF UsbRecord
  <2> QED
    BY <1>1, <1>3, <2>1 DEF UsbSetPan, UsbSetTilt
<1>4. ASSUME NEW v \in 0 .. 1, UsbSetExt(v) \/ UsbSetStandard(2 * v)
      PROVE  UsbKeeps /\ PantiltCached' /\ \E N : StepOn(N)
  <2>1. CASE UsbSetExt(v)
    <3> DEFINE allowed == s.vfmt \in H264Formats
    <3>1. UsbSetOne("goplen", v, allowed) /\ allowed \in BOOLEAN
      BY <2>1 DEF UsbSetExt
    <3> HIDE DEF allowed
    <3>2. StepOn({"goplen"}) /\ s' = s
      BY <3>1, UsbOneSet
    <3> QED
      BY <1>2, <3>2
  <2>2. CASE UsbSetStandard(2 * v)
    <3> DEFINE w == 2 * v
               allowed == w \in 0 .. 1
    <3>1. UsbSetOne("brightness", w, allowed) /\ allowed \in BOOLEAN /\ (allowed => w \in 0 .. 1)
      BY <2>2 DEF UsbSetStandard
    <3> HIDE DEF w, allowed
    <3>2. StepOn({"brightness"}) /\ s' = s
      BY <3>1, UsbOneSet
    <3> QED
      BY <1>2, <3>2
  <2> QED
    BY <1>4, <2>1, <2>2
<1>5. ASSUME NEW v \in 0 .. 1, NEW w \in 0 .. 1, UsbSetWdr(v, w)
      PROVE  UsbKeeps /\ PantiltCached' /\ \E N : StepOn(N)
  <2>1. "wdr" \in using \cap Pairs /\ lib = "libusb-uvc" /\ UNCHANGED <<lib, using, dev, s>>
        /\ SetPair("wdr", v, w, TRUE)
    BY <1>5 DEF UsbSetWdr, UsbControl, Pairs
  <2>2. StepOn({"wdr"})
    BY <2>1, PairSet DEF Addressed
  <2> QED
    BY <1>2, <2>1, <2>2
<1>6. lib = "libusb-uvc"
  BY DEF UsbControlCalls, UsbSetPan, UsbSetTilt, UsbSetPantilt, UsbSetExt, UsbSetStandard, UsbSetOne,
         UsbSetWdr, UsbControl
<1> QED
  BY <1>1, <1>3, <1>4, <1>5, <1>6 DEF UsbControlCalls

(***************************************************************************)
(* The invariants together                                                 *)
(***************************************************************************)

AllInv == TypesOK /\ FormatInv /\ HonourInv

\* Under the v4l2 backend every mode of the channel starts with a record that
\* is the camera's, or with the lapse of an earlier program.
LEMMA V4l2Start ==
  ASSUME V4l2Init PROVE s \in V4l2Record /\ dev \in V4l2Camera /\ V4l2Inv
<1>0. PICK mode \in {"mux", "raw", "secs", "plain"}, p \in Offered, sz \in {"small", "hd"},
           on \in BOOLEAN, bad \in Failures({"size", "rate", "bitrate"}) :
    LET f == IF mode = "mux" THEN "MUX" ELSE VidFormat(p) IN
    /\ s = [vfmt |-> f, pix |-> Fourcc(f), big |-> sz = "hd", started |-> FALSE, aac |-> FALSE,
            ipcam |-> mode \in {"mux", "raw"}, secs |-> mode = "secs", secsOn |-> FALSE,
            size |-> IF "size" \in bad THEN "zero" ELSE sz,
            rate |-> IF "rate" \in bad THEN 0 ELSE 1,
            bitrate |-> IF f \in H264Formats /\ "bitrate" \notin bad THEN 1 ELSE 0]
    /\ dev = [pix |-> Fourcc(f), size |-> sz, aac |-> on, secs |-> "none", secsSize |-> sz,
              rate |-> 1, bitrate |-> 1]
    /\ lapse = IF on THEN {"aac"} ELSE {}
    /\ using # {} => sz = "hd" /\ p = "MJPEG_RAW" /\ bad = {} /\ ~on
  BY Zenon DEF V4l2Init, ChannelInit
<1> DEFINE f == IF mode = "mux" THEN "MUX" ELSE VidFormat(p)
<1>1. f \in AllFormats /\ Fourcc(f) \in Pixels
      /\ (mode # "mux" => Fourcc(f) = p /\ f = VidFormat(p)) /\ (mode = "mux" => f = "MUX")
  <2>1. VidFormat(p) \in AllFormats /\ Fourcc(VidFormat(p)) = p /\ "MUX" \in AllFormats
    BY FormatsOfPixels DEF AllFormats
  <2> QED
    BY <2>1, FormatsOfPixels
<1> HIDE DEF f
<1>2. /\ s.vfmt = f /\ s.pix = Fourcc(f) /\ s.aac = FALSE /\ s.secsOn = FALSE
      /\ s.ipcam = (mode \in {"mux", "raw"}) /\ s.secs = (mode = "secs")
  BY <1>0 DEF f
<1>3. dev.pix = Fourcc(f) /\ dev.aac = on /\ dev.secs = "none" /\ lapse = IF on THEN {"aac"} ELSE {}
  BY <1>0 DEF f
<1>4. dev \in V4l2Camera
  BY <1>0, <1>1 DEF V4l2Camera, Sizes, f
<1>5. s \in V4l2Record
  <2> DEFINE a == sz = "hd"
             b == mode \in {"mux", "raw"}
             c == mode = "secs"
             z == IF "size" \in bad THEN "zero" ELSE sz
             x == IF "rate" \in bad THEN 0 ELSE 1
             y == IF f \in H264Formats /\ "bitrate" \notin bad THEN 1 ELSE 0
  <2>1. s = [vfmt |-> f, pix |-> Fourcc(f), big |-> a, started |-> FALSE, aac |-> FALSE,
             ipcam |-> b, secs |-> c, secsOn |-> FALSE, size |-> z, rate |-> x, bitrate |-> y]
    BY <1>0 DEF f
  <2>2. a \in BOOLEAN /\ b \in BOOLEAN /\ c \in BOOLEAN /\ z \in Sizes /\ x \in 0 .. 1 /\ y \in 0 .. 1
    BY DEF Sizes
  <2> HIDE DEF a, b, c, x, y, z
  <2> QED
    BY <1>1, <2>1, <2>2 DEF V4l2Record, Pixels
<1>6. ~IsMux /\ ~on => Delivered(dev) = s.vfmt /\ s.pix = dev.pix /\ dev.pix \in Offered
  <2> SUFFICES ASSUME ~IsMux, ~on PROVE Delivered(dev) = f /\ Fourcc(f) \in Offered
    BY <1>2, <1>3
  <2>1. mode # "mux"
    BY <1>1, <1>2 DEF IsMux
  <2> QED
    BY <1>1, <1>3, <2>1 DEF Delivered, VidFormat
<1> QED
  BY <1>2, <1>3, <1>4, <1>5, <1>6 DEF V4l2Inv, AacKnown

\* Under the libusb backend the channel starts on a descriptor of the camera.
LEMMA UsbStartsTrue ==
  ASSUME UsbInit PROVE s \in UsbRecord /\ dev \in UsbCamera /\ UsbInv /\ s.pan = 0 /\ s.tilt = 0
<1>0. PICK p \in Offered, check \in BOOLEAN, on \in BOOLEAN, c \in UsbControlsInit :
    /\ s = [vfmt |-> IF p = "MPEG" THEN "H264_TS" ELSE p, desc |-> p, quirk |-> FALSE,
            frame |-> IF p = "MPEG" THEN "none" ELSE p, interval |-> 1,
            started |-> FALSE, aac |-> FALSE, continuity |-> check,
            enabled |-> c.enabled, pan |-> c.pan, tilt |-> c.tilt]
    /\ dev = [pix |-> p, aac |-> on, frame |-> "none", interval |-> 1]
    /\ lapse = IF on THEN {"aac"} ELSE {}
    /\ using # {} => p \in {"MJPEG_RAW", "H264_RAW"} /\ ~check /\ ~on
  BY Zenon DEF UsbInit, UsbChannelInit
<1>1. c.enabled \in SUBSET using /\ c.pan = 0 /\ c.tilt = 0
  BY DEF UsbControlsInit
<1> DEFINE f == IF p = "MPEG" THEN "H264_TS" ELSE p
           g == IF p = "MPEG" THEN "none" ELSE p
<1>2. f \in AllFormats /\ g \in Offered \cup {"none"}
  BY SettingsAssumption DEF SettingsAssumption, AllFormats, TsFormats
<1>3. s = [vfmt |-> f, desc |-> p, quirk |-> FALSE, frame |-> g, interval |-> 1,
           started |-> FALSE, aac |-> FALSE, continuity |-> check,
           enabled |-> c.enabled, pan |-> 0, tilt |-> 0]
  BY <1>0, <1>1
<1>4. s.vfmt = f /\ s.desc = p /\ s.quirk = FALSE /\ s.aac = FALSE /\ s.started = FALSE
      /\ s.pan = 0 /\ s.tilt = 0
  BY <1>3
<1>5. RecordAgrees
  BY <1>4 DEF RecordAgrees
<1> HIDE DEF f, g
<1>6. s \in UsbRecord
  BY <1>1, <1>2, <1>3 DEF UsbRecord
<1>7. dev \in UsbCamera /\ (lapse = {} => dev.aac = FALSE) /\ ("aac" \notin lapse => dev.aac = FALSE)
  BY <1>0 DEF UsbCamera
<1> QED
  BY <1>4, <1>5, <1>6, <1>7 DEF UsbInv, AacKnown

\* Under either backend the invariants hold at first.
LEMMA AllInit == Init => AllInv
<1> SUFFICES ASSUME Init PROVE AllInv
  OBVIOUS
<1>1. ctl \in Values /\ wish \in Wishes /\ LastOK
      /\ \A i \in ControlIds : ctl[i] = 0 /\ wish[i] = Unset
  BY DEF Init, ControlsInit, Values, Wishes, LastOK
<1>2. CASE V4l2Init
  <2>1. lib = "v4l2" /\ s \in V4l2Record /\ dev \in V4l2Camera /\ V4l2Inv
    BY <1>2, V4l2Start DEF V4l2Init, Init, ControlIds
  <2> QED
    BY <1>1, <2>1
    DEF AllInv, TypesOK, Values, Wishes, FormatInv, HonourInv, Honest, PantiltCached
<1>3. CASE UsbInit
  <2>1. lib = "libusb-uvc" /\ s \in UsbRecord /\ dev \in UsbCamera /\ UsbInv /\ s.pan = 0 /\ s.tilt = 0
    BY <1>3, UsbStartsTrue DEF UsbInit
  <2>2. PantiltCached
    BY <1>1, <2>1, IdsArePairs DEF PantiltCached
  <2> QED
    BY <1>1, <2>1, <2>2 DEF AllInv, TypesOK, Values, Wishes, FormatInv, HonourInv, Honest
<1> QED
  BY <1>2, <1>3 DEF Init

\* A step that concerns some settings only keeps the others as they were.
LEMMA HonourStep ==
  ASSUME ControlsBefore, NEW N, StepOn(N), PantiltCached', s' = s \/ lib = "libusb-uvc"
  PROVE  HonourInv'
<1>1. ControlIds' = ControlIds /\ lib' = lib
  BY DEF StepOn, ControlIds
<1>2. ASSUME NEW n PROVE (Shared(n)' <=> Shared(n)) /\ (Addressed(n)' <=> Addressed(n))
  <2>1. CASE s' = s
    BY <1>1, <2>1 DEF Shared, Addressed, ControlId, MuxId, IsMux
  <2>2. CASE lib = "libusb-uvc"
    BY <1>1, <2>2 DEF Shared, Addressed
  <2> QED
    BY <2>1, <2>2
<1>3. ASSUME NEW i \in ControlIds, wish'[i] # Unset, i[1] \notin lapse', ~Shared(i[1])'
      PROVE  ctl'[i] = wish'[i] /\ Addressed(i[1])'
  <2>1. ~Shared(i[1])
    BY <1>2, <1>3
  <2>2. CASE i[1] \in N
    BY <1>2, <1>3, <2>1, <2>2 DEF StepOn
  <2>3. CASE i[1] \notin N
    <3>1. wish'[i] = wish[i] /\ ctl'[i] = ctl[i] /\ i[1] \notin lapse
      BY <1>3, <2>1, <2>3 DEF StepOn
    <3>2. ctl[i] = wish[i] /\ Addressed(i[1])
      BY <1>3, <2>1, <3>1 DEF ControlsBefore, HonourInv, Honest
    <3> QED
      BY <1>2, <3>1, <3>2
  <2> QED
    BY <2>2, <2>3
<1>4. \A i \in ControlIds : Honest(i)'
  BY <1>3 DEF Honest
<1> QED
  BY <1>1, <1>4 DEF HonourInv

\* Without controls in use there are none to honour.
LEMMA FormatsHonour ==
  ASSUME OnFormats, UNCHANGED <<lib, using>> PROVE HonourInv'
  BY DEF OnFormats, HonourInv, ControlIds, PantiltCached

\* Every call keeps the invariants, and a running stream.
LEMMA AllNext ==
  ASSUME AllInv, Next PROVE AllInv' /\ KeptStep
<1>0. ControlsBefore /\ LastOK
  BY DEF AllInv, TypesOK, ControlsBefore, Values, Wishes
<1>1. CASE FormatCalls
  <2>1. lib = "v4l2" /\ OnFormats /\ UNCHANGED <<lib, using, ctl, wish>>
    BY <1>1 DEF FormatCalls, SetFormat, StartStream, StopStream, SetResolution, GetResolution,
                SetFramerate, SetBitrate, SetRate, GetFramerate, GetBitrate, GetRate
  <2>2. V4l2After
    BY <1>0, <1>1, <2>1, V4l2FormatCalls DEF AllInv, TypesOK, FormatInv, V4l2Before
  <2>3. HonourInv' /\ ControlIds' = ControlIds
    BY <2>1, FormatsHonour DEF ControlIds
  <2> QED
    BY <1>0, <2>1, <2>2, <2>3
    DEF AllInv, TypesOK, FormatInv, V4l2After, ControlsBefore, Values, Wishes
<1>2. CASE UsbFormatCalls
  <2>1. lib = "libusb-uvc" /\ OnFormats /\ UNCHANGED <<lib, using, ctl, wish>>
    BY <1>2 DEF UsbFormatCalls, UsbSetFormat, UsbStart, UsbStop, UsbSetResolution, UsbSetFramerate, UsbCall
  <2>2. UsbAfter
    BY <1>0, <1>2, <2>1, UsbFormatCallsKeep DEF AllInv, TypesOK, FormatInv, UsbBefore
  <2>3. HonourInv' /\ ControlIds' = ControlIds /\ UsbRecord' = UsbRecord
    BY <2>1, FormatsHonour DEF ControlIds, UsbRecord
  <2> QED
    BY <1>0, <2>1, <2>2, <2>3
    DEF AllInv, TypesOK, FormatInv, UsbAfter, ControlsBefore, Values, Wishes
<1>3. CASE ControlCalls
  <2>1. PICK N : s' = s /\ lib = "v4l2" /\ StepOn(N)
    BY <1>0, <1>3, V4l2ControlCalls
  <2>2. UNCHANGED <<lib, using, dev, last>> /\ ctl' \in Values /\ wish' \in Wishes
        /\ ("aac" \in lapse' <=> "aac" \in lapse) /\ ~OnFormats /\ ControlIds' = ControlIds
    BY <2>1 DEF StepOn, ControlIds
  <2>3. V4l2Inv'
    BY <2>1, <2>2 DEF AllInv, FormatInv, V4l2Inv, AacKnown, OnFormats
  <2>4. HonourInv'
    BY <1>0, <2>1, <2>2, HonourStep DEF PantiltCached
  <2> QED
    BY <1>0, <2>1, <2>2, <2>3, <2>4
    DEF AllInv, TypesOK, FormatInv, KeptStep, LastOK, Values, Wishes
<1>4. CASE UsbControlCalls
  <2>0. s \in UsbRecord \/ lib = "v4l2"
    BY DEF AllInv, TypesOK
  <2>a. lib = "libusb-uvc"
    BY <1>4 DEF UsbControlCalls, UsbSetPan, UsbSetTilt, UsbSetPantilt, UsbSetExt, UsbSetStandard,
                UsbSetOne, UsbSetWdr, UsbControl
  <2>1. PICK N : UsbKeeps /\ PantiltCached' /\ StepOn(N)
    BY <1>0, <1>4, <2>0, <2>a, UsbControlCallsKeep
  <2>2. UNCHANGED <<lib, using, dev, last>> /\ ctl' \in Values /\ wish' \in Wishes
        /\ ("aac" \in lapse' <=> "aac" \in lapse) /\ ~OnFormats /\ ControlIds' = ControlIds
        /\ UsbRecord' = UsbRecord
    BY <2>1 DEF StepOn, ControlIds, UsbRecord
  <2>3. s' \in UsbRecord /\ s'.quirk = s.quirk /\ s'.continuity = s.continuity /\ s'.aac = s.aac
        /\ s'.started = s.started
    <3>1. ASSUME NEW p \in 0 .. 1, NEW t \in 0 .. 1, s' = [s EXCEPT !.pan = p, !.tilt = t]
          PROVE  s' \in UsbRecord /\ s'.quirk = s.quirk /\ s'.continuity = s.continuity
                 /\ s'.aac = s.aac /\ s'.started = s.started
      BY <2>0, <2>a, <3>1 DEF UsbRecord
    <3> QED
      BY <2>0, <2>a, <2>1, <3>1 DEF UsbKeeps
  <2>4. UsbInv'
    BY <2>a, <2>2, <2>3 DEF AllInv, FormatInv, UsbInv, AacKnown, OnFormats
  <2>5. HonourInv'
    BY <1>0, <2>a, <2>1, HonourStep
  <2> QED
    BY <1>0, <2>a, <2>2, <2>3, <2>4, <2>5
    DEF AllInv, TypesOK, FormatInv, KeptStep, LastOK, Values, Wishes
<1> QED
  BY <1>1, <1>2, <1>3, <1>4 DEF Next, V4l2Next, UsbNext

\* The invariants depend on the state alone.
LEMMA AllStutter ==
  ASSUME AllInv, UNCHANGED settingsVars PROVE AllInv'
<1>1. UNCHANGED <<lib, using, s, dev, ctl, wish, last, lapse>>
  BY DEF settingsVars
<1>2. ControlIds' = ControlIds /\ UsbRecord' = UsbRecord
  BY <1>1 DEF ControlIds, UsbRecord
<1>3. TypesOK'
  BY <1>1, <1>2 DEF AllInv, TypesOK, LastOK
<1>4. FormatInv'
  BY <1>1 DEF AllInv, FormatInv, V4l2Inv, UsbInv, AacKnown, OnFormats, IsMux, ProbeAgrees, RecordAgrees
<1>5. HonourInv'
  BY <1>1, <1>2 DEF AllInv, HonourInv, Honest, PantiltCached, Shared, Addressed, IsMux, ControlId, MuxId
<1> QED
  BY <1>3, <1>4, <1>5 DEF AllInv

\* The invariants hold together in every behaviour.
LEMMA AllHolds == Spec => []AllInv
  BY AllInit, AllNext, AllStutter, PTL DEF Spec

(***************************************************************************)
(* What the settings promise                                               *)
(***************************************************************************)

\* No sequence of calls, some of which fail, brings a size, a format or a rate
\* into a record that the descriptors and the other fields do not have
\* (v4l2/uvc.c and libusb-uvc/uvc.c, set_format, set_resolution, set_framerate).
THEOREM SettingsTypeCorrect == Spec => []SettingsTypeOK
<1>1. AllInv => SettingsTypeOK
  BY DEF AllInv, TypesOK, LastOK, SettingsTypeOK
<1> QED
  BY <1>1, AllHolds, PTL

\* get_format reports what the camera delivers until one of the lapses, for
\* every set of formats that a camera offers, and in SECS mode the next probe
\* offers the committed size and rates (v4l2/uvc.c:2080-2240, libusb-uvc/uvc.c).
THEOREM FormatStaysTrue == Spec => []FormatTrue
<1>1. ASSUME AllInv, lib = "v4l2", lapse = {}, OnFormats
      PROVE  /\ Delivered(dev) = GetFormat
             /\ s.secsOn /\ dev.secs # "none" =>
                  s.size = dev.secsSize /\ s.rate = dev.rate /\ s.bitrate = dev.bitrate
  <2>1. V4l2Inv /\ (s.secsOn => ~IsMux)
    BY <1>1 DEF AllInv, FormatInv, V4l2Inv, IsMux
  <2> QED
    BY <1>1, <2>1 DEF V4l2Inv, GetFormat, ProbeAgrees
<1>2. ASSUME AllInv, lib = "libusb-uvc", lapse = {}, OnFormats, s.started
      PROVE  UsbDelivered = UsbGetFormat
  <2>1. RecordAgrees /\ dev.pix = s.desc /\ s.aac = dev.aac /\ s.desc \in Offered
    BY <1>2 DEF AllInv, FormatInv, UsbInv, AacKnown, TypesOK, UsbRecord
  <2>2. s.desc # "MPEG" => s.desc \notin TsFormats
    BY <2>1, SettingsAssumption DEF SettingsAssumption
  <2> QED
    BY <2>1, <2>2 DEF RecordAgrees, UsbDelivered, UsbGetFormat
<1>3. AllInv => FormatTrue
  BY <1>1, <1>2 DEF AllInv, TypesOK, FormatTrue
<1> QED
  BY <1>3, AllHolds, PTL

\* A call that changes a running stream starts it again on every path, unless
\* a request to stop or to start it (or, with libusb, to switch AAC muxing)
\* failed, and then says so, set_resolution excepted.
THEOREM StreamIsKept == Spec => StreamingKept
<1>1. AllInv /\ [Next]_settingsVars => [KeptStep]_settingsVars
  BY AllNext
<1>2. [][KeptStep]_settingsVars => StreamingKept
  BY PTL DEF KeptStep, StreamingKept
<1> QED
  BY <1>1, <1>2, AllHolds, PTL DEF Spec

\* What a call set and reported as set is what the matching get call reports,
\* whichever other settings were set, or failed to be, since; three exceptions
\* of the code apart (v4l2/uvc.c, DECLARE_SET and the calls with two requests).
THEOREM CallsAreHonoured == Spec => []Honoured
<1>1. ASSUME AllInv, NEW i \in ControlIds, wish[i] # Unset, i[1] \notin lapse
      PROVE  \/ Reported(i) \in {wish[i], Unset}
             \/ lib = "v4l2" /\ i[1] = "tilt"
             \/ lib = "v4l2" /\ IsMux /\ i[1] \in {"vui", "pict_timing"}
  <2> SUFFICES ASSUME ~(lib = "v4l2" /\ i[1] = "tilt"), ~Shared(i[1])
               PROVE  Reported(i) \in {wish[i], Unset}
    BY DEF Shared
  <2>1. ctl[i] = wish[i] /\ Addressed(i[1])
    BY <1>1 DEF AllInv, HonourInv, Honest
  <2>2. i = <<i[1], i[2]>> /\ i[2] \in {"on", "value"} /\ (i[2] = "on" => i[1] \in Pairs)
    BY IdsArePairs
  <2>3. CASE i[1] \in Pairs /\ lib = "v4l2"
    <3>1. Reported(i) = GetPair(i[1])[IF i[2] = "on" THEN 1 ELSE 2]
      BY <2>3 DEF Reported
    <3>2. \E r \in {<<ctl[<<i[1], "on">>], ctl[<<i[1], "value">>]>>, <<ctl[<<i[1], "on">>], Unset>>,
                    <<Unset, Unset>>} : GetPair(i[1]) = r
      BY <2>3 DEF GetPair, Pairs, GetWdr, GetExp, GetNf, GetWb, GetZoneWb, GetZoneExp, Get
    <3>3. CASE i[2] = "on"
      <4>1. i = <<i[1], "on">>
        BY <2>2, <3>3
      <4> QED
        BY <2>1, <3>1, <3>2, <3>3, <4>1
    <3>4. CASE i[2] = "value"
      <4>1. i = <<i[1], "value">>
        BY <2>2, <3>4
      <4> QED
        BY <2>1, <3>1, <3>2, <3>4, <4>1
    <3> QED
      BY <2>2, <3>3, <3>4
  <2>4. CASE i[1] \in Pairs /\ lib # "v4l2"
    <3>1. i[1] = "wdr"
      BY <2>1, <2>4 DEF Addressed, Pairs
    <3>2. Reported(i) = (IF i[2] = "on" THEN ctl[<<"wdr", "on">>] ELSE ctl[<<"wdr", "value">>])
      BY <2>4 DEF Reported, UsbGetWdr
    <3>3. i = <<"wdr", i[2]>>
      BY <2>2, <3>1
    <3> QED
      BY <2>1, <2>2, <3>2, <3>3
  <2>5. CASE i[1] \notin Pairs
    <3>1. i = <<i[1], "value">>
      BY <2>2, <2>5
    <3>2. CASE lib = "v4l2"
      <4>1. Reported(i) = ctl[<<i[1], "value">>] \/ Reported(i) = Unset
        BY <2>1, <2>5, <3>1, <3>2
        DEF Reported, GetPan, GetCrop, GetPwrLineFreq, GetAudioBitrate, GetControl, Addressed
      <4> QED
        BY <2>1, <3>1, <4>1
    <3>3. CASE lib # "v4l2"
      <4>1. Reported(i) = ctl[<<i[1], "value">>] \/ Reported(i) = Unset
        BY <2>1, <2>5, <3>1, <3>3
        DEF Reported, UsbGetPantilt, UsbGetStandard, UsbGetExt, Addressed, Pairs
      <4> QED
        BY <2>1, <3>1, <4>1
    <3> QED
      BY <3>2, <3>3
  <2> QED
    BY <2>3, <2>4, <2>5
<1>2. AllInv => Honoured
  BY <1>1 DEF Honoured
<1> QED
  BY <1>2, AllHolds, PTL
=============================================================================
