---------------------------- MODULE VideoSettings ----------------------------
(***************************************************************************)
(* One channel under either backend, and what its settings promise.        *)
(***************************************************************************)
EXTENDS V4l2Settings, UsbSettings

Init ==
  /\ using \in Groups \cup {{}} /\ ControlsInit
  /\ V4l2Init \/ UsbInit
Next == V4l2Next \/ UsbNext
Spec == Init /\ [][Next]_settingsVars
-----------------------------------------------------------------------------
Sizes == {"small", "hd", "zero"}
V4l2Record ==
  [vfmt : AllFormats, pix : Offered \cup {Fourcc(f) : f \in AllFormats}, big : BOOLEAN,
   started : BOOLEAN, aac : BOOLEAN, ipcam : BOOLEAN, secs : BOOLEAN, secsOn : BOOLEAN,
   size : Sizes, rate : 0 .. 1, bitrate : 0 .. 1]
UsbRecord ==
  [vfmt : AllFormats, desc : Offered, quirk : BOOLEAN, frame : Offered \cup {"none"},
   interval : 0 .. 1, started : BOOLEAN, aac : BOOLEAN, continuity : BOOLEAN,
   enabled : SUBSET using, pan : 0 .. 1, tilt : 0 .. 1]

\* The records keep their shape: no call stores a size, a format or a rate
\* that the other fields and the camera's descriptors do not have.
SettingsTypeOK ==
  /\ s \in IF lib = "v4l2" THEN V4l2Record ELSE UsbRecord
  /\ ctl \in [ControlIds -> 0 .. 1]
  /\ wish \in [ControlIds -> {0, 1, Unset}]
  /\ last.ret \in {0, -1} /\ last.failed \subseteq {"stop", "start", "aac"}

\* The format that get_format reports is the one that the camera delivers,
\* also after any sequence of calls of which some failed, until one of the
\* lapses that the code has: a set_format that returned -1 half way, a format
\* that the driver replaced and set_format did not look at, a SECS size set
\* under a format that has no SECS type, AAC muxing left on by an earlier
\* program, and quirk_demuxts left set. In SECS mode the cached size, rate and
\* bit rate, which the next probe offers, are the committed ones unless a call
\* that is no probe has changed them.
FormatTrue ==
  lapse = {} /\ OnFormats =>
    IF lib = "v4l2"
      THEN /\ Delivered(dev) = GetFormat
           /\ s.secsOn /\ dev.secs # "none" =>
                s.size = dev.secsSize /\ s.rate = dev.rate /\ s.bitrate = dev.bitrate
      ELSE s.started => UsbDelivered = UsbGetFormat

\* A call that changes the format or the size of a running stream leaves it
\* running, on its error paths too, unless stopping or starting it failed; in
\* the libusb backend also when AAC muxing could not be switched. There a stream
\* whose transfers could not be submitted still counts as started.
StreamingKept ==
  [][ s.started /\ ~s'.started /\ last'.call # "stop" =>
        /\ last'.failed \cap (IF lib = "v4l2" THEN {"stop", "start"}
                               ELSE {"stop", "start", "aac"}) # {}
        /\ last'.ret = -1 \/ last'.call = "set_resolution" ]_settingsVars

Reported(i) ==
  LET name == i[1] IN
  IF name \in Pairs THEN (IF lib = "v4l2" THEN GetPair(name) ELSE UsbGetWdr)[IF i[2] = "on" THEN 1 ELSE 2]
  ELSE IF lib = "v4l2" THEN
    CASE name = "pan" -> GetPan [] name = "tilt" -> GetTilt
      [] name = "crop" -> GetCrop [] name = "pwr_line_freq" -> GetPwrLineFreq
      [] name = "audio_bitrate" -> GetAudioBitrate [] OTHER -> GetControl(name)
  ELSE CASE name = "pan" -> UsbGetPantilt[1] [] name = "tilt" -> UsbGetPantilt[2]
         [] name = "brightness" -> UsbGetStandard [] name = "goplen" -> UsbGetExt
         [] OTHER -> ctl[i]

\* What a call set and reported as set is what the matching get call reports,
\* whatever other settings were set or failed to be set since: no setting
\* touches another one. The code has three exceptions: get_tilt of v4l2 reads
\* the pan, pict_timing and vui are one control of a mux channel, and a mux
\* channel returns 0 for a control that it could not set.
Honoured ==
  \A i \in ControlIds :
    wish[i] # Unset /\ i[1] \notin lapse =>
      \/ Reported(i) \in {wish[i], Unset}
      \/ lib = "v4l2" /\ i[1] = "tilt"
      \/ lib = "v4l2" /\ IsMux /\ i[1] \in {"vui", "pict_timing"}
=============================================================================
