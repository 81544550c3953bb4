--------------------------- MODULE ChannelSettings ---------------------------
(***************************************************************************)
(* The settings of one video channel: what the library caches about the    *)
(* camera, what the camera does, and the last call of the application. The *)
(* two backends are V4l2Settings and UsbSettings. A call is one step: no   *)
(* other thread writes these settings.                                     *)
(***************************************************************************)
EXTENDS Integers, FiniteSets

CONSTANTS
  Formats,     \* the formats that an application asks for
  Offered,     \* the pixel formats that the camera has
  Groups,      \* sets of controls; an application uses those of one set, or
               \* the calls about the format, which share no state with them
  MaxFaults    \* how many requests may fail in one call, its last start aside

VARIABLES
  lib,    \* the backend that was compiled in: "v4l2" or "libusb-uvc"
  using,  \* the set of controls in use; {} when the format is
  s,      \* the library's record of the channel
  dev,    \* the camera: format, size, AAC muxing, rate and bit rate
  ctl,    \* the value of each camera control
  wish,   \* the value that a successful call last gave to each setting, or Unset
  last,   \* the last call that may stop the stream: name, result, and what failed of
          \* stop, start and AAC muxing
  lapse   \* what may now keep the camera from delivering the cached format

settingsVars == <<lib, using, s, dev, ctl, wish, last, lapse>>

AllFormats == {"H264_RAW", "H264_TS", "H264_AAC_TS", "MJPEG_RAW", "YUY2_RAW",
               "NV12_RAW", "GREY_RAW", "MUX"}
TsFormats == {"H264_TS", "H264_AAC_TS"}
ASSUME SettingsAssumption ==
  /\ Formats \subseteq AllFormats \ {"MUX"} /\ MaxFaults \in Nat
  /\ "MJPEG_RAW" \in Offered /\ Offered \subseteq (AllFormats \ TsFormats) \cup {"MPEG"}

Unset == -1
H264Formats == TsFormats \cup {"H264_RAW"}

OnFormats == using = {}

\* The failing requests of a call, out of those the call may make; the start
\* that ends a call may fail after any of them.
Failures(requests) == {bad \in SUBSET requests : Cardinality(bad \ {"start"}) <= MaxFaults}

Return(call, ret, bad) ==
  last' = [call |-> call, ret |-> ret, failed |-> bad \cap {"stop", "start", "aac"}]

-----------------------------------------------------------------------------
(* Controls. A control of the camera is <<name, part>>, and so is a setting *)
(* of the application.                                                      *)

Pairs == {"wdr", "exp", "zone_exp", "nf", "wb", "zone_wb"}
ControlIds == (using \X {"value"}) \cup ((using \cap Pairs) \X {"on"})

\* The request for one control: it fails without such a control, and may fail.
Write(c, id, v, part) == IF <<id, part>> \in ControlIds THEN [c EXCEPT ![<<id, part>>] = v] ELSE c
Fails(id, req, bad) == id = "?" \/ req \in bad

\* A call that returns 0 is what the application then counts on; after -1 it
\* counts on nothing of that setting.
Wished(ret, name, vals) ==
  wish' = [i \in ControlIds |->
    IF i[1] # name THEN wish[i]
    ELSE IF ret = 0 THEN (IF i[2] \in DOMAIN vals THEN vals[i[2]] ELSE wish[i])
    ELSE Unset]

\* A control with a mode and a value: the mode goes first, and a failure of
\* the second request leaves it changed.
SetPair(name, on, v, withValue) ==
  \E bad \in Failures({"on", "value"}) :
    LET ret == IF bad = {} THEN 0 ELSE -1
        switched == IF "on" \in bad THEN ctl ELSE Write(ctl, name, on, "on")
    IN /\ "value" \in bad => withValue
       /\ ctl' = IF bad = {} /\ withValue THEN Write(switched, name, v, "value") ELSE switched
       /\ UNCHANGED <<last, lapse>>
       /\ Wished(ret, name, IF withValue THEN [on |-> on, value |-> v] ELSE [on |-> on])

ControlsInit ==
  /\ ctl = [i \in ControlIds |-> 0]
  /\ wish = [i \in ControlIds |-> Unset]
  /\ last = [call |-> "init", ret |-> 0, failed |-> {}]
=============================================================================
