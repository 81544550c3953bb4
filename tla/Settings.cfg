SPECIFICATION Spec
CONSTANTS
  Formats = {"H264_RAW", "H264_TS", "H264_AAC_TS", "MJPEG_RAW", "GREY_RAW"}
  Offered = {"H264_RAW", "MPEG", "MJPEG_RAW"}
  Groups = {{"zoom", "vui", "pict_timing"}, {"profile", "audio_bitrate", "goplen"}, {"exp", "zone_exp"}, {"wb", "zone_wb"}, {"wdr", "nf"}, {"pan", "tilt"}, {"crop", "pwr_line_freq", "brightness"}}
  MaxFaults = 1
  Channel = 6
INVARIANT SettingsTypeOK
INVARIANT FormatTrue
INVARIANT Honoured
PROPERTY StreamingKept
CHECK_DEADLOCK FALSE
