----------------------------- MODULE MCUsbInput -----------------------------
EXTENDS UsbInput

Units == <<Unit("camera", 1), Unit("processing", 2), Unit("extension", 3), Unit("extension", 4)>>
Ts == <<Format("mpeg2ts", 1, 0)>>
H264(n) == <<Format("frame_based", 2, n)>>
Mjpeg == <<Format("mjpeg", 3, 1), Frame("mjpeg", 1, List(6))>>
HFrame(n, i) == <<Frame("frame_based", n, i)>>

\* Tables of formats: two or three in either order, with lists and ranges of
\* intervals, ends exchanged, a list too long; a frame too many, a format too
\* many, a length of zero.
Tables == {
  <<Vs(1, 1)>> \o Ts,
  <<Vs(1, 2)>> \o Ts \o H264(2) \o HFrame(1, List(2)) \o HFrame(2, Span(3, 9)),
  <<Vs(1, 3)>> \o H264(2) \o HFrame(1, Span(9, 3)) \o HFrame(2, List(6)) \o Ts \o Mjpeg,
  <<Vs(1, 2)>> \o Mjpeg \o <<Plain("unknown")>> \o H264(1) \o HFrame(1, List(1)),
  <<Vs(1, 2)>> \o Mjpeg \o <<Plain("zero")>> \o H264(1) \o HFrame(1, List(1)),
  <<Vs(1, 1)>> \o Ts \o Mjpeg,
  <<Vs(1, 2)>> \o Mjpeg \o Ts \o HFrame(1, List(1)) }

Ends == {<<Endpoint(TRUE, 1)>>, <<Endpoint(TRUE, 2)>>, <<Alt(1, 1), Alt(3, 1)>>, <<Alt(1, 1), Alt(3, 2)>>}

Audio == <<Ac(8), Input(2), Unit("feature", 5),
           As(0, 0), As(1, 16), As(2, 24)>>

One == {<<Vc(0)>> \o Units \o t \o e : t \in Tables, e \in Ends}
Second == {<<>>, <<Vc(2), Plain("zero")>> \o Units \o <<Vs(3, 1)>> \o Mjpeg \o <<Alt(7, 1)>>}
Third == <<Vc(4), Vs(5, 1)>> \o Ts

Straight(t, e) == <<Vc(0)>> \o t \o e
MCPlayers == {
  Straight(<<Vs(1, 1)>> \o Ts, <<Alt(1, 1)>>),
  Straight(<<Vs(1, 1)>> \o Ts, <<Endpoint(TRUE, 1)>>),
  Straight(<<Vs(1, 1)>> \o Mjpeg, <<Alt(1, 1)>>),
  Straight(<<Vs(1, 1)>> \o Mjpeg, <<Endpoint(TRUE, 1)>>) }

MCDevices == {f \o s \o Audio : f \in One, s \in Second}
               \cup {Straight(<<Vs(1, 1)>> \o Ts, Third), Straight(<<Vs(1, 1)>> \o Ts, Third \o Third)}
               \cup MCPlayers
=============================================================================
