--------------------------- MODULE MCUsbStreaming ---------------------------
EXTENDS UsbStreaming

Backends == {"video", "audio"}
TwoAndOne == [u \in Backends |-> IF u = "video" THEN 2 ELSE 1]
=============================================================================
