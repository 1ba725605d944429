\* A multi-chunk paste followed by a single-chunk PDU of a type send_to_vnc
\* does not handle: is the PDU ignored, as spec.md 4.6 says?
CONSTANTS
  Symbols = {"a", "b"}
  MaxText = 4
  MaxClip = 2
  ChunkLen = 2
  AccCap = 3
  MaxEvents = 4
SPECIFICATION Spec
PROPERTY UnhandledPduIgnored
CHECK_DEADLOCK FALSE
