\* A message of the page against three bytes of video, with connections
\* that are full after one and two bytes.
CONSTANTS
  None = None
  MessageSize = 2
  UpSize = 1
  DownSize = 2
  MaxSends = 1
  MaxText = 4
  MaxVideo = 3
  VideoKinds = {"pixels", "broken", "key", "seize"}
SPECIFICATION Spec
INVARIANTS
  ChannelTypeOK
  InStep
  DecryptInStep
PROPERTIES
  SendsEnd
  ReceiverFinishes
CHECK_DEADLOCK FALSE
