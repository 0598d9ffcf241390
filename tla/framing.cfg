\* Replies that are chunked, in either spelling, or have a length in any line, in
\* pieces of any size.
CONSTANTS
  Replies <- MCReplies
  Quiet = 2
  Timeout = 3
SPECIFICATION Spec
INVARIANTS
  FramingTypeOK
  EndsWhole
  NoIdling
  BodyIsPayload
CHECK_DEADLOCK FALSE
