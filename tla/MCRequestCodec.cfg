SPECIFICATION CodecSpec
CONSTANTS
  Byte <- Bytes
  LEN_FIELD_SIZE = 2
  FieldValue <- LittleEndian
  FieldBytes <- BytesOf
  Width <- WidthOfField
  MAX_CMD_ARGS = 2
  MAX_MSG_FIELD_SIZE = 9
  Messages <- ShortCommands
  Bodies <- UpToEight
INVARIANTS InBounds DecidesFormat WritesFit Faithful
PROPERTY Executed
CHECK_DEADLOCK FALSE
