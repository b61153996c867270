CONSTANT Digits = {"7", "8", "max", "huge"}
CONSTANT Strays = {"eacute", "/", "!"}
CONSTANT Wide = {"eacute"}
CONSTANT MaxRawDepth = 3
CONSTANT OutOfRange <- MCOutOfRange
CONSTANT Sources <- MCSources
SPECIFICATION Spec
INVARIANT TypeOK
INVARIANT ItemsLocated
INVARIANT AcceptedIffWellFormed
INVARIANT ParsedAsWritten
PROPERTY Terminates
CHECK_DEADLOCK FALSE
