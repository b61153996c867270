CONSTANT Digits = {"7", "8", "max", "huge"}
CONSTANT Strays = {"eacute", "/", "!"}
CONSTANT Wide = {"eacute"}
CONSTANT MaxRawDepth = 3
CONSTANT OutOfRange <- MCOutOfRange
CONSTANT Sources <- AccessKeys
SPECIFICATION Spec
INVARIANT ClashesAreOfOneKey
CHECK_DEADLOCK FALSE
