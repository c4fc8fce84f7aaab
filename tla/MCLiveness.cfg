SPECIFICATION LiveSpec
CHECK_DEADLOCK FALSE
PROPERTIES TreeEnds SourceSettles SearchEnds PurgeEnds StreamsFollow JobsStart
