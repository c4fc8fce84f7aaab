SPECIFICATION Spec
CHECK_DEADLOCK FALSE
PROPERTIES TracesHold
