SPECIFICATION FairSpec
PROPERTIES CallerUndisturbed
CHECK_DEADLOCK FALSE
