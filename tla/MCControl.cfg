SPECIFICATION FairSpec
CHECK_DEADLOCK FALSE
PROPERTIES DeadPeerDetected RekeysEnd Recovers
