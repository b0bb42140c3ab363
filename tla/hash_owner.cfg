INIT GateInit
NEXT GateNext
CONSTANT GatedCmds = {"deploy", "hash"}
INVARIANT HashesForOwner
CHECK_DEADLOCK FALSE
