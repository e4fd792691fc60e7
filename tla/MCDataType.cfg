SPECIFICATION CodecSpec
CONSTANTS
    Things = {4001, 4002}
    UserLists <- ManyUsers
    GroupLists <- ManyGroups
    MsgLists <- ManyMsgs
INVARIANTS
    ListsArrive
    TextArrives
CHECK_DEADLOCK FALSE
