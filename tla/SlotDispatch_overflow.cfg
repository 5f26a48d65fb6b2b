CONSTANTS
    SlotIds = {1, 2}
    MaxSlots = 5
    ReplyLen = 4
SPECIFICATION Spec
INVARIANT ReplyArrayBound
