CONSTANTS
    SlotIds = {1, 2}
    MaxSlots = 4
    ReplyLen = 4
SPECIFICATION Spec
INVARIANT TypeOK
