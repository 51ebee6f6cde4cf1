SPECIFICATION MCSpec
CONSTANTS
    Classes = {"a", "b"}
    Programs <- AllPrograms
    Slots <- AllSlots
    MaxTrips = 2
    Checked = {"motion", "counting"}
CHECK_DEADLOCK FALSE
INVARIANTS MotionSound ChecksSound
