SPECIFICATION Spec
CONSTANT Checked = {"flow", "objects", "limit", "contributed", "gc", "ooms", "answers"}
CHECK_DEADLOCK FALSE
INVARIANTS TypesFlow CodeSound
PROPERTIES InferenceProgress
