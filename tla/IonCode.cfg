SPECIFICATION MCSpec
CONSTANTS
    f = f  g = g  h = h  i1 = i1  i2 = i2  i3 = i3  a = a  b = b
    r1 = r1  r2 = r2  r3 = r3  rt = rt  s1 = s1  s2 = s2  f1 = f1  d1 = d1
    NoIon = NoIon
    Disabled = Disabled
    Ions = {i1, i2, i3}
    Scripts <- ThreeScripts
    CompartmentOf <- TwoCompartments
    MaxStack = 8
    RejectedFrames = FALSE
    TwoForms = FALSE
    LiveIterators = {"native"}
    Checked = {"scripts", "group", "call", "temp"}
SYMMETRY Symmetry
CHECK_DEADLOCK FALSE
INVARIANTS FramesHeld CountsExact FramesCoherent MovesSound
