SPECIFICATION Spec
CONSTANTS
    m = m  n = n  a = a  b = b  g = g  d = d  s = s  h = h  k = k  w = w
    Checked = {"maps", "puts", "watch", "debug", "debugComps", "hooks"}
INVARIANTS MarkingExact ReferencesLive
