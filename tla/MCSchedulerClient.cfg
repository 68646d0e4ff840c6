SPECIFICATION MCSpec
CONSTANTS
    w1 = w1 w2 = w2 p1 = p1 p2 = p2 c1 = c1 c2 = c2 c3 = c3 c4 = c4
    Flusher = Flusher Nothing = Nothing
    Worker = {w1, w2}
    Producer = {p1, p2}
    Callback = {c1, c2, c3, c4}
INVARIANTS NoneForgotten
PROPERTIES RunsSerially AllRun
\* At the end nothing is left to run.
CHECK_DEADLOCK FALSE
