SPECIFICATION Spec
\* A search ends.
CHECK_DEADLOCK FALSE
CONSTANTS
    ga = ga  gb = gb  gc = gc  gd = gd  t1 = t1  t2 = t2  cheat = cheat
    None = None
    Goals = {ga, gb, gc, gd}
    Tactics = {t1, t2, cheat}
    Results <- Table
    Coupled = {gd}
    Unsound = {cheat}
    Start <- StartA
    MaxNodes = 8
    MaxSteps = 4
    Width = 2
    MaxVersion = 2
INVARIANTS
    CheckpointIsTruthful
    SearchesOpenWork
    SelectionIsCurrent
