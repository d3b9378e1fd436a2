CONSTANTS
    t1 = t1
    t2 = t2
    k1 = k1
    k2 = k2
    Tabs = {t1, t2}
    Tables <- MCTables
    Columns = {k1, k2}
    Requires <- MCRequires
    Held = {"view_roles"}
    Nested = {"roles"}
    MaxChanges = 6
SYMMETRY Symmetry
SPECIFICATION Spec
INVARIANT ThemeIsApplied
INVARIANT PreferencesSurviveReload
CHECK_DEADLOCK FALSE
