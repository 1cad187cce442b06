SPECIFICATION Spec
CONSTANTS
    Clicks = {c1}
    Query = query
    Me = me
    Tokens = {t1, t2}
    None = None
    MaxExchanges = 5
    MaxSignIns = 1
CHECK_DEADLOCK FALSE
SYMMETRY Symmetry
INVARIANTS
    ClickTakesEffectOnce
    ShownIsAfterTheClick
    SessionAgrees
