SPECIFICATION Spec
CONSTANTS
    Managers = {m1, m2}
    Tokens = {t1, t2}
    NoToken = NoToken
SYMMETRY Symmetry
CHECK_DEADLOCK FALSE
INVARIANTS
    TypeOK
    JournalCoversRunner
    ConfigurationSpentOnce
PROPERTIES
    TeardownIsFinal
    LifecycleSpec
