CONSTANTS
    Addons = {a}
    Names = {old, new, other}
    Previous = old
    Foreign = foreign
SPECIFICATION Spec
INVARIANTS
    NoReaderIsMissed
    RestoredUnderTheRightName
    NamedAliasIsCurrent
