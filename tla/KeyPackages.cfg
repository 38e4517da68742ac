CONSTANTS
    Groups = {g}
    Stores <- MCStores
    Calls = {c1, c2, c3}
    Batch = 2
    Threshold = 2
    Stories <- MCStories
SPECIFICATION Spec
SYMMETRY MCSymmetry
INVARIANTS ReadsAreCurrent OldSuiteIsGone PackagesAreHeld
CHECK_DEADLOCK FALSE
