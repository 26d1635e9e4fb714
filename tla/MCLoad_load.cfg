CONSTANTS
    Texts <- MCTexts
    Loads = {1, 2}
    Variables = {"A", "B"}
    Reference <- MCReference
    Environments <- MCEnvironments
    Written <- MCWritten
    Admits <- MCAdmits
    Raws <- MCRaws
SPECIFICATION Spec
CHECK_DEADLOCK FALSE
INVARIANTS
    NothingUnexpanded
    LoadsExactlyTheValid
