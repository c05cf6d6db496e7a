\* the bounds of the other parts are in their INSTANCEs
SPECIFICATION MediaSpec
CONSTANTS
    Docs <- Documents
    Normalize = {TRUE, FALSE}
INVARIANTS
    CodingIsUndone
    ImagesAreReduced
    ImagesAreDistilled
    PagesAreRight
    FormatsAreConverted
CHECK_DEADLOCK FALSE
