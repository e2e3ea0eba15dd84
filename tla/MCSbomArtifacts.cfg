CONSTANTS
    g1 = g1
    g2 = g2
    d1 = d1
    img = img
    Generations = {g1, g2}
    Images = {img}
    ImageOf <- OneImage
    Deleters = {d1}
    MaxVersion = 2
SPECIFICATION FairSpec
INVARIANTS
    RowHasFile
    StateIsFounded
PROPERTIES
    GenerationsEnd
