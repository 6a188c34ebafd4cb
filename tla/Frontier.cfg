SPECIFICATION Spec
CONSTANT MaxSeq = 5
INVARIANT TypeOK
INVARIANT WriterFrontierInvariants
INVARIANT LanesCanonical
PROPERTY ImplementsSets
