SPECIFICATION FairSpec
CONSTANT N = 4
INVARIANT TypeOK
INVARIANT NoLostError
PROPERTY ImplementsContract
PROPERTY RunReturns
