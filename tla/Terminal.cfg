SPECIFICATION Spec
PROPERTY ImplementsTextGrid
 
INVARIANT WritesSound
INVARIANT PoolSuffices
