CONSTANTS
    Key = {k1, k2, k3}
    Value = {v1, v2}
    NoFile = NoFile
    Torn = Torn
SPECIFICATION Spec
SYMMETRY Symmetry
INVARIANTS PutAtomic ReplaceNoMix OperationDone
