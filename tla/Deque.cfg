\* Unbounded deques of up to three items and deques of maxlen 1 and 3, with an iterator.
CONSTANTS
    a = a  b = b  Values = {a, b}
    Null = Null
    MaxLens <- MCMaxLens
    Unbounded <- MCUnbounded
    InitialLength = 2
    Indices <- MCIndices
    MaxItems = 3
SYMMETRY Symmetry
SPECIFICATION Spec
INVARIANTS TypeOK LengthIsBounded ItemsArePresent IteratorsAreExact
PROPERTIES ImplementsDeque OperationsAreExact
