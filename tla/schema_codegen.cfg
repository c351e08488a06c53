SPECIFICATION Spec
CONSTANTS
    Schemas <- SomeSchemas
    Names <- SomeNames
    Scalars <- SomeScalars
INVARIANTS StructWire UnionWire OutClosed ImplsDistinct StopsForCause
