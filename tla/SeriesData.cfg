CONSTANTS
    Units = {z, a}
    Zero = z
    End = end
    Junk = junk
    NodeRest = 2
    MaxSeriesBias = 4
    BiasField = 4
    MaxItems = 2
    MaxSize = 7
    Rounding = 1
SPECIFICATION Spec
INVARIANTS CapacityKept Terminated BiasBounded
PROPERTY ImplementsValue
