\* Nodes of two bytes, up to five bytes in three of them: values and reads
\* cross one and two boundaries and end on them.  Two writes or calls of the
\* stream, in any order with the other operations, and two bytes from the
\* peer.  A behaviour ends at a fault.
CONSTANTS
  BaseSize = 2  K = 4  VarBytes = 2  Modulus = 8  FixBytes = 2
  MaxSize = 5  MaxWrites = 2  Garbage = {5}
  Inputs <- SmallInputs
  Source <- Buffer
  Lengths = {1, 2}  MaxWire = 2
SPECIFICATION StreamSpec
CHECK_DEADLOCK FALSE
INVARIANTS TypeOK CurFollowsPosition FaultOnlyOnEmptyRead RoundTrip  StreamExact
PROPERTIES ImplementsByteStore
