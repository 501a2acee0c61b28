SPECIFICATION Spec
CONSTANTS
    Schema <- AllMessages
INVARIANTS
    SizeExact
    RoundTrip
