SPECIFICATION Spec
CONSTANTS
    Strings = {"s", "t"}
    Bytes = {"x", "y"}
    Slack = 1
    MaxLength = 2
INVARIANTS
    HoldsText
