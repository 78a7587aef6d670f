\* Two goroutines look up one host with three addresses.
SPECIFICATION Spec
CONSTANTS
    Procs = {p1, p2}
    Addresses = {1, 2, 3}
INVARIANTS AddressesCanonical
CHECK_DEADLOCK FALSE
