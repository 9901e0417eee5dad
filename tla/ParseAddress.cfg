SPECIFICATION Spec
CONSTANTS
    Word <- MCWord
    Hex <- MCHex
    Dec <- MCDec
    Spelling <- MCSpelling
    Usb <- MCUsb
INVARIANTS
    AddressIsMeant
CHECK_DEADLOCK FALSE
