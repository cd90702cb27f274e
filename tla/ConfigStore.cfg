SPECIFICATION FairSpec
CONSTANTS
    address1 = address1
    address2 = address2
    password1 = password1
    Addresses = {address1, address2}
    Passwords = {password1}
    MaxUpsets = 2
INVARIANTS
    ConfigTypeOK
    SavedIsKept
    TorModeHasDaemon
    RepairedBeforeLoad
    AddressOfStart
PROPERTY CurrentAddressUsed
