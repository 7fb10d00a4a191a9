SPECIFICATION AccountsSpec
SYMMETRY Symmetry
INVARIANT AccountsTypeOK AdminExists ShownKeyIsStored
CONSTANTS
    ann = ann
    bob = bob
    f1 = f1
    f2 = f2
    f3 = f3
    Emails = {ann, bob}
    SignIns = {f1, f2, f3}
CHECK_DEADLOCK FALSE
