SPECIFICATION TxSpec
CONSTANTS
    Slots = {t1, t2}
    Users = {u1, u2}
    Mints = {m1, m2}
    Keys = {k1, k2}
SYMMETRY Symmetry
INVARIANTS
    OneAtATime
    NothingIsRefused
    OwnersSigned
