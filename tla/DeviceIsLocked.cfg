SPECIFICATION Spec
CONSTANTS
    Proc = {p1, p2}
    Config = {c1, c2}
    c1 = c1
    c2 = c2
    Device = {d1, d2}
    d1 = d1
    d2 = d2
    Model = {m1, m2}
    m1 = m1
    m2 = m2
    ModelOf <- MCModelOf
    DefaultConfig <- MCDefaultConfig
    Nobody = Nobody
    NoModel = NoModel
    Missing = Missing
    Bad = Bad
    Partial = Partial
    NoName = NoName
INVARIANT
    DeviceIsLocked
