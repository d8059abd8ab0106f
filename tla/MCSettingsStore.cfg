SPECIFICATION MCSpec
CONSTANTS
    None = None
    v1 = v1 s1 = s1 c1 = c1 c2 = c2 m1 = m1 k1 = k1 k2 = k2
    Clients = {c1, c2}
    IdemKeys = {k1, k2}
    Values = {v1}
    SecretValues = {s1}
    MasterKeys = {m1}
    Admissible <- MCAdmissible
    MaxGen = 3
    MaxTries = 3
INVARIANTS ChainIsConsistent RequestsAreIdempotent
PROPERTIES ImplementsContract MutationsKeepHeadStartable
