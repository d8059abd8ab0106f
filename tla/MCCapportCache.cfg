SPECIFICATION MCSpec
CONSTANTS
    m1 = m1
    m2 = m2
    Thread = {t1, t2}
    IP = {p1}
    Mac = {m1, m2}
    None = None
    Ambiguous = Ambiguous
    TTL = 1
    FailureTTL = 1
    MaxGen = 1
    MaxChanges = 1
INVARIANTS StatesAreCurrent
PROPERTIES AnswersAreFresh RequestsAreAnswered
