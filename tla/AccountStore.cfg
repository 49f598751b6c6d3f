CONSTANTS
    p1 = p1
    s1 = s1
    s2 = s2
    c1 = c1
    c2 = c2
    k1 = k1
    t1 = t1
    t2 = t2
    Provider = {p1}
    Alias <- MCAliases
    FirstByName <- MCFirstByName
    Session = {s1, s2}
    Process = {c1, c2}
    Key = {k1}
    Token = {t1, t2}
    NoAlias = NoAlias
    NoCredential = NoCredential
    Default = 0
    LegacyAuth <- MCLegacyAuth
    MaxRevision = 5
SPECIFICATION Spec
SYMMETRY Symmetry
INVARIANTS
    TypeOK
    SelectionCovers
PROPERTIES
    KeepsBook
    SessionSticky
    RevisionCountsAccounts
