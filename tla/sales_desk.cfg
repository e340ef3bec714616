SPECIFICATION Spec
CONSTANTS
    p1 = p1
    p2 = p2
    h1 = h1
    h2 = h2
    a0 = a0
    a1 = a1
    t1 = t1
    t2 = t2
    t3 = t3
    Process = {p1, p2}
    Import = {1, 2, 3}
    Name <- MCName
    Clean <- MCClean
    Tight <- MCTight
    NoKey = ""
    Hq = {h1, h2}
    NoHq = NoHq
    Mixes <- MCMixes
    Person = {a0, a1, t1, t2, t3}
    Nobody = Nobody
    Label <- MCLabel
    Blank = ""
    LabelsOf <- MCLabelsOf
    Shorter <- MCShorter
    Place = {h1, h2}
    NoPlace = NoHq
    FullName <- MCFullName
    MailWord <- MCMailWord
    FirstName <- MCFirstName
    DotCom = {t3}
    Reader <- MCReader
    NoAnswer = NoAnswer
    NoLookups = NoLookups
INVARIANTS
    TypeOK
    OneRowPerKey
    ResolvedWhenAlone
    NoNameIsLost
    LicenseeFollowsSheet
    SalesStayInTerritory
    SingleCredit
    CacheIsFresh
PROPERTY
    StaleAnswersDie
CHECK_DEADLOCK FALSE
