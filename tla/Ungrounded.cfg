SPECIFICATION Spec
CONSTANTS
    p1 = p1
    p2 = p2
    b1 = b1
    b2 = b2
    adult = adult
    payroll = payroll
    autopay = autopay
    unit = unit
    pages = pages
    invented = invented
    NoBonusWords = NoBonusWords
    NoneWords = NoneWords
    StrayText = StrayText
    OverLong <- MCOverLong
    Rejected = Rejected
    NoRate = NoRate
    None = None
    Products <- MCProducts
    Publications <- MCPublications
    PageSize = 1
    Answers <- MCAnswers
    Manual <- MCManual
    MaxChanges = 1
INVARIANT ChecklistFromSource
