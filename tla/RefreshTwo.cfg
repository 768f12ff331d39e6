SPECIFICATION Spec
CONSTANTS
    old = old
    new = new
    blank = blank
    r1 = r1
    b1 = b1
    b2 = b2
    p1 = p1
    p2 = p2
    None = None
    Products = {p1}
    Texts <- MCTexts
    Rates <- MCRates
    BonusText <- MCBonusText
    Disclosures <- MCTextDisclosures
    NoJoinMember <- MCNoJoinMember
    Incomplete <- MCNewIncomplete
    Offering = {}
    Batches = {b1, b2}
    MaxPublishes = 1
    MaxAborts = 0
INVARIANT ConditionsLogged
INVARIANT TallyAdds
SYMMETRY Symmetry
