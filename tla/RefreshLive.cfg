SPECIFICATION FairSpec
CONSTANTS
    old = old
    new = new
    blank = blank
    r1 = r1
    b1 = b1
    b2 = b2
    p1 = p1
    p2 = p2
    None = None
    Products = {p1}
    Texts <- MCTexts
    Rates <- MCRates
    BonusText <- MCBonusText
    Disclosures <- MCDisclosures
    NoJoinMember <- MCNoJoinMember
    Incomplete <- MCIncomplete
    Offering = {}
    Batches = {b1}
    MaxPublishes = 2
    MaxAborts = 1
PROPERTY EventuallyCurrent
