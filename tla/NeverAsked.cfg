SPECIFICATION Spec
CONSTANTS
    old = old
    new = new
    blank = blank
    r1 = r1
    b1 = b1
    b2 = b2
    p1 = p1
    p2 = p2
    None = None
    Products = {p1}
    Texts <- MCTexts
    Rates <- MCRates
    BonusText <- MCBonusText
    Disclosures <- MCTwoDisclosures
    NoJoinMember <- MCNoJoinMember
    Incomplete <- MCIncomplete
    Offering <- MCOffering
    Batches = {b1}
    MaxPublishes = 0
    MaxAborts = 1
INVARIANT EveryProductAsked
