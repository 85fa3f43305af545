SPECIFICATION CatalogSpec
CONSTANTS
    a = a
    b = b
    p = p
    x = x
    y = y
    Me = Me
    None = None
    Swarms <- MCSwarms
    Others <- MCOthers
    Models <- MCModels
    MaxGossip = 1
    Cases <- MCCases
INVARIANTS
    CatalogInv
PROPERTIES
    OnlyTrueOffers
    OffersShown
    RequestsEnd
