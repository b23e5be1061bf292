SPECIFICATION Spec
CONSTANTS
    Offer = {1, 2}
    ProviderOf <- TwoOffers
    MaxProviders = 2
    PageLimit = 2
    OfferLife = 2
    AgreementLife = 3
    MaxHead = 3
    MaxRecords = 3
    Losses = TRUE
    Late = TRUE
INVARIANT TypeOK
INVARIANT OnePerProvider
INVARIANT HeldPortsDistinct
INVARIANT AcceptedOnce
