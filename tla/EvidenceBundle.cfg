SPECIFICATION EnvelopeSpec
CONSTANTS
    c1 = c1
    c2 = c2
    Chains <- TwoChains
    Tasks <- SomeText
    MaxEntries = 3
    MaxSigned = 2
    MaxEdits = 2
    Signers <- OwnAndBorrowed
    Kids <- TwoKids
    TrustSets <- OneTrustSet
    Times <- EachTime
    MaxActs = 4
    MaxSignatures = 3
    MaxEnvelopes = 2
SYMMETRY ChainSymmetry
INVARIANTS
    UneditedBundlesVerify
    AnchorPinsEntries
    RetainedAnchorPinsEntries
    BreakIsFirstDifference
    WitnessedEntriesWereObserved
    HonestEnvelopesVerify
CHECK_DEADLOCK FALSE
