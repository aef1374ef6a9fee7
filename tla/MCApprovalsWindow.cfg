SPECIFICATION FairSpec
CONSTANTS
    Ask <- MCAsk
    Surface <- MCSurface
    Asker <- MCAsker
    Question <- MCQuestion
    WindowOnly <- MCWindowOnly
    Risky <- MCRisky
    Answering = {"island", "inbox"}
    NoCard = NoCard
INVARIANTS CardsHaveWaiters WaitersAgree PrivateCardHasItsTurn TypingSparesTheJob ResolvedOnce
CHECK_DEADLOCK FALSE
PROPERTY AskEnds
