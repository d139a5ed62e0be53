CONSTANTS
    s1 = s1
    s2 = s2
    Senders = {s1, s2}
    Capacity = 3
    FrameLens = {2, 4}
    MaxFrames = 2
    Prefix <- PrefixColumns
    LoadedTexts <- ShortTexts
    NewTexts <- LaterTexts
    MaxMsgs = 3
    PaneSizes <- Panes
    MaxChoices = 3
    Chars = {"1", "/"}
    Digit <- DigitOf
    Replies <- SomeReplies
    Bounds <- PromptBounds
    MaxOptions = 4
    ScreenHeights = {8, 9, 10, 24}
SPECIFICATION TermSpec
INVARIANTS
    TermTypeOK
    FramesIntact
    WrapFaithful
    PaneFaithful
    ListFaithful
    TextKept
    ChoiceInItsSession
    SelInView
CHECK_DEADLOCK FALSE
