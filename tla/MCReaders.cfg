CONSTANTS
    MAX_DEPTH = 8
    Contents <- MCContents
    Styles <- MCStyles
    Escape <- MCEscape
    Kib = 2
    Junk <- MCJunk
    Descriptions <- MCDescriptions
    Script <- MCScript
    Captures <- MCCaptures
    Rates = {16000, 48000}
    U32_MAX = 7700
    Replies <- MCReplies
    Breaks <- MCBreaks
    MaxReplies = 2
SPECIFICATION Spec
INVARIANTS
    CutIsTruncated
    ReplyIsRead
    PlanSavesFirst
    TracksAreDescribed
    FileIsWhatWasSent
    AnnouncedIsDecoded
    WavPlaysTheCapture
    RepliesAreWhole
CHECK_DEADLOCK FALSE
