CONSTANTS
    Esc = 4
    PadMax = 3
    MaxFrame = 5
    Packets <- MCPackets
    ToSubmit <- MCToSubmit
    MultiPackets <- MCMultiPackets
    ByteStrings <- MCBytes
    MaxLens <- MCMaxLens
    MoreBytes <- MCMore
    MaxCats = 2
    Setups <- MCSetups
    Coded <- MCCoded
    ForeignHeaders <- MCForeign
    AnyHeaders <- MCAnyHeaders
    Packs <- MCPacks
    FrameRoom = 1536
    OFrameRoom = 94
SPECIFICATION MSSpec
INVARIANTS RoundTrip ValidAccepted ParseWithin RoomForFrames HeaderKept EncodeFits ChannelsKept OnceEach
