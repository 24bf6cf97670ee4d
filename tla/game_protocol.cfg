SPECIFICATION Spec
CONSTANTS
    Windows <- MCWindows
    Points <- MCPoints
    Keys <- MCKeys
    SessionID <- MCSessionID
    AppVersion <- MCAppVersion
    Stars <- MCStars
    Ships <- MCShips
    Players <- MCPlayers
    MaxUp = 2
    MaxDown = 2
INVARIANTS
    TypeOK
    InputArrives
    NoStuckKey
    ReadAsWritten
