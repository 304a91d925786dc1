SPECIFICATION Spec
CONSTANTS
    Servers <- MCServers
    Unset = ""
    NoToken = no_token
    TokenTTL = 3
    Second = 2
    MaxTime = 6
INVARIANTS
    TypeOK
    OwnTokensAccepted
    OnlyLiveOwnTokens
    TestedTokenLasts
