SPECIFICATION XchSpec
CONSTANTS
    T1 = 1
    T2 = 2
    T4 = 2
    TD = 3
    Codes = {180, 200, 486}
    Forks = TRUE
    NxCodes = {100, 200}
    MaxHanded = 2
PROPERTIES
    ExchangeEnds
    NxExchangeEnds
