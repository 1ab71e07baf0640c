SPECIFICATION FormatSpec
CONSTANTS
    Sources <- MCSources
    Words <- MCWords
    Digits <- MCDigits
    Huge <- MCHuge
    Columns = 24
INVARIANTS
    TokensTileTheText
    AcceptsTheLanguage
    TreeIsTheText
    FormatsToTheSame
PROPERTIES
    EveryTurnMovesOn
