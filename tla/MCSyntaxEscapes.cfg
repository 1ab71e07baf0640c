\* The formatter's promise over literals that hold an escape.
SPECIFICATION FormatSpec
CONSTANTS
    Sources <- MCEscaping
    Words <- MCWords
    Digits <- MCDigits
    Huge <- MCHuge
    Columns = 80
INVARIANT FormattingReproduces
