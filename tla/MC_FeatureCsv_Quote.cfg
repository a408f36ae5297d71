\* A cmdline holding a quote character.
CONSTANTS
    letter = letter
    digit = digit
    delim = delim
    quote = quote
    nul = nul
    header = header
    comma = comma
    Letter <- letter
    Digit <- digit
    Delim <- delim
    Quote <- quote
    Nul <- nul
    Header <- header
    Comma <- comma
    Pid <- MCPid
    normalizeLibraryName <- MCStripDigits
    removeDatesAndTimesFromToken <- MCStripDigits
    MaxLen = 5
    BufSize = 5

SPECIFICATION Spec

INVARIANTS
    CsvRowRoundTrip

CHECK_DEADLOCK FALSE
