\* Every text of up to five characters, read as a journal message, a
\* cmdline, an environ and a cgroup file.
CONSTANTS
    letter = letter
    digit = digit
    delim = delim
    quote = quote
    nul = nul
    header = header
    comma = comma
    Letter <- letter
    Digit <- digit
    Delim <- delim
    Quote <- quote
    Nul <- nul
    Header <- header
    Comma <- comma
    Pid <- MCPid
    normalizeLibraryName <- MCStripDigits
    removeDatesAndTimesFromToken <- MCStripDigits
    MaxLen = 5
    BufSize = 5

SPECIFICATION Spec

INVARIANTS
    LogTokensAreRuns
    EnvironKeepsEveryEntry
    CgroupKeepsEveryLine
    EnvironFieldRoundTrip
    DirTokensDistinct
    CmdlineKeepsTerminatedArguments
    JournalLinesKept

CHECK_DEADLOCK FALSE
