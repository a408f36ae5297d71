---------------------------- MODULE FeatureTokens ----------------------------
(***************************************************************************)
(* The tokenisers of FeatureExtractor (src/contextual-classifier/          *)
(* FeatureExtractor.cpp): ParseLog, which scans a journal message one      *)
(* character at a time; ParseCmdline, which cuts /proc/<pid>/cmdline at    *)
(* its NUL bytes; ParseEnviron, which reads /proc/<pid>/environ with       *)
(* getline(.., '\0'); ParseCgroup, which reads /proc/<pid>/cgroup line by  *)
(* line; the one-line files attr/current, comm and exe; the directories    *)
(* of links map_files and fd.  The parsers are checked against Runs, a     *)
(* declarative definition of the maximal stretches of text between         *)
(* separators; all of them feed the CSV dump of FeatureCsv.                *)
(*                                                                         *)
(* Characters are abstracted to the classes the tokenisers tell apart: a   *)
(* letter, a digit, a delimiter of the parser, the quote '"' (a delimiter  *)
(* of ParseCgroup only, punctuation to the others) and the NUL byte, which *)
(* stands for the newline in the line-oriented files; Header stands for    *)
(* the " name[pid]: " that journalctl puts before a message.  There is no  *)
(* whitespace in the alphabet, so trim leaves a token as it is.            *)
(***************************************************************************)
EXTENDS Naturals, Sequences, SequencesExt

CONSTANTS
    Letter, Digit, Delim, Quote, Nul,  \* the character classes
    Header,                            \* " name[pid]: " of a journal line
    MaxLen,                            \* length of the text read
    BufSize,                           \* the buffer of ReadJournalForPid's fgets
    normalizeLibraryName(_),           \* FeaturePruner's clean-up of a
    removeDatesAndTimesFromToken(_)    \* map_files and of an fd token

Chars == {Letter, Digit, Delim, Quote, Nul, Header}

\* The delimiters string of ParseLog, ParseCmdline and ParseEnviron.
Delimiters == {Delim}

\* The delimiters string of ParseCgroup, ":\"/".
CgroupDelimiters == {Delim, Quote}

VARIABLE input  \* the text read: a journal message, cmdline or environ

Init == input \in BoundedSeq(Chars, MaxLen)

Next == UNCHANGED input

Spec == Init /\ [][Next]_input

-----------------------------------------------------------------------------
(* The reference: the maximal runs of s free of the separators X, in      *)
(* order.                                                                  *)

Runs(s, X) ==
    LET IsRun(i, j) == /\ \A k \in i..j : s[k] \notin X
                       /\ i = 1 \/ s[i - 1] \in X
                       /\ j = Len(s) \/ s[j + 1] \in X
        bounds == {b \in (1..Len(s)) \X (1..Len(s)) : b[1] <= b[2] /\ IsRun(b[1], b[2])}
    IN  [k \in 1..Cardinality(bounds) |->
            LET b == SetToSortSeq(bounds, LAMBDA x, y : x[1] < y[1])[k]
            IN  SubSeq(s, b[1], b[2])]

-----------------------------------------------------------------------------
(* The FeaturePruner predicates the parsers filter with.                   *)

isDigitsOnly(t) == \A i \in DOMAIN t : t[i] = Digit

hasDigit(t) == \E i \in DOMAIN t : t[i] = Digit

isAllSpecialChars(t) == \A i \in DOMAIN t : t[i] \notin {Letter, Digit}

\* FeaturePruner::splitString: the non-empty pieces between delimiters.
splitString(s, D) == Runs(s, D)

\* FeaturePruner::removePunctuation: the quote is the only punctuation that
\* is not a delimiter.
removePunctuation(t) == SelectSeq(t, LAMBDA c : c # Quote)

-----------------------------------------------------------------------------
(* ParseLog: a character of the delimiter set ends the current token,      *)
(* which loses its punctuation and is kept when it is then neither empty,  *)
(* a single character nor all digits;                                      *)
(* any other character extends it.  The token left at the end of the text  *)
(* is treated in the same way.                                             *)

KeepLogToken(t) == t # <<>> /\ Len(t) # 1 /\ ~isDigitsOnly(t)

FlushToken(token, tokens) ==
    IF token # <<>> /\ KeepLogToken(removePunctuation(token))
    THEN Append(tokens, removePunctuation(token)) ELSE tokens

LogStep(acc, ch) ==
    IF ch \in Delimiters
    THEN [token |-> <<>>, tokens |-> FlushToken(acc.token, acc.tokens)]
    ELSE [acc EXCEPT !.token = Append(@, ch)]

ScanLog(s) == FoldLeft(LogStep, [token |-> <<>>, tokens |-> <<>>], s)

\* Mutant: the token left at the end of the text is dropped.
ParseLogNoTail(s) == ScanLog(s).tokens

ParseLog(s) == FlushToken(ScanLog(s).token, ScanLog(s).tokens)

-----------------------------------------------------------------------------
(* ParseCmdline: every NUL byte ends an argument (start .. i - 1), whose   *)
(* pieces are kept when they are longer than one character and not all    *)
(* digits.  Nothing follows the loop, so an argument that no NUL follows   *)
(* is never emitted.                                                       *)

KeepArgToken(t) == t # <<>> /\ ~isDigitsOnly(t) /\ Len(t) > 1

ArgTokens(arg) ==
    SelectSeq([i \in DOMAIN splitString(arg, Delimiters) |->
                  SelectSeq(splitString(arg, Delimiters)[i], LAMBDA c : c \notin Delimiters)],
              KeepArgToken)

\* Mutant: the argument is not restarted after a NUL.
CmdlineStepNoReset(acc, ch) ==
    IF ch = Nul
    THEN [acc EXCEPT !.tokens = IF acc.arg # <<>> THEN @ \o ArgTokens(acc.arg) ELSE @]
    ELSE [acc EXCEPT !.arg = Append(@, ch)]

CmdlineStep(acc, ch) ==
    IF ch = Nul
    THEN [arg |-> <<>>,
          tokens |-> IF acc.arg # <<>> THEN acc.tokens \o ArgTokens(acc.arg) ELSE acc.tokens]
    ELSE [acc EXCEPT !.arg = Append(@, ch)]

ParseCmdline(s) == FoldLeft(CmdlineStep, [arg |-> <<>>, tokens |-> <<>>], s).tokens

-----------------------------------------------------------------------------
(* ParseEnviron: getline(in, entry, '\0') yields the text up to each NUL,  *)
(* and the text after the last NUL when there is any; empty entries are    *)
(* skipped.  Tokens lose their delimiters, and are kept unless they are    *)
(* all special characters, empty or hold a digit.                          *)

GetlineStep(acc, ch) ==
    IF ch = Nul THEN [cur |-> <<>>, out |-> Append(acc.out, acc.cur)]
                ELSE [acc EXCEPT !.cur = Append(@, ch)]

ReadEntries(s) == FoldLeft(GetlineStep, [cur |-> <<>>, out |-> <<>>], s)

\* Mutant: getline's last entry, the one not followed by a NUL, is lost.
getlineEntriesTerminated(s) == ReadEntries(s).out

\* The entries the getline loop yields: at end of file, an entry is yielded
\* only when some character was read.
getlineEntries(s) ==
    IF ReadEntries(s).cur # <<>> THEN Append(ReadEntries(s).out, ReadEntries(s).cur)
    ELSE ReadEntries(s).out

KeepEnvToken(t) == ~isAllSpecialChars(t) /\ t # <<>> /\ ~hasDigit(t)

EntryTokens(entry) ==
    SelectSeq([i \in DOMAIN splitString(entry, Delimiters) |->
                  SelectSeq(splitString(entry, Delimiters)[i], LAMBDA c : c \notin Delimiters)],
              KeepEnvToken)

ParseEnviron(s) ==
    LET entries == SelectSeq(getlineEntries(s), LAMBDA e : e # <<>>)
    IN  FlattenSeq([i \in DOMAIN entries |-> EntryTokens(entries[i])])

-----------------------------------------------------------------------------
(* ParseCgroup: getline(infile, line) yields the lines of                  *)
(* /proc/<pid>/cgroup (Nul standing for the newline), and every           *)
(* piece splitString finds in a line is kept.                              *)

\* Mutant: the file read with "if (getline ...)", as ParseAttrCurrent does,
\* instead of "while".
ParseCgroupFirstLine(s) ==
    IF getlineEntries(s) = <<>> THEN <<>> ELSE splitString(getlineEntries(s)[1], CgroupDelimiters)

ParseCgroup(s) ==
    LET lines == getlineEntries(s)
    IN  FlattenSeq([i \in DOMAIN lines |-> splitString(lines[i], CgroupDelimiters)])


-----------------------------------------------------------------------------
(* The one-line files.  getline stops at the first newline, and            *)
(* std::string(buf) after readlink at the first NUL: both are the text     *)
(* before the first Nul.                                                    *)

FirstLine(s) == IF \E i \in DOMAIN s : s[i] = Nul
                THEN SubSeq(s, 1, Min({i \in DOMAIN s : s[i] = Nul}) - 1)
                ELSE s

\* ParseAttrCurrent: the pieces of the first line ("if (getline ...)"); the
\* "(enforce)" suffix the regex strips has no characters of the alphabet.
ParseAttrCurrent(s) == splitString(FirstLine(s), Delimiters)

\* ParseComm: the pieces of the first line longer than one character.
ParseComm(s) == SelectSeq(splitString(FirstLine(s), Delimiters), LAMBDA t : Len(t) > 1)

\* ParseExe: the pieces of the link target that are not all digits.
ParseExe(s) == SelectSeq(splitString(FirstLine(s), Delimiters), LAMBDA t : ~isDigitsOnly(t))

-----------------------------------------------------------------------------
(* ParseMapFiles and ParseFd walk a directory of links.  The targets are   *)
(* the NUL-free pieces of the text, in readdir order; an entry named "."   *)
(* or ".." or whose readlink fails adds nothing, so it is left out.  Each  *)
(* piece of a target is cleaned and, when kept, appended unless the result *)
(* already holds it (std::find).                                           *)

LinkTargets(s) == Runs(s, {Nul})

\* Mutant: the std::find test is left out.
AddDistinctKept(acc, t, kept) == IF kept THEN Append(acc, t) ELSE acc

\* The cleaned piece t, which passed the filters when "kept", is appended
\* unless the results already hold it.
AddDistinct(acc, t, kept) == IF kept /\ t \notin Range(acc) THEN Append(acc, t) ELSE acc

\* The pieces splitString cuts the link targets into, in readdir order.
DirPieces(s) == FlattenSeq([i \in DOMAIN LinkTargets(s) |->
                               splitString(LinkTargets(s)[i], Delimiters)])

KeepMapToken(t) == t # <<>> /\ Len(t) > 1 /\ ~isDigitsOnly(t)

KeepFdToken(t) == t # <<>> /\ ~isDigitsOnly(t)

ParseMapFiles(s) ==
    FoldLeft(LAMBDA acc, t : AddDistinct(acc, normalizeLibraryName(t),
                                         KeepMapToken(normalizeLibraryName(t))),
             <<>>, DirPieces(s))

ParseFd(s) ==
    FoldLeft(LAMBDA acc, t : AddDistinct(acc, removeDatesAndTimesFromToken(t),
                                         KeepFdToken(removeDatesAndTimesFromToken(t))),
             <<>>, DirPieces(s))

-----------------------------------------------------------------------------
(* The logs column: ReadJournalForPid reads the output of journalctl with  *)
(* fgets into a buffer of BufSize characters; ExtractProcessNameAndMessage *)
(* keeps the lines its regex matches, as "name: message"; ParseLog cuts    *)
(* each of them.                                                           *)

\* fgets: up to BufSize - 1 characters, stopping after a newline.
RECURSIVE fgetsLines(_)
fgetsLines(s) ==
    IF s = <<>> THEN <<>>
    ELSE LET nl == SelectInSeq(s, LAMBDA c : c = Nul)
             k  == IF nl # 0 /\ nl <= BufSize - 1 THEN nl ELSE Min({BufSize - 1, Len(s)})
         IN  <<SubSeq(s, 1, k)>> \o fgetsLines(SubSeq(s, k + 1, Len(s)))

ReadJournalForPid(s) == fgetsLines(s)

\* The process name (\S+), a token of the logs column.
JournalName == <<Letter, Letter>>

\* The regex ".*? (\S+)\[(\d+)\]: (.*)" matches a line holding a header.
HasHeader(line) == \E i \in DOMAIN line : line[i] = Header

\* Mutant: a greedy ".*" prefix, so the message follows the last header.
MessageAfterLastHeader(line) ==
    LET i == Max({j \in DOMAIN line : line[j] = Header})
    IN  FirstLine(SubSeq(line, i + 1, Len(line)))

\* (.*): what follows the first header, up to the newline.
MessageAfterHeader(line) ==
    FirstLine(SubSeq(line, SelectInSeq(line, LAMBDA c : c = Header) + 1, Len(line)))

\* processName + ": " + message, for every line the regex matches.
ExtractProcessNameAndMessage(lines) ==
    LET matched == SelectSeq(lines, HasHeader)
    IN  [i \in DOMAIN matched |-> JournalName \o <<Delim, Delim>> \o MessageAfterHeader(matched[i])]

\* The tokens of every extracted entry, in order (CollectAndStoreData).
LogsColumn(s) ==
    LET entries == ExtractProcessNameAndMessage(ReadJournalForPid(s))
    IN  FlattenSeq([i \in DOMAIN entries |-> ParseLog(entries[i])])

-----------------------------------------------------------------------------

\* ParseLog yields exactly the delimiter-free runs of the message, without
\* punctuation, that are neither single characters nor all digits, the
\* last one included.
LogTokensAreRuns ==
    LET runs == Runs(input, Delimiters)
    IN  ParseLog(input) = SelectSeq([i \in DOMAIN runs |-> removePunctuation(runs[i])], KeepLogToken)

\* Every entry of /proc/<pid>/environ contributes its tokens to
\* ParseEnviron, the last one included whether or not a NUL ends it.
EnvironKeepsEveryEntry ==
    LET entries == Runs(input, {Nul})
    IN  ParseEnviron(input) = FlattenSeq([i \in DOMAIN entries |-> EntryTokens(entries[i])])

\* Every line of /proc/<pid>/cgroup contributes its pieces to ParseCgroup:
\* the tokens are the delimiter-free runs of the whole file.
CgroupKeepsEveryLine == ParseCgroup(input) = Runs(input, CgroupDelimiters \cup {Nul})

\* The map_files and fd features list every kept token of every link once,
\* in the order of its first occurrence, whatever the clean-up does to
\* the pieces.
DirTokensDistinct ==
    LET Listed(out, Clean(_), Keep(_)) ==
            /\ IsInjective(out)
            /\ Range(out) = {t \in {Clean(DirPieces(input)[i]) : i \in DOMAIN DirPieces(input)} :
                                Keep(t)}
    IN  /\ Listed(ParseMapFiles(input), normalizeLibraryName, KeepMapToken)
        /\ Listed(ParseFd(input), removeDatesAndTimesFromToken, KeepFdToken)

\* The kernel ends every argument of /proc/<pid>/cmdline with a NUL; on
\* such a file ParseCmdline yields the kept pieces of every argument, each
\* argument cut on its own.
CmdlineKeepsTerminatedArguments ==
    input # <<>> /\ Last(input) = Nul =>
        LET args == Runs(input, {Nul})
        IN  ParseCmdline(input) = FlattenSeq([i \in DOMAIN args |-> ArgTokens(args[i])])

\* Every journal line that fits fgets's buffer, newline included, and names
\* the process contributes the name and the tokens of its whole message,
\* the text after the line's first header.
JournalLinesKept ==
    (\A r \in Range(Runs(input, {Nul})) : Len(r) + 1 <= BufSize - 1) =>
        LET lines == SelectSeq(Runs(input, {Nul}), HasHeader)
            msg(l) == SubSeq(l, Min({j \in DOMAIN l : l[j] = Header}) + 1, Len(l))
        IN  LogsColumn(input) =
                FlattenSeq([i \in DOMAIN lines |->
                               ParseLog(JournalName \o <<Delim, Delim>> \o msg(lines[i]))])

=============================================================================
