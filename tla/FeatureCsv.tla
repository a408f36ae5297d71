----------------------------- MODULE FeatureCsv -----------------------------
(***************************************************************************)
(* The CSV dump of FeatureExtractor::CollectAndStoreData (dump_csv,        *)
(* src/contextual-classifier/FeatureExtractor.cpp:198-319), an unfiltered  *)
(* and a filtered file written the same way, of the columns the parsers    *)
(* of FeatureTokens produce from the text of /proc.  A row is the PID,     *)
(* then one quoted field per feature column holding the column's tokens    *)
(* joined by commas.  write_csv_field writes the tokens as they are; only  *)
(* the environ column doubles the quote characters inside its tokens.      *)
(*                                                                         *)
(* A row holds the nine columns, all parsed from the same text, the       *)
(* variable "input"; the lower-casing of the unfiltered file and the       *)
(* pruning of the filtered one are left out, as the alphabet has one       *)
(* letter.  ReadCsv is a reference reader of one RFC 4180 record, against  *)
(* which the writers are checked.                                          *)
(***************************************************************************)
EXTENDS FeatureTokens

CONSTANTS
    Comma,  \* the separator ',' the writers put between fields and tokens
    Pid     \* the characters of std::to_string(pid)

ASSUME Comma \notin Chars

\* The tokens of one column, joined by commas.
JoinTokens(vec) ==
    IF vec = <<>> THEN <<>>
    ELSE FoldLeft(LAMBDA acc, t : acc \o <<Comma>> \o t, Head(vec), Tail(vec))

-----------------------------------------------------------------------------
(* The writers.                                                            *)

\* The lambda write_csv_field: ,"t1,t2,..."
write_csv_field(vec) == <<Comma, Quote>> \o JoinTokens(vec) \o <<Quote>>

\* The quote is doubled, every other character copied.
EscapeQuotes(t) == FoldLeft(LAMBDA acc, ch : IF ch = Quote THEN acc \o <<Quote, Quote>>
                                                           ELSE Append(acc, ch),
                            <<>>, t)

\* Mutant: environ written like the other columns.
WriteEnvironFieldUnescaped(vec) == write_csv_field(vec)

\* The environ column: the same field, with every quote doubled.
WriteEnvironField(vec) ==
    <<Comma, Quote>> \o JoinTokens([i \in DOMAIN vec |-> EscapeQuotes(vec[i])]) \o <<Quote>>

\* The feature columns of a process, in the order of the header line
\* "PID,attr,cgroup,cmdline,comm,maps,fds,environ,exe,logs", every parser
\* reading the same text.
Columns(s) == <<ParseAttrCurrent(s), ParseCgroup(s), ParseCmdline(s), ParseComm(s),
                ParseMapFiles(s), ParseFd(s), ParseEnviron(s), ParseExe(s), LogsColumn(s)>>

EnvironColumn == 7

\* A row of the unfiltered CSV: the PID, then the fields of the columns.
CsvRow(cols) ==
    Pid \o FlattenSeq([i \in DOMAIN cols |->
                IF i = EnvironColumn THEN WriteEnvironField(cols[i]) ELSE write_csv_field(cols[i])])

\* The filtered CSV repeats the writers: write_filtered_field, and the
\* environ column's own quote escaping.
write_filtered_field(vec) == <<Comma, Quote>> \o JoinTokens(vec) \o <<Quote>>

WriteFilteredEnvironField(vec) ==
    <<Comma, Quote>> \o JoinTokens([i \in DOMAIN vec |-> EscapeQuotes(vec[i])]) \o <<Quote>>

FilteredCsvRow(cols) ==
    Pid \o FlattenSeq([i \in DOMAIN cols |->
                IF i = EnvironColumn THEN WriteFilteredEnvironField(cols[i])
                ELSE write_filtered_field(cols[i])])

-----------------------------------------------------------------------------
(* A reader of one RFC 4180 record: the fields, or <<>> for a record that  *)
(* ends inside a quoted field.  A quote in an unquoted field, or text      *)
(* after a closing quote, is taken as a literal, as lenient readers do.    *)

RECURSIVE ReadFrom(_, _, _, _)
ReadFrom(s, fields, cur, st) ==
    IF s = <<>>
    THEN IF st = "quoted" THEN <<>> ELSE Append(fields, cur)
    ELSE LET c == Head(s)
             r == Tail(s)
         IN CASE st = "start" /\ c = Quote  -> ReadFrom(r, fields, cur, "quoted")
              [] st # "quoted" /\ c = Comma -> ReadFrom(r, Append(fields, cur), <<>>, "start")
              [] st = "quoted" /\ c = Quote -> ReadFrom(r, fields, cur, "closed")
              [] st = "closed" /\ c = Quote -> ReadFrom(r, fields, Append(cur, Quote), "quoted")
              [] st = "quoted"              -> ReadFrom(r, fields, Append(cur, c), "quoted")
              [] OTHER                      -> ReadFrom(r, fields, Append(cur, c), "plain")

ReadCsv(s) == ReadFrom(s, <<>>, <<>>, "start")

-----------------------------------------------------------------------------

\* The environ field of both CSV files (the quote escaping at lines 253-265
\* and 299-311) reads back as ParseEnviron's tokens joined by commas,
\* whatever quotes the environment holds.
EnvironFieldRoundTrip ==
    LET env == ParseEnviron(input) IN
    /\ ReadCsv(Pid \o WriteEnvironField(env)) = <<Pid, JoinTokens(env)>>
    /\ ReadCsv(Pid \o WriteFilteredEnvironField(env)) = <<Pid, JoinTokens(env)>>

\* The header line promises CSV: a reader gets back the PID and every
\* column's joined tokens from the rows CollectAndStoreData writes for a
\* process.
CsvRowRoundTrip ==
    LET cols == Columns(input)
        fields == <<Pid>> \o [i \in DOMAIN cols |-> JoinTokens(cols[i])]
    IN  /\ ReadCsv(CsvRow(cols)) = fields
        /\ ReadCsv(FilteredCsvRow(cols)) = fields

=============================================================================
