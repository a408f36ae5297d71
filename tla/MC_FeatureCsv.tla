---------------------------- MODULE MC_FeatureCsv ----------------------------
EXTENDS FeatureCsv

CONSTANTS letter, digit, delim, quote, nul, header, comma

\* A one-digit PID.
MCPid == <<digit>>

\* FeaturePruner's clean-up of a map_files or fd token, which is not part
\* of the sources, instantiated as the removal of its digits (a version
\* number, a date): two different pieces may then clean to one token.
MCStripDigits(t) == SelectSeq(t, LAMBDA c : c # digit)

=============================================================================
