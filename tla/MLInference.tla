----------------------------- MODULE MLInference -----------------------------
(***************************************************************************)
(* The contextual classifier's classification of one PID                   *)
(* (MLInference::Classify and MLInference::predict, src/unnamed/part_002;  *)
(* FeatureExtractor::CollectAndStoreData, src/contextual-classifier/       *)
(* FeatureExtractor.cpp), racing the process it classifies.                *)
(*                                                                         *)
(* The process is an actor of its own: it exits whenever it likes, and the *)
(* kernel may hand its PID to a new process.  "pidOwner" is the process    *)
(* instance that currently holds the PID (0: none, /proc/<pid> is absent); *)
(* instances are numbered in the order they were created.  Every new      *)
(* instance raises a proc event (CC_APP_OPEN) on the classifier's queue.   *)
(*                                                                         *)
(* A feature column is abstracted to what Classify tells apart: empty, or  *)
(* tokens read from /proc of instance g (the value g).  A parser reading   *)
(* the files of a PID nobody holds gets nothing.                           *)
(***************************************************************************)
EXTENDS Naturals, Sequences, SequencesExt

CONSTANTS
    TextCols,   \* text_cols_: the feature columns, in parsing order
    Labels,     \* labels of the fastText model, after the "__label__" strip
    MaxGen      \* number of process instances that may hold the PID

ContextTypes == {"CC_APP", "CC_BROWSER", "CC_GAME", "CC_MULTIMEDIA"}

Cols == Range(TextCols)

NoGen == 0

VARIABLES
    pidOwner,    \* instance holding the PID, or NoGen
    lastGen,     \* instances created so far
    events,      \* mPendingEv: proc events not yet handled
    pc,          \* where the classifier thread is in Classify
    col,         \* CollectAndStoreData: next column to parse
    raw,         \* raw_data: column -> NoGen (empty) or the instance read
    checkedGen,  \* instance holding the PID at the last /proc check
    inferred,    \* the last Classify returned a label predict produced
    result       \* contextType returned by the last Classify

vars == <<pidOwner, lastGen, events, pc, col, raw, checkedGen, inferred, result>>

Init ==
    /\ pidOwner = NoGen
    /\ lastGen = 0
    /\ events = <<>>
    /\ pc = "idle"
    /\ col = 1
    /\ raw = [c \in Cols |-> NoGen]
    /\ checkedGen = NoGen
    /\ inferred = FALSE
    /\ result = "CC_APP"

-----------------------------------------------------------------------------
(* The classified process and the kernel.                                  *)

Spawn ==
    /\ pidOwner = NoGen
    /\ lastGen < MaxGen
    /\ pidOwner' = lastGen + 1
    /\ lastGen' = lastGen + 1
    /\ events' = Append(events, lastGen + 1)
    /\ UNCHANGED <<pc, col, raw, checkedGen, inferred, result>>

Exit ==
    /\ pidOwner # NoGen
    /\ pidOwner' = NoGen
    /\ UNCHANGED <<lastGen, events, pc, col, raw, checkedGen, inferred, result>>

-----------------------------------------------------------------------------
(* predict: the text is the normalised columns joined by spaces, with the  *)
(* trailing space dropped; an empty text or no prediction is rc 1.  The    *)
(* collected strings are already lower-case, so normalize_text keeps them. *)

Word(data, c) == IF data[c] = NoGen THEN <<>> ELSE <<data[c]>>

ConcatenatedText(data) ==
    LET t == FoldLeft(LAMBDA acc, c : acc \o Word(data, c) \o <<" ">>, <<>>, TextCols)
    IN  IF t # <<>> /\ Last(t) = " " THEN Front(t) ELSE t

\* The <<rc, label>> pairs predict may return for the given features.
predict(data) ==
    IF ConcatenatedText(data) = <<>> THEN {<<1, "Unknown">>}
    ELSE {<<1, "Unknown">>} \cup {<<0, l>> : l \in Labels}

\* Mutant: an unrecognised label yields the "UNKNOWN" type the comment in
\* Classify speaks of, which CC_TYPE does not have.
LabelTypeUnknown(l) ==
    CASE l = "app"     -> "CC_APP"
      [] l = "browser" -> "CC_BROWSER"
      [] l = "game"    -> "CC_GAME"
      [] l = "media"   -> "CC_MULTIMEDIA"
      [] OTHER         -> "CC_UNKNOWN"

LabelType(l) ==
    CASE l = "app"     -> "CC_APP"
      [] l = "browser" -> "CC_BROWSER"
      [] l = "game"    -> "CC_GAME"
      [] l = "media"   -> "CC_MULTIMEDIA"
      [] OTHER         -> "CC_APP"

-----------------------------------------------------------------------------
(* Classify, one step per /proc access.                                    *)

\* The classifier thread takes the next proc event and calls Classify.
StartClassify ==
    /\ pc = "idle"
    /\ events # <<>>
    /\ events' = Tail(events)
    /\ pc' = "validate"
    /\ col' = 1
    /\ raw' = [c \in Cols |-> NoGen]
    /\ inferred' = FALSE
    /\ UNCHANGED <<pidOwner, lastGen, checkedGen, result>>

Return(type, fromModel) ==
    /\ pc' = "idle"
    /\ result' = type
    /\ inferred' = fromModel

\* CollectAndStoreData: IsValidPidViaProc fails, rc 1, Classify returns the
\* default; otherwise the columns are parsed.
ValidatePid ==
    /\ pc = "validate"
    /\ checkedGen' = pidOwner
    /\ IF pidOwner = NoGen
       THEN Return("CC_APP", FALSE) /\ UNCHANGED col
       ELSE pc' = "collect" /\ UNCHANGED <<col, result, inferred>>
    /\ UNCHANGED <<pidOwner, lastGen, events, raw>>

\* One parser (ParseAttrCurrent .. ReadJournalForPid) reads the files of
\* the PID; a column may be empty even for a live process.
ParseColumn ==
    /\ pc = "collect"
    /\ col <= Len(TextCols)
    /\ \E v \in {NoGen, pidOwner} : raw' = [raw EXCEPT ![TextCols[col]] = v]
    /\ col' = col + 1
    /\ UNCHANGED <<pidOwner, lastGen, events, pc, checkedGen, inferred, result>>

\* AuxRoutines::fileExists(proc_path) at the moment of the check.
procPathExists == pidOwner # NoGen

HasSufficientFeatures == \E c \in Cols : raw[c] # NoGen

\* After collection: the process must still exist, and some column must be
\* non-empty, for inference to be attempted.
CheckAfterCollect ==
    /\ pc = "collect"
    /\ col > Len(TextCols)
    /\ checkedGen' = pidOwner
    /\ IF ~procPathExists \/ ~HasSufficientFeatures
       THEN Return("CC_APP", FALSE)
       ELSE pc' = "recheck" /\ UNCHANGED <<result, inferred>>
    /\ UNCHANGED <<pidOwner, lastGen, events, col, raw>>

\* The second check just before predict, then predict and the label map.
CheckAndPredict ==
    /\ pc = "recheck"
    /\ checkedGen' = pidOwner
    /\ IF ~procPathExists
       THEN Return("CC_APP", FALSE)
       ELSE \E out \in predict(raw) :
               IF out[1] # 0 THEN Return("CC_APP", FALSE)
                             ELSE Return(LabelType(out[2]), TRUE)
    /\ UNCHANGED <<pidOwner, lastGen, events, col, raw>>

-----------------------------------------------------------------------------

Next ==
    \/ Spawn \/ Exit
    \/ StartClassify \/ ValidatePid \/ ParseColumn
    \/ CheckAfterCollect \/ CheckAndPredict

Spec == Init /\ [][Next]_vars

-----------------------------------------------------------------------------

TypeOK ==
    /\ pidOwner \in 0..MaxGen
    /\ lastGen \in 0..MaxGen
    /\ events \in Seq(1..MaxGen)
    /\ pc \in {"idle", "validate", "collect", "recheck"}
    /\ col \in 1..Len(TextCols) + 1
    /\ raw \in [Cols -> 0..MaxGen]
    /\ checkedGen \in 0..MaxGen
    /\ inferred \in BOOLEAN
    /\ result \in ContextTypes

\* The /proc checks in Classify (the comment "Process exited ... skip
\* further work"): a label from the model is returned only for features of
\* the process that held the PID at the last check, every column read from
\* that one process.  A process exiting, and its PID passing to another,
\* between the parsers and the checks is what could break it.
InferenceOnCheckedProcess ==
    inferred => /\ checkedGen # NoGen
                /\ \A c \in Cols : raw[c] \in {NoGen, checkedGen}

=============================================================================
