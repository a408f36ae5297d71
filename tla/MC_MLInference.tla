---------------------------- MODULE MC_MLInference ----------------------------
(***************************************************************************)
(* Constants for MLInference: the nine text_cols_ of the MLInference      *)
(* constructor and labels covering every arm of Classify's label map.     *)
(***************************************************************************)
EXTENDS MLInference

MCTextCols == <<"attr", "cgroup", "cmdline", "comm", "maps",
                "fds", "environ", "exe", "logs">>

MCLabels == {"app", "browser", "game", "media", "other"}

=============================================================================
