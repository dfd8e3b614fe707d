----------------------------- MODULE MCWorkspace -----------------------------
(* The feeds of a workspace and the files behind them on small instances:    *)
(* the two meet only in the link of WorkbenchFiles, so a behaviour is one of *)
(* the feeds or one of the files.                                            *)
EXTENDS WatchProperties, MCWorkbenchFiles

CONSTANTS s1, s2

TwoSubscribers == {s1, s2}

VARIABLE part

PartsInit ==
  /\ WatchInit /\ FilesInit
  /\ part \in {"feeds", "files"}
  /\ part = "feeds" => \A b \in Browsers \ {b1} : calls[b] = 0

PartsNext ==
  \/ part = "feeds" /\ WatchNext /\ UNCHANGED <<filesVars, part>>
  \/ part = "files" /\ FilesNext /\ UNCHANGED <<watchVars, part>>

PartsSpec == PartsInit /\ [][PartsNext]_<<watchVars, filesVars, part>> /\ WatchFairness
==============================================================================
