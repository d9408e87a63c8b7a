---------------------------- MODULE LearnedStore ----------------------------
(***************************************************************************)
(* What the graph learned, across restarts (node/file.go and, in node.go,  *)
(* loadLearned, applyLearned and Close).  learned.json is written aside    *)
(* and rotated in; a start reads it, or its previous copy, or the          *)
(* graph.json of earlier versions, and applies it once the first graph     *)
(* refresh has built the graph.                                            *)
(*                                                                         *)
(* A save is one step per file operation, so that a crash may come between *)
(* any two.  The files hold the beliefs; the avoided nodes and channels,   *)
(* the candidates' records and the node scores are saved with them.        *)
(***************************************************************************)
EXTENDS Channels

CONSTANT NoFile   \* a file that is not there, or not readable

ASSUME NoFileAssumption == ~IsState(NoFile) /\ ~IsList(NoFile)

VARIABLES
  files,            \* learned.json, .old, .tmp and graph.json
  pendingBeliefs,   \* read at the start, not applied yet
  migrateLegacy,    \* they came from graph.json
  learnedApplied,
  saver,            \* who holds learnedLock to save: "refresh", "close", "nobody"
  saving,           \* the next step of the save
  data,             \* the beliefs being saved
  saved             \* history: what the last completed save wrote

storeVars ==
  <<files, pendingBeliefs, migrateLegacy, learnedApplied, saver, saving, data, saved>>

\* What a file may hold: the beliefs about some channels.
IsFile(x) == x = NoFile \/ IsState(x)

Nothing == [id \in {} |-> 0]

Files == {"current", "old", "tmp", "legacy"}
Savers == {"refresh", "close"}

StoreTypeOK ==
  /\ files = [f \in Files |-> files[f]] /\ \A f \in Files : IsFile(files[f])
  /\ IsFile(pendingBeliefs)
  /\ migrateLegacy \in BOOLEAN /\ learnedApplied \in BOOLEAN
  /\ saver \in Savers \cup {"nobody"}
  /\ saving \in {"marshal", "write", "rotate", "rename", "legacy"}
  /\ IsState(data)
  /\ IsFile(saved)

\* LoadLearned: the first of the files that can be read.
Readable ==
  IF files["current"] # NoFile THEN files["current"]
  ELSE IF files["old"] # NoFile THEN files["old"]
  ELSE files["legacy"]

\* loadLearned, at a start: nothing is known but what the files hold.
LoadLearned ==
  /\ pendingBeliefs' = Readable
  /\ migrateLegacy' = (/\ files["current"] = NoFile /\ files["old"] = NoFile
                       /\ files["legacy"] # NoFile)
  /\ learnedApplied' = FALSE
  /\ saver' = "nobody" /\ saving' = "marshal" /\ data' = Nothing

\* A start may find a file of an earlier version, or none.
StoreInit ==
  /\ saved \in {NoFile} \cup
       {[id \in {i} |-> [Liquidity |-> 1, Upper |-> FALSE, Timestamp |-> 1]] : i \in Ids}
  /\ files = [f \in Files |-> IF f = "legacy" THEN saved ELSE NoFile]
  /\ pendingBeliefs = saved /\ migrateLegacy = (saved # NoFile)
  /\ learnedApplied = FALSE
  /\ saver = "nobody" /\ saving = "marshal" /\ data = Nothing
-----------------------------------------------------------------------------
\* applyLearned: with learnedLock held, what the start read is applied; then it
\* saves.
ApplyPending ==
  /\ saver = "nobody"
  /\ IF pendingBeliefs = NoFile THEN UNCHANGED channelVars
     ELSE ApplyBeliefs(pendingBeliefs)
  /\ pendingBeliefs' = NoFile
  /\ learnedApplied' = TRUE
  /\ saver' = "refresh"
  /\ UNCHANGED <<files, migrateLegacy, saving, data, saved>>

\* Slip: Close saves whether or not the start's beliefs were applied.
CloseSavesAnyway ==
  /\ saver = "nobody"
  /\ saver' = "close"
  /\ UNCHANGED <<files, pendingBeliefs, migrateLegacy, learnedApplied, saving,
                 data, saved>>

\* Close saves what was learned since the last refresh, unless what the start
\* read was not applied yet.
CloseSaves ==
  /\ learnedApplied /\ saver = "nobody"
  /\ saver' = "close"
  /\ UNCHANGED <<files, pendingBeliefs, migrateLegacy, learnedApplied, saving,
                 data, saved>>

\* SaveLearned writes what the graph knows as it begins.
Marshal ==
  /\ saver # "nobody" /\ saving = "marshal"
  /\ data' = Snapshot
  /\ saving' = "write"
  /\ UNCHANGED <<files, pendingBeliefs, migrateLegacy, learnedApplied, saver, saved>>

\* learnedLock is released.
EndSave == saver' = "nobody" /\ saving' = "marshal" /\ data' = Nothing

\* The save fails before the rotation: learned.json.tmp is removed.
SaveFails ==
  /\ saver # "nobody" /\ saving = "write"
  /\ files' = [files EXCEPT !["tmp"] = NoFile]
  /\ EndSave
  /\ UNCHANGED <<pendingBeliefs, migrateLegacy, learnedApplied, saved>>

WriteSynced ==
  /\ saver # "nobody" /\ saving = "write"
  /\ files' = [files EXCEPT !["tmp"] = data]
  /\ saving' = "rotate"
  /\ UNCHANGED <<pendingBeliefs, migrateLegacy, learnedApplied, saver, data, saved>>

\* learned.json, if there is one, becomes its previous copy.
Rotate ==
  /\ saver # "nobody" /\ saving = "rotate"
  /\ files' = IF files["current"] = NoFile THEN files
              ELSE [files EXCEPT !["old"] = files["current"], !["current"] = NoFile]
  /\ saving' = "rename"
  /\ UNCHANGED <<pendingBeliefs, migrateLegacy, learnedApplied, saver, data, saved>>

\* learned.json.tmp becomes learned.json.  A refresh that migrated graph.json
\* then removes it, one file operation later.
Rename ==
  /\ saver # "nobody" /\ saving = "rename"
  /\ files' = [files EXCEPT !["current"] = files["tmp"], !["tmp"] = NoFile]
  /\ saved' = data
  /\ IF saver = "refresh" /\ migrateLegacy
     THEN saving' = "legacy" /\ UNCHANGED <<saver, data>>
     ELSE EndSave
  /\ UNCHANGED <<pendingBeliefs, migrateLegacy, learnedApplied>>

RemoveLegacyGraph ==
  /\ saving = "legacy"
  /\ files' = [files EXCEPT !["legacy"] = NoFile]
  /\ migrateLegacy' = FALSE
  /\ EndSave
  /\ UNCHANGED <<pendingBeliefs, learnedApplied, saved>>

SaveStep == Marshal \/ WriteSynced \/ Rotate \/ Rename \/ RemoveLegacyGraph
=============================================================================
