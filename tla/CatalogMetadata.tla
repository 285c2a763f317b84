-------------------------- MODULE CatalogMetadata --------------------------
(***************************************************************************)
(* The engine's catalog metadata: the SATCAT table is kept in memory and in  *)
(* a file, and is downloaded again when it is a day old, which is looked at  *)
(* once an hour.                                                            *)
(*                                                                         *)
(* A table is the time of its download.  A crash may come between any two    *)
(* steps; time passes in hours.                                             *)
(***************************************************************************)
EXTENDS Integers

CONSTANTS
  Day,           \* life of the table (24 in the code)
  MaxHours,      \* end of the clock (a bound)
  MaxEngineRuns  \* starts of the engine (a bound)

ASSUME MetadataAssumption == {Day, MaxHours, MaxEngineRuns} \subseteq Nat /\ Day > 0

NoTable == -1   \* nothing was ever loaded, or there is no such file
Torn    == -2   \* the beginning of a table
Tables  == 0..MaxHours
NoFile  == [table |-> NoTable, at |-> NoTable]

VARIABLES
  hour,       \* time
  runs,       \* starts of the engine so far
  metadata,   \* refresh: "down", "asleep", "due", "asking", "saving", "writing" or "written"
  table,      \* catalogMetadata.rows
  fetchedAt,  \* and fetchedAt, or NoTable
  file,       \* the cache file's table, and when it was written
  temporary,  \* its temporary file, likewise
  hourTicker,     \* the hourly ticker: "off" before the first refresh ended, "idle" or "ticked"
  accepted    \* history: the last table that was downloaded, or NoTable

metadataVars == <<hour, runs, metadata, table, fetchedAt, file, temporary, hourTicker, accepted>>
tableVars == <<table, fetchedAt, accepted>>

\* startCatalogMetadata: the beginning of a table may pass for one, or be rejected.
StartEngine ==
  /\ metadata = "down" /\ runs < MaxEngineRuns
  /\ runs' = runs + 1 /\ metadata' = "due"
  /\ \/ file.table # NoTable /\ table' = file.table /\ fetchedAt' = file.at
     \/ file.table \in {NoTable, Torn} /\ table' = NoTable /\ fetchedAt' = NoTable
  /\ UNCHANGED <<hour, file, temporary, hourTicker, accepted>>
StopEngine ==
  /\ metadata # "down" /\ metadata' = "down" /\ hourTicker' = "off"
  /\ UNCHANGED <<hour, runs, tableVars, file, temporary>>

\* The ticker keeps one tick while a refresh runs.
HourPasses ==
  /\ hour < MaxHours /\ hour' = hour + 1
  /\ hourTicker' = IF hourTicker = "off" THEN "off" ELSE "ticked"
  /\ UNCHANGED <<runs, metadata, tableVars, file, temporary>>
TickTaken ==
  /\ metadata = "asleep" /\ hourTicker = "ticked"
  /\ metadata' = "due" /\ hourTicker' = "idle"
  /\ UNCHANGED <<hour, runs, tableVars, file, temporary>>

\* A refresh returns, the first one to the ticker's start.
RefreshEnds == metadata' = "asleep" /\ hourTicker' = IF hourTicker = "off" THEN "idle" ELSE hourTicker

Outdated(at) == at = NoTable \/ hour - at >= Day

Refresh ==
  /\ metadata = "due"
  /\ IF Outdated(fetchedAt) THEN metadata' = "asking" /\ UNCHANGED hourTicker ELSE RefreshEnds
  /\ UNCHANGED <<hour, runs, tableVars, file, temporary>>

\* No reply, an incomplete one, or one that is not a table of a thousand objects.
DownloadFails ==
  /\ metadata = "asking" /\ RefreshEnds
  /\ UNCHANGED <<hour, runs, tableVars, file, temporary>>
Download ==
  /\ metadata = "asking" /\ metadata' = "saving"
  /\ table' = hour /\ fetchedAt' = hour /\ accepted' = hour
  /\ UNCHANGED <<hour, runs, file, temporary, hourTicker>>

\* The file is written beside the cache and then renamed, which keeps its time; no
\* error is reported.
SaveTableFails ==
  /\ metadata \in {"saving", "writing", "written"} /\ RefreshEnds
  /\ UNCHANGED <<hour, runs, tableVars, file, temporary>>

Written(content) == [table |-> content, at |-> hour]

\* Variant: the cache itself is written.
BeginSaveInPlace ==
  /\ metadata = "saving" /\ metadata' = "writing" /\ temporary' = Written(Torn)
  /\ file' = Written(Torn)
  /\ UNCHANGED <<hour, runs, tableVars, hourTicker>>

BeginSave ==
  /\ metadata = "saving" /\ metadata' = "writing" /\ temporary' = Written(Torn)
  /\ UNCHANGED <<hour, runs, tableVars, file, hourTicker>>

EndSave ==
  /\ metadata = "writing" /\ metadata' = "written" /\ temporary' = Written(table)
  /\ UNCHANGED <<hour, runs, tableVars, file, hourTicker>>
RenameFile ==
  /\ metadata = "written" /\ RefreshEnds
  /\ file' = temporary /\ temporary' = NoFile
  /\ UNCHANGED <<hour, runs, tableVars>>

MetadataInit ==
  /\ hour = 0 /\ runs = 0 /\ metadata = "down"
  /\ table = NoTable /\ fetchedAt = NoTable /\ accepted = NoTable
  /\ file = NoFile /\ temporary = NoFile /\ hourTicker = "off"
MetadataNext ==
  \/ StartEngine \/ StopEngine \/ HourPasses \/ TickTaken \/ Refresh
  \/ DownloadFails \/ Download
  \/ SaveTableFails \/ BeginSave \/ EndSave \/ RenameFile
MetadataSpec == MetadataInit /\ [][MetadataNext]_metadataVars

----
\* A table that the engine enriches its objects with is a whole one, also when the
\* engine that saved it was killed in the middle of a write.
MetadataWhole == table \in Tables \cup {NoTable}

\* SATCAT is downloaded at most once a day over restarts of the engine, too; only a
\* table that was neither saved nor is in memory is downloaded earlier.
SatcatSpaced ==
  [][metadata = "due" /\ metadata' = "asking" =>
       accepted \notin {table, file.table} \/ Outdated(accepted)]_metadataVars
=============================================================================
