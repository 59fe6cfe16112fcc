--------------------------- MODULE SlippageModel ---------------------------
(***************************************************************************)
(* SlippageModelManager (slippage_model_manager.ts): slippage models kept  *)
(* in memory and refreshed at an interval from a file in S3 (s3_client.ts) *)
(* that a data export job replaces from time to time.                      *)
(*                                                                         *)
(* The interval does not wait for the refresh before it, so refreshes may  *)
(* overlap.  Versions of the file are numbered in the order of their       *)
(* lastModified, which stands for the number; NoVersion is Date(0) and the *)
(* empty cache.  Versions in BadVersions are not valid JSON models.        *)
(***************************************************************************)
EXTENDS Naturals

CONSTANTS
    Refreshes,       \* calls of _refreshAsync that may be under way together
    BadVersions,     \* versions that createSlippageModelCache refuses
    ValidInterval,   \* SLIPPAGE_MODEL_S3_FILE_VALID_INTERVAL_MS, in ticks
    MaxVersions,     \* bound: versions of the file
    MaxFailures      \* bound: requests to S3 that fail

VARIABLES
    file,           \* the file in S3: does it exist, its version and its age
    cached,         \* _cachedSlippageModel, as the version it was made of
    lastRefreshed,  \* _lastRefreshed
    refresh,        \* each call of _refreshAsync: where it is, the version that was stale at
                    \* its refreshTime, the version it got
    failures        \* failed requests so far

vars == <<file, cached, lastRefreshed, refresh, failures>>

NoVersion == 0
Versions == 0 .. MaxVersions
Idle == [pc |-> "idle", stale |-> NoVersion, got |-> NoVersion]

Init ==
    /\ file = [exists |-> FALSE, version |-> NoVersion, age |-> 0]
    /\ cached = NoVersion
    /\ lastRefreshed = NoVersion
    /\ refresh = [r \in Refreshes |-> Idle]
    /\ failures = 0

-----------------------------------------------------------------------------
(* The file. *)

Write ==
    /\ file.version < MaxVersions
    /\ file' = [exists |-> TRUE, version |-> file.version + 1, age |-> 0]
    /\ UNCHANGED <<cached, lastRefreshed, refresh, failures>>

Remove ==
    /\ file.exists
    /\ file' = [file EXCEPT !.exists = FALSE]
    /\ UNCHANGED <<cached, lastRefreshed, refresh, failures>>

Tick ==
    /\ file.age <= ValidInterval
    /\ file' = [file EXCEPT !.age = @ + 1]
    /\ UNCHANGED <<cached, lastRefreshed, refresh, failures>>

IsStale == file.age > ValidInterval

-----------------------------------------------------------------------------
(* The manager. *)

\* _resetCache
ResetCache == cached' = NoVersion /\ lastRefreshed' = NoVersion

\* _refreshAsync up to its first await: refreshTime is taken, and hasFileAsync asked.
\* A version that is written later is not stale at that time.
Refresh(r) ==
    /\ refresh[r] = Idle
    /\ refresh' = [refresh EXCEPT ![r].pc = "asking", ![r].stale = IF IsStale THEN file.version ELSE NoVersion]
    /\ UNCHANGED <<file, cached, lastRefreshed, failures>>

\* Mutant: a stale file is only reported, the models stay.
HeadKeepsStale(r) ==
    /\ refresh[r].pc = "asking"
    /\ IF ~file.exists THEN ResetCache ELSE UNCHANGED <<cached, lastRefreshed>>
    /\ refresh' = [refresh EXCEPT ![r] =
         IF file.exists /\ file.version # @.stale /\ file.version > lastRefreshed
         THEN [@ EXCEPT !.pc = "loading"] ELSE Idle]
    /\ UNCHANGED <<file, failures>>

\* hasFileAsync's answer and what follows: reset if there is no file or a stale one,
\* nothing if it has been loaded, else ask for it.
Head(r) ==
    /\ refresh[r].pc = "asking"
    /\ IF ~file.exists \/ file.version = refresh[r].stale THEN ResetCache
       ELSE UNCHANGED <<cached, lastRefreshed>>
    /\ refresh' = [refresh EXCEPT ![r] =
         IF file.exists /\ file.version # @.stale /\ file.version > lastRefreshed
         THEN [@ EXCEPT !.pc = "loading"] ELSE Idle]
    /\ UNCHANGED <<file, failures>>

\* getFileContentAsync reads the file as it is now.
GetFileContent(r) ==
    /\ refresh[r].pc = "loading"
    /\ file.exists
    /\ refresh' = [refresh EXCEPT ![r].pc = "loaded", ![r].got = file.version]
    /\ UNCHANGED <<file, cached, lastRefreshed, failures>>

\* It throws when the file is gone, which is caught.
FileIsGone(r) ==
    /\ refresh[r].pc = "loading"
    /\ ~file.exists
    /\ refresh' = [refresh EXCEPT ![r] = Idle]
    /\ UNCHANGED <<file, cached, lastRefreshed, failures>>

\* Either request to S3 fails, which is caught.
RequestFails(r) ==
    /\ refresh[r].pc \in {"asking", "loading"}
    /\ failures < MaxFailures
    /\ failures' = failures + 1
    /\ refresh' = [refresh EXCEPT ![r] = Idle]
    /\ UNCHANGED <<file, cached, lastRefreshed>>

\* Mutant: the time of the refresh is kept, not that of the file that was read.
InstallStampsNow(r) ==
    /\ refresh[r].pc = "loaded"
    /\ cached' = refresh[r].got
    /\ lastRefreshed' = file.version
    /\ refresh' = [refresh EXCEPT ![r] = Idle]
    /\ UNCHANGED <<file, failures>>

\* createSlippageModelCache and the two assignments; a content that it refuses
\* leaves both as they were.
Install(r) ==
    /\ refresh[r].pc = "loaded"
    /\ IF refresh[r].got \in BadVersions
       THEN UNCHANGED <<cached, lastRefreshed>>
       ELSE cached' = refresh[r].got /\ lastRefreshed' = refresh[r].got
    /\ refresh' = [refresh EXCEPT ![r] = Idle]
    /\ UNCHANGED <<file, failures>>

Next ==
    \/ Write \/ Remove \/ Tick
    \/ \E r \in Refreshes :
         Refresh(r) \/ Head(r) \/ GetFileContent(r) \/ FileIsGone(r) \/ RequestFails(r) \/ Install(r)

(* The interval keeps calling _refreshAsync, S3 answers or fails, and the    *)
(* continuation of an answer runs.  Nothing is assumed about the file.       *)
FairSpec ==
    /\ Init /\ [][Next]_vars
    /\ \A r \in Refreshes :
         /\ WF_vars(Refresh(r)) /\ WF_vars(Head(r))
         /\ WF_vars(GetFileContent(r)) /\ WF_vars(FileIsGone(r)) /\ WF_vars(Install(r))

-----------------------------------------------------------------------------
(* Properties. *)

(* Type correctness.                                                         *)
TypeOK ==
    /\ file \in [exists : BOOLEAN, version : Versions, age : 0 .. (ValidInterval + 1)]
    /\ cached \in Versions /\ lastRefreshed \in Versions
    /\ refresh \in [Refreshes -> [pc : {"idle", "asking", "loading", "loaded"},
                                stale : Versions, got : Versions]]
    /\ failures \in 0 .. MaxFailures

(* The manager keeps "in sync with the file in S3 bucket": if the export job *)
(* leaves a valid file alone while it is fresh, the models are those of that *)
(* version in the end, although refreshes overlap, end out of order, read a  *)
(* newer version than the one they asked about, or fail.                     *)
InSync ==
    \A v \in (1 .. MaxVersions) \ BadVersions :
        <>[](file.exists /\ ~IsStale /\ file.version = v) => <>[](cached = v)

(* A file that is gone or stale for good is not used in the end, although a  *)
(* refresh that read it earlier may still install it after a reset.          *)
StaleIsDropped ==
    <>[](~file.exists \/ IsStale) => <>[](cached = NoVersion)
=============================================================================
