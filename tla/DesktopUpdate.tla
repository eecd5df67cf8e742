----------------------------- MODULE DesktopUpdate -----------------------------
(***************************************************************************)
(* The update of the portable desktop program: a release is found by a     *)
(* check, its archive is downloaded under a temporary name, and a script   *)
(* unpacks the archive over the program when the program has quit.  A      *)
(* check may replace what is known of the release while its archive is on  *)
(* the way, and the program may be killed at any time.                     *)
(***************************************************************************)
EXTENDS Naturals

CONSTANTS
  MaxRelease,   \* bound of the model: the last release
  MaxKills,     \* bound of the model: times the program is killed
  NoInfo        \* no release is known

ASSUME DesktopUpdateConstants ==
  /\ MaxRelease \in Nat \ {0} /\ MaxKills \in Nat
  /\ NoInfo \notin [version : Nat, archive : Nat]

VARIABLES
  released,     \* what GitHub answers: the number of the last release
  inPlace,      \* the release whose files are in place
  running,      \* the program runs
  info,         \* portableUpdateInfo: a release, and the one whose archive zipPath names, or 0
  fetching,     \* the release whose archive is being downloaded, or 0
  partial,      \* releases with a file under the temporary name
  zip,          \* releases with an archive under its own name
  whole,        \* of those, the ones that hold all of the release
  spoiled,      \* the others with an archive of their own name: a write that failed cut it short
  script,       \* the release the update script unpacks, or 0
  kills

desktopUpdateVars ==
  <<released, inPlace, running, info, fetching, partial, zip, whole, spoiled, script, kills>>

Releases == 1 .. MaxRelease

DesktopUpdateTypeOK ==
  /\ released \in Releases /\ inPlace \in Releases
  /\ running \in BOOLEAN
  /\ info \in [version : Releases, archive : 0 .. MaxRelease] \cup {NoInfo}
  /\ fetching \in 0 .. MaxRelease /\ script \in 0 .. MaxRelease
  /\ partial \subseteq Releases /\ zip \subseteq Releases /\ whole \subseteq zip
  /\ spoiled \subseteq Releases
  /\ kills \in 0 .. MaxKills

DesktopUpdateInit ==
  /\ released = 1 /\ inPlace = 1
  /\ running = TRUE
  /\ info = NoInfo
  /\ fetching = 0 /\ script = 0
  /\ partial = {} /\ zip = {} /\ whole = {} /\ spoiled = {}
  /\ kills = 0

-----------------------------------------------------------------------------

Released ==
  /\ released < MaxRelease
  /\ released' = released + 1
  /\ UNCHANGED <<inPlace, running, info, fetching, partial, zip, whole, spoiled, script, kills>>

\* A slip: the comparison accepts the version that runs.
IsNewerOrSame(a, b) == a >= b

\* compareSemver(a, b) > 0.
IsNewer(a, b) == a > b

\* The timer, or the user: a newer release replaces what was known.
CheckPortableUpdate ==
  /\ running
  /\ IsNewer(released, inPlace)
  /\ info' = [version |-> released, archive |-> 0]
  /\ UNCHANGED <<released, inPlace, running, fetching, partial, zip, whole, spoiled, script, kills>>

\* A slip: the archive is written under its own name.
DownloadStartsInPlace ==
  /\ running /\ fetching = 0
  /\ info # NoInfo
  /\ fetching' = info.version
  /\ partial' = IF info.version \in zip THEN partial ELSE partial \cup {info.version}
  /\ zip' = zip \cup {info.version}
  /\ UNCHANGED <<released, inPlace, running, info, whole, spoiled, script, kills>>

\* The archive is taken as it is if it is there; the button is disabled until the call answers.
DownloadStarts ==
  /\ running /\ fetching = 0
  /\ info # NoInfo
  /\ fetching' = info.version
  /\ partial' = IF info.version \in zip THEN partial ELSE partial \cup {info.version}
  /\ UNCHANGED <<released, inPlace, running, info, zip, whole, spoiled, script, kills>>

\* The temporary file is renamed at the end of the answer.  Nobody looks at whether a write failed:
\* what could be written before is renamed all the same.  (A rename that fails leaves the call
\* without an answer.)
ArchiveArrives ==
  /\ running /\ fetching \in partial
  /\ partial' = partial \ {fetching}
  /\ zip' = zip \cup {fetching}
  /\ \/ whole' = whole \cup {fetching} /\ UNCHANGED spoiled
     \/ spoiled' = spoiled \cup {fetching} /\ UNCHANGED whole
  /\ UNCHANGED <<released, inPlace, running, info, fetching, script, kills>>

\* Whatever is known now gets the path of the archive that was asked for then.
DownloadEnds ==
  /\ running /\ fetching \in zip
  /\ info' = [info EXCEPT !.archive = fetching]
  /\ fetching' = 0
  /\ UNCHANGED <<released, inPlace, running, partial, zip, whole, spoiled, script, kills>>

\* The platform does not answer, or breaks off.
FetchFails ==
  /\ running /\ fetching \in partial
  /\ partial' = partial \ {fetching}
  /\ fetching' = 0
  /\ UNCHANGED <<released, inPlace, running, info, zip, whole, spoiled, script, kills>>

\* The script is started and the program quits.
ApplyPortableUpdate ==
  /\ running /\ info # NoInfo
  /\ info.archive # 0
  /\ script' = info.archive
  /\ running' = FALSE /\ info' = NoInfo /\ fetching' = 0
  /\ UNCHANGED <<released, inPlace, partial, zip, whole, spoiled, kills>>

\* The script unpacks the archive, which it cannot do with one that is cut short, deletes it and
\* starts the program.
ScriptRuns ==
  /\ script # 0 /\ ~running
  /\ inPlace' = IF script \in whole THEN script ELSE inPlace
  /\ zip' = zip \ {script} /\ whole' = whole \ {script} /\ spoiled' = spoiled \ {script}
  /\ script' = 0 /\ running' = TRUE
  /\ UNCHANGED <<released, info, fetching, partial, kills>>

Killed ==
  /\ running /\ kills < MaxKills
  /\ kills' = kills + 1
  /\ running' = FALSE /\ info' = NoInfo /\ fetching' = 0
  /\ UNCHANGED <<released, inPlace, partial, zip, whole, spoiled, script>>

Started ==
  /\ ~running /\ script = 0
  /\ running' = TRUE
  /\ UNCHANGED <<released, inPlace, info, fetching, partial, zip, whole, spoiled, script, kills>>

DesktopUpdateNext ==
  \/ Released
  \/ CheckPortableUpdate
  \/ DownloadStarts
  \/ ArchiveArrives
  \/ DownloadEnds
  \/ FetchFails
  \/ ApplyPortableUpdate
  \/ ScriptRuns
  \/ Killed
  \/ Started

-----------------------------------------------------------------------------

\* What is unpacked over the program is an archive of a release newer than the one in place, and the
\* whole of it unless a write failed, even if the program was killed during an earlier download or a
\* check came in between (main.ts downloadPortableUpdate, desktop-update-apply).
UnpacksNewRelease ==
  script # 0 => script > inPlace /\ script \in whole \cup spoiled
=============================================================================
