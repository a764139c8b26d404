------------------------------- MODULE DbVersion -------------------------------
(***************************************************************************)
(* The startup guard over the on-disk databases (db_version.rs): builds    *)
(* that need different schema versions start one after the other over one  *)
(* data directory, refuse, wipe what is incompatible when forced to, and   *)
(* record their versions; any of it may be cut by a failure or the end of  *)
(* the process.  Nothing is bounded.                                       *)
(***************************************************************************)
EXTENDS Naturals

CONSTANTS
  Version,  \* schema versions
  Builds,   \* the versions each build was compiled with, per database
  NoDir,    \* the content of a directory that does not exist
  Absent,   \* the manifest before the first run
  Torn      \* a manifest whose write was cut: unreadable

Kind == {"metadata", "logs", "metrics"}

ASSUME BuildsAssumption ==
  /\ Builds \subseteq [Kind -> Version]
  /\ NoDir \notin Version
  /\ Absent \notin [Kind -> Version]
  /\ Torn \notin [Kind -> Version]
  /\ Absent # Torn

VARIABLES
  manifest,  \* versions.json
  dir,       \* the version that wrote each database, NoDir without one
  half,      \* the version whose wipe left a database half deleted, or NoDir
  build,     \* DbVersions::current of the running process, or of the last one
  force,     \* VPSINER_FORCE_DB_MIGRATION
  pc,        \* where the process is
  todo,      \* the databases still to be wiped
  misread    \* history: a good manifest could once not be read

versionVars == <<manifest, dir, half, build, force, pc, todo, misread>>

\* DbKind::ALL
Rank == [metadata |-> 1, logs |-> 2, metrics |-> 3]

\* Databases from before the manifest, or none, or those of a build.
VersionInit ==
  /\ manifest \in Builds \cup {Absent}
  /\ dir \in [Kind -> Version \cup {NoDir}]
  /\ manifest \in Builds => \A k \in Kind : dir[k] \in {manifest[k], NoDir}
  /\ half = [k \in Kind |-> NoDir]
  /\ build \in Builds
  /\ force = FALSE
  /\ pc = "off"
  /\ todo = {}
  /\ misread = FALSE

--------------------------------------------------------------------------------
\* read_versions: an unreadable manifest counts as none.
FirstRun == manifest \notin Builds

\* "A mismatch for a database that was never created, or was deleted by hand,
\* needs no wipe."  Mutants: metadata's version alone is compared; the check is
\* for a file that may be deleted already; one mismatch condemns all.
StaleMetadata(b) == {k \in {"metadata"} : manifest[k] # b[k] /\ dir[k] # NoDir}
StaleWhole(b) == {k \in Kind : manifest[k] # b[k] /\ dir[k] # NoDir /\ half[k] = NoDir}
StaleTogether(b) == {k \in Kind : manifest # b /\ dir[k] # NoDir}
Stale(b) == {k \in Kind : manifest[k] # b[k] /\ dir[k] # NoDir}

\* evaluate, up to its first change on disk.  A build that finds stale databases
\* without being forced exits, and nothing has changed.  Reading the manifest
\* may fail, which counts as having none.
StartFirst(b, f) ==
  /\ pc = "off"
  /\ pc' = "wiping"
  /\ todo' = Kind
  /\ build' = b /\ force' = f
  /\ misread' = (misread \/ ~FirstRun)
  /\ UNCHANGED <<manifest, dir, half>>

StartForced(b) ==
  /\ pc = "off"
  /\ ~FirstRun
  /\ Stale(b) # {}
  /\ pc' = "wiping"
  /\ todo' = Stale(b)
  /\ build' = b /\ force' = TRUE
  /\ UNCHANGED <<manifest, dir, half, misread>>

\* Nothing to wipe: the versions of databases that do not exist are recorded.
AfterCheck(b) == IF manifest = b THEN "running" ELSE "writing"

StartCompatible(b, f) ==
  /\ pc = "off"
  /\ ~FirstRun
  /\ Stale(b) = {}
  /\ pc' = AfterCheck(b)
  /\ build' = b /\ force' = f
  /\ UNCHANGED <<manifest, dir, half, todo, misread>>

\* remove_dir, one database after the other; a missing directory is no error.
AfterWipe(k) == IF todo = {k} THEN "writing" ELSE "wiping"

Wipe(k) ==
  /\ pc = "wiping"
  /\ k \in todo
  /\ \A j \in todo : Rank[k] <= Rank[j]
  /\ dir' = [dir EXCEPT ![k] = NoDir]
  /\ half' = [half EXCEPT ![k] = NoDir]
  /\ todo' = todo \ {k}
  /\ pc' = AfterWipe(k)
  /\ UNCHANGED <<manifest, build, force, misread>>

\* remove_dir fails, or the process dies, with some of the files deleted.
WipeCut(k) ==
  /\ pc = "wiping"
  /\ k \in todo
  /\ \A j \in todo : Rank[k] <= Rank[j]
  /\ dir[k] # NoDir
  /\ half' = [half EXCEPT ![k] = build[k]]
  /\ pc' = "off"
  /\ todo' = {}
  /\ UNCHANGED <<manifest, dir, build, force, misread>>

\* DbVersions::current
Recorded == build

\* write_versions truncates the file and then writes it.
WriteBegins ==
  /\ pc = "writing"
  /\ manifest' = Torn
  /\ pc' = "written"
  /\ UNCHANGED <<dir, half, build, force, todo, misread>>

WriteEnds ==
  /\ pc = "written"
  /\ manifest' = Recorded
  /\ pc' = "running"
  /\ UNCHANGED <<dir, half, build, force, todo, misread>>

\* The stores open; a database that is not there is created, the logs' when the
\* first line is stored.
Create(k) ==
  /\ pc = "running"
  /\ dir[k] = NoDir
  /\ dir' = [dir EXCEPT ![k] = build[k]]
  /\ UNCHANGED <<manifest, half, build, force, pc, todo, misread>>

\* The process exits, for an error that evaluate returns or for any reason.
Stop ==
  /\ pc # "off"
  /\ pc' = "off"
  /\ todo' = {}
  /\ UNCHANGED <<manifest, dir, half, build, force, misread>>

\* "delete them yourself while vpsiner is stopped"
DeleteByHand(k) ==
  /\ pc = "off"
  /\ dir[k] # NoDir
  /\ dir' = [dir EXCEPT ![k] = NoDir]
  /\ half' = [half EXCEPT ![k] = NoDir]
  /\ UNCHANGED <<manifest, build, force, pc, todo, misread>>

VersionNext ==
  \/ \E b \in Builds, f \in BOOLEAN : StartFirst(b, f)
  \/ \E b \in Builds : StartForced(b)
  \/ \E b \in Builds, f \in BOOLEAN : StartCompatible(b, f)
  \/ \E k \in Kind : Wipe(k)
  \/ \E k \in Kind : WipeCut(k)
  \/ WriteBegins
  \/ WriteEnds
  \/ \E k \in Kind : Create(k)
  \/ Stop
  \/ \E k \in Kind : DeleteByHand(k)

VersionSpec == VersionInit /\ [][VersionNext]_versionVars

--------------------------------------------------------------------------------
\* Every variable stays within its type.
VersionTypeOK ==
  /\ manifest \in Builds \cup {Absent, Torn}
  /\ dir \in [Kind -> Version \cup {NoDir}]
  /\ half \in [Kind -> Version \cup {NoDir}]
  /\ build \in Builds
  /\ force \in BOOLEAN
  /\ pc \in {"off", "wiping", "writing", "written", "running"}
  /\ todo \subseteq Kind
  /\ misread \in BOOLEAN

\* "Startup guard that refuses to run against databases written by an
\* incompatible schema" (db_version.rs:1): however earlier starts were cut, no
\* build runs on a database another version has written.
OpenedIsCurrent ==
  pc = "running" => \A k \in Kind : dir[k] \in {build[k], NoDir}

\* A database that a build was deleting when it was cut is never opened by a
\* build of that version: it comes back to finish the wipe, or refuses.  (Not if
\* it was wiping because it could not read the manifest.)
WipeIsResumed ==
  pc = "running" /\ ~misread => \A k \in Kind : half[k] # build[k]

\* A wipe without force hits nothing, while there is a manifest to read.
NoLossUnforced ==
  [][\A k \in Kind :
        /\ pc = "wiping" /\ ~FirstRun /\ ~misread
        /\ dir'[k] # dir[k] \/ half'[k] # half[k]
        => force /\ dir[k] # build[k]]_versionVars

--------------------------------------------------------------------------------
(* The inductive invariant behind the properties (proved in DatabaseProofs). *)

\* A readable manifest tells the version of every database there is.
ManifestIsTrue == ~FirstRun => \A k \in Kind : dir[k] \in {manifest[k], NoDir}

\* Only databases whose wipe is wanted are being wiped; the rest of them is gone
\* before the manifest is written.
WipeIsWanted ==
  /\ pc = "wiping" => /\ todo # {}
                      /\ ~FirstRun /\ ~misread => todo \subseteq Stale(build) /\ force
  /\ pc \in {"wiping", "writing", "written"} =>
        \A k \in Kind \ todo :
           dir[k] \in (IF FirstRun /\ pc # "written" THEN {NoDir} ELSE {build[k], NoDir})
  /\ pc = "running" => manifest = build
  /\ pc # "wiping" => todo = {}

\* What a wipe left half deleted is still there, and, unless everything is to be
\* wiped anyway, not of the wiping version.
HalfIsStale ==
  \A k \in Kind : half[k] # NoDir =>
     /\ dir[k] # NoDir
     /\ ~misread /\ (~FirstRun \/ pc = "written") => half[k] # dir[k]

GuardInv == VersionTypeOK /\ ManifestIsTrue /\ WipeIsWanted /\ HalfIsStale
================================================================================
