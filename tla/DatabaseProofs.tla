----------------------------- MODULE DatabaseProofs -----------------------------
(***************************************************************************)
(* Proofs about what outlives a process: the version guard over the        *)
(* databases, for all versions and builds; the service dictionary, for all *)
(* names, callers, intervals and bounds, and whatever cutoffs retention    *)
(* reclaims with; and retention over the dictionary, for all retention     *)
(* times.  The components have no state in common, and their theorems are  *)
(* about a specification of their own each.                                *)
(***************************************************************************)
EXTENDS DbVersion, ServiceRetention, TLAPS

--------------------------------------------------------------------------------
(* The version guard. *)

\* The facts about a build that the steps need.
LEMMA BuildTyping ==
  ASSUME NEW b \in Builds
  PROVE  /\ DOMAIN b = Kind
         /\ \A k \in Kind : b[k] \in Version /\ b[k] # NoDir
         /\ b # Absent /\ b # Torn
BY BuildsAssumption

\* Whatever the data directory holds when the first process starts.
LEMMA GuardInit == VersionInit => GuardInv
<1> SUFFICES ASSUME VersionInit PROVE GuardInv
  OBVIOUS
<1>1. VersionTypeOK
  BY DEF VersionInit, VersionTypeOK
<1>2. ManifestIsTrue /\ WipeIsWanted
  BY DEF VersionInit, ManifestIsTrue, WipeIsWanted, FirstRun
<1>3. HalfIsStale
  BY DEF VersionInit, HalfIsStale
<1> QED BY <1>1, <1>2, <1>3 DEF GuardInv

\* A start that is allowed to go on.
LEMMA StartStep ==
  ASSUME GuardInv, NEW b \in Builds, NEW f \in BOOLEAN,
         StartFirst(b, f) \/ StartForced(b) \/ StartCompatible(b, f)
  PROVE  GuardInv'
<1>a. VersionTypeOK /\ ManifestIsTrue /\ WipeIsWanted /\ HalfIsStale
  BY DEF GuardInv
<1>b. /\ UNCHANGED <<manifest, dir, half>> /\ build' = b /\ pc = "off" /\ todo = {}
      /\ misread => misread'
  <2>1. UNCHANGED <<manifest, dir, half>> /\ build' = b /\ pc = "off" /\ todo = {}
    BY <1>a DEF StartFirst, StartForced, StartCompatible, WipeIsWanted
  <2>2. misread => misread'
    BY Zenon DEF StartFirst, StartForced, StartCompatible
  <2> QED BY <2>1, <2>2
<1>1. VersionTypeOK'
  BY <1>a, <1>b DEF VersionTypeOK, StartFirst, StartForced, StartCompatible, AfterCheck, Stale
<1>2. ManifestIsTrue'
  BY <1>a, <1>b DEF ManifestIsTrue, FirstRun
<1>3. HalfIsStale'
  <2>1. pc' # "written"
    BY DEF StartFirst, StartForced, StartCompatible, AfterCheck
  <2> QED BY <1>a, <1>b, <2>1 DEF HalfIsStale, FirstRun
<1>4. WipeIsWanted'
  <2>1. CASE StartFirst(b, f)
    <3>1. (FirstRun' \/ misread') /\ pc' = "wiping" /\ todo' = Kind
      BY <1>a, <2>1 DEF StartFirst, FirstRun
    <3>2. Kind # {}
      BY DEF Kind
    <3> QED BY <3>1, <3>2 DEF WipeIsWanted
  <2>2. CASE StartForced(b)
    <3>1. ~FirstRun' /\ pc' = "wiping" /\ todo' = Stale(b) /\ Stale(b) # {} /\ force'
      BY <2>2 DEF StartForced, FirstRun
    <3>2. Stale(build)' = Stale(b)
      BY <1>b DEF Stale
    <3>3. \A k \in Kind \ Stale(b) : dir[k] \in {b[k], NoDir}
      BY <1>a, <2>2 DEF StartForced, ManifestIsTrue, Stale
    <3> QED BY <1>b, <3>1, <3>2, <3>3 DEF WipeIsWanted
  <2>3. CASE StartCompatible(b, f)
    <3>1. ~FirstRun' /\ pc' = (IF manifest = b THEN "running" ELSE "writing") /\ todo' = {}
      BY <1>b, <2>3 DEF StartCompatible, FirstRun, AfterCheck
    <3>2. \A k \in Kind : dir[k] \in {b[k], NoDir}
      BY <1>a, <2>3 DEF StartCompatible, ManifestIsTrue, Stale
    <3> QED BY <1>b, <3>1, <3>2 DEF WipeIsWanted
  <2> QED BY <2>1, <2>2, <2>3
<1> QED BY <1>1, <1>2, <1>3, <1>4 DEF GuardInv

\* One more database is wiped.
LEMMA WipeStep ==
  ASSUME GuardInv, NEW k \in Kind, Wipe(k)
  PROVE  GuardInv'
<1>a. VersionTypeOK /\ ManifestIsTrue /\ WipeIsWanted /\ HalfIsStale
  BY DEF GuardInv
<1>b. /\ \A j \in Kind : dir'[j] = (IF j = k THEN NoDir ELSE dir[j])
      /\ \A j \in Kind : half'[j] = (IF j = k THEN NoDir ELSE half[j])
      /\ todo' = todo \ {k} /\ todo \subseteq Kind /\ k \in todo
      /\ pc = "wiping" /\ pc' = (IF todo = {k} THEN "writing" ELSE "wiping")
      /\ UNCHANGED <<manifest, build, force, misread>>
  BY <1>a DEF Wipe, AfterWipe, VersionTypeOK
<1>1. VersionTypeOK'
  BY <1>a DEF VersionTypeOK, Wipe, AfterWipe
<1>2. ManifestIsTrue'
  BY <1>a, <1>b DEF ManifestIsTrue, FirstRun
<1>3. HalfIsStale'
  BY <1>a, <1>b DEF HalfIsStale, FirstRun
<1>4. WipeIsWanted'
  <2>1. pc' = "wiping" => todo' # {} /\ (~FirstRun' /\ ~misread' => todo' \subseteq Stale(build)' /\ force')
    BY <1>a, <1>b DEF WipeIsWanted, FirstRun, Stale
  <2>2. \A j \in Kind \ todo' : dir'[j] \in (IF FirstRun' THEN {NoDir} ELSE {build'[j], NoDir})
    <3>1. \A j \in Kind \ todo : dir[j] \in (IF FirstRun THEN {NoDir} ELSE {build[j], NoDir})
      BY <1>a, <1>b DEF WipeIsWanted
    <3> QED BY <1>b, <3>1 DEF FirstRun
  <2>3. pc' # "wiping" => todo' = {}
    BY <1>b
  <2>4. pc' \in {"wiping", "writing"}
    BY <1>b
  <2> QED BY <2>1, <2>2, <2>3, <2>4 DEF WipeIsWanted
<1> QED BY <1>1, <1>2, <1>3, <1>4 DEF GuardInv

\* A wipe is cut.
LEMMA WipeCutStep ==
  ASSUME GuardInv, NEW k \in Kind, WipeCut(k)
  PROVE  GuardInv'
<1>a. VersionTypeOK /\ ManifestIsTrue /\ WipeIsWanted /\ HalfIsStale
  BY DEF GuardInv
<1>b. /\ \A j \in Kind : half'[j] = (IF j = k THEN build[k] ELSE half[j])
      /\ dir[k] # NoDir /\ k \in todo /\ pc = "wiping" /\ pc' = "off" /\ todo' = {}
      /\ UNCHANGED <<manifest, dir, build, force, misread>>
  BY <1>a DEF WipeCut, VersionTypeOK
<1>1. VersionTypeOK'
  BY <1>a, BuildTyping DEF VersionTypeOK, WipeCut
<1>2. ManifestIsTrue' /\ WipeIsWanted'
  BY <1>a, <1>b DEF ManifestIsTrue, WipeIsWanted, FirstRun
<1>3. HalfIsStale'
  <2>1. ~FirstRun /\ ~misread => build[k] # dir[k]
    BY <1>a, <1>b DEF WipeIsWanted, Stale, ManifestIsTrue
  <2> QED BY <1>a, <1>b, <2>1 DEF HalfIsStale, FirstRun
<1> QED BY <1>1, <1>2, <1>3 DEF GuardInv

\* The manifest is truncated, and then written.
LEMMA WriteStep ==
  ASSUME GuardInv, WriteBegins \/ WriteEnds
  PROVE  GuardInv'
<1>a. VersionTypeOK /\ ManifestIsTrue /\ WipeIsWanted /\ HalfIsStale /\ build \in Builds
  BY DEF GuardInv, VersionTypeOK
<1>b. UNCHANGED <<dir, half, build, force, todo, misread>> /\ todo = {} /\ Torn \notin Builds
  BY <1>a, BuildsAssumption DEF WriteBegins, WriteEnds, WipeIsWanted
<1>1. VersionTypeOK'
  BY <1>a DEF VersionTypeOK, WriteBegins, WriteEnds, Recorded
<1>2. \A k \in Kind : dir[k] \in {build[k], NoDir}
  BY <1>a, <1>b DEF WriteBegins, WriteEnds, WipeIsWanted
<1>3. CASE WriteBegins
  <2>1. FirstRun' /\ pc' = "written" /\ pc = "writing"
    BY <1>b, <1>3 DEF WriteBegins, FirstRun
  <2>2. \A k \in Kind : half[k] # NoDir => dir[k] # NoDir /\ (~misread => half[k] # dir[k])
    BY <1>a, <1>b, <2>1 DEF HalfIsStale, WipeIsWanted
  <2> QED BY <1>1, <1>2, <1>b, <2>1, <2>2 DEF GuardInv, ManifestIsTrue, WipeIsWanted, HalfIsStale
<1>4. CASE WriteEnds
  <2>1. ~FirstRun' /\ pc' = "running" /\ pc = "written" /\ manifest' = build
    BY <1>a, <1>b, <1>4 DEF WriteEnds, Recorded, FirstRun
  <2>2. \A k \in Kind : half[k] # NoDir => dir[k] # NoDir /\ (~misread => half[k] # dir[k])
    BY <1>a, <2>1 DEF HalfIsStale
  <2> QED BY <1>1, <1>2, <1>b, <2>1, <2>2 DEF GuardInv, ManifestIsTrue, WipeIsWanted, HalfIsStale
<1> QED BY <1>3, <1>4

\* A store creates its database, the process ends, the operator deletes one.
LEMMA OtherStep ==
  ASSUME GuardInv,
         (\E k \in Kind : Create(k)) \/ Stop \/ (\E k \in Kind : DeleteByHand(k)) \/ UNCHANGED versionVars
  PROVE  GuardInv'
<1>a. VersionTypeOK /\ ManifestIsTrue /\ WipeIsWanted /\ HalfIsStale /\ build \in Builds
  BY DEF GuardInv, VersionTypeOK
<1>1. ASSUME NEW k \in Kind, Create(k) PROVE GuardInv'
  <2>1. /\ \A j \in Kind : dir'[j] = (IF j = k THEN build[k] ELSE dir[j])
        /\ pc = "running" /\ dir[k] = NoDir /\ manifest = build
        /\ UNCHANGED <<manifest, half, build, force, pc, todo, misread>>
    BY <1>a, <1>1 DEF Create, VersionTypeOK, WipeIsWanted
  <2>2. VersionTypeOK'
    BY <1>a, <1>1, BuildTyping DEF VersionTypeOK, Create
  <2>3. ManifestIsTrue' /\ WipeIsWanted'
    BY <1>a, <2>1 DEF ManifestIsTrue, WipeIsWanted, FirstRun
  <2>4. HalfIsStale'
    BY <1>a, <2>1 DEF HalfIsStale, FirstRun
  <2> QED BY <2>2, <2>3, <2>4 DEF GuardInv
<1>2. ASSUME NEW k \in Kind, DeleteByHand(k) PROVE GuardInv'
  <2>1. /\ \A j \in Kind : dir'[j] = (IF j = k THEN NoDir ELSE dir[j])
        /\ \A j \in Kind : half'[j] = (IF j = k THEN NoDir ELSE half[j])
        /\ pc = "off" /\ UNCHANGED <<manifest, build, force, pc, todo, misread>>
    BY <1>a, <1>2 DEF DeleteByHand, VersionTypeOK
  <2>2. VersionTypeOK'
    BY <1>a, <1>2 DEF VersionTypeOK, DeleteByHand
  <2>3. ManifestIsTrue' /\ WipeIsWanted'
    BY <1>a, <2>1 DEF ManifestIsTrue, WipeIsWanted, FirstRun
  <2>4. HalfIsStale'
    BY <1>a, <2>1 DEF HalfIsStale, FirstRun
  <2> QED BY <2>2, <2>3, <2>4 DEF GuardInv
<1>3. CASE Stop
  BY <1>a, <1>3
     DEF Stop, GuardInv, VersionTypeOK, ManifestIsTrue, WipeIsWanted, HalfIsStale, FirstRun
<1>4. CASE UNCHANGED versionVars
  BY <1>a, <1>4
     DEF versionVars, GuardInv, VersionTypeOK, ManifestIsTrue, WipeIsWanted, HalfIsStale, FirstRun, Stale
<1> QED BY <1>1, <1>2, <1>3, <1>4

\* The invariant is inductive.
LEMMA GuardStep == GuardInv /\ [VersionNext]_versionVars => GuardInv'
<1> SUFFICES ASSUME GuardInv, VersionNext \/ UNCHANGED versionVars PROVE GuardInv'
  OBVIOUS
<1> QED BY StartStep, WipeStep, WipeCutStep, WriteStep, OtherStep DEF VersionNext

\* Every variable stays within its type.
THEOREM GuardTypeCorrect == VersionSpec => []VersionTypeOK
<1>1. GuardInv => VersionTypeOK
  BY DEF GuardInv
<1> QED BY GuardInit, GuardStep, <1>1, PTL DEF VersionSpec

\* No build ever runs on a database that another version has written, wherever
\* earlier starts were cut.
THEOREM RunsOnItsOwn == VersionSpec => []OpenedIsCurrent
<1>1. GuardInv => OpenedIsCurrent
  <2> SUFFICES ASSUME GuardInv, pc = "running", NEW k \in Kind PROVE dir[k] \in {build[k], NoDir}
    BY DEF OpenedIsCurrent
  <2> QED BY DEF GuardInv, VersionTypeOK, WipeIsWanted, ManifestIsTrue, FirstRun
<1> QED BY GuardInit, GuardStep, <1>1, PTL DEF VersionSpec

\* A build never runs on a database whose deletion by its own version was cut.
THEOREM ResumesWipe == VersionSpec => []WipeIsResumed
<1>1. GuardInv => WipeIsResumed
  <2> SUFFICES ASSUME GuardInv, pc = "running", ~misread, NEW k \in Kind, half[k] = build[k] PROVE FALSE
    BY DEF WipeIsResumed
  <2>1. build \in Builds /\ manifest = build /\ ~FirstRun
    BY DEF GuardInv, VersionTypeOK, WipeIsWanted, FirstRun
  <2>2. build[k] # NoDir
    BY <2>1, BuildTyping
  <2> QED BY <2>1, <2>2 DEF GuardInv, HalfIsStale, ManifestIsTrue
<1> QED BY GuardInit, GuardStep, <1>1, PTL DEF VersionSpec

\* With a readable manifest, a wipe destroys only what is incompatible, and only
\* when forced to.
THEOREM LosesOnlyForced == VersionSpec => NoLossUnforced
<1> DEFINE Harmless == \A k \in Kind :
             /\ pc = "wiping" /\ ~FirstRun /\ ~misread
             /\ dir'[k] # dir[k] \/ half'[k] # half[k]
             => force /\ dir[k] # build[k]
<1>1. GuardInv /\ [VersionNext]_versionVars => [Harmless]_versionVars
  <2> SUFFICES ASSUME GuardInv, VersionNext, NEW k \in Kind, pc = "wiping", ~FirstRun, ~misread,
                      dir'[k] # dir[k] \/ half'[k] # half[k]
               PROVE  force /\ dir[k] # build[k]
    OBVIOUS
  <2>1. k \in todo
    BY DEF GuardInv, VersionTypeOK, VersionNext, StartFirst, StartForced, StartCompatible, Wipe, WipeCut,
           WriteBegins, WriteEnds, Create, Stop, DeleteByHand
  <2> QED BY <2>1 DEF GuardInv, WipeIsWanted, Stale, ManifestIsTrue
<1> QED BY GuardInit, GuardStep, <1>1, PTL DEF VersionSpec, NoLossUnforced

--------------------------------------------------------------------------------
(* The service dictionary. *)

\* The invariant holds when the process starts over an earlier dictionary.
LEMMA RegistryInitInv == RegistryInit => RegistryInv
<1> SUFFICES ASSUME RegistryInit PROVE RegistryInv
  OBVIOUS
<1>1. \A n \in Name : Loaded(n) \in Sid \cup {NoSid} /\ (Loaded(n) # NoSid => Loaded(n) \in Interned /\ nameOf[Loaded(n)] = n)
  BY DEF Loaded, Interned
<1>2. RegistryTypeOK
  <2>1. now \in Nat /\ lock \in Caller \cup {Retention, Free} /\ dropped \subseteq Sid /\ lapsed \in BOOLEAN
    BY RegistryAssumption DEF RegistryInit
  <2>2. nameOf \in [Sid -> Name \cup {NoName}] /\ nextSid \in 1..(MaxSid + 1)
    BY DEF RegistryInit
  <2>3. lastSeen \in [Sid -> Nat] /\ touched \in [Sid -> Nat \cup {Never}]
    BY DEF RegistryInit
  <2>4. byName \in [Name -> Sid \cup {NoSid}]
    BY <1>1 DEF RegistryInit
  <2>5. IdleCall \in CallState
    BY DEF IdleCall, CallState
  <2>6. caller \in [Caller -> CallState]
    BY <2>5 DEF RegistryInit
  <2>7. troubles \in 0..MaxTroubles
    BY RegistryAssumption DEF RegistryInit
  <2> QED BY <2>1, <2>2, <2>3, <2>4, <2>6, <2>7 DEF RegistryTypeOK
<1>3. TableInv
  BY DEF RegistryInit, TableInv, Interned
<1>4. CacheInv
  BY <1>1, <1>3 DEF RegistryInit, CacheInv, TableInv, Attributed
<1>5. CallInv
  BY DEF RegistryInit, CallInv, IdleCall
<1> QED BY <1>2, <1>3, <1>4, <1>5 DEF RegistryInv

\* Every step keeps every variable in its type.
LEMMA RegistryTypeStep ==
  ASSUME RegistryInv, RegistryNext \/ UNCHANGED registryVars
  PROVE  RegistryTypeOK'
<1> USE DEF RegistryTypeOK, CallState
<1>a. RegistryTypeOK /\ CallInv
  BY DEF RegistryInv
<1>1. ASSUME NEW k \in Caller, NEW n \in Name, Call(k, n) PROVE RegistryTypeOK'
  <2>1. caller' \in [Caller -> CallState]
    BY <1>a, <1>1 DEF Call, Fresh
  <2> QED BY <1>a, <1>1, <2>1 DEF Call
<1>2. ASSUME NEW k \in Caller, FindFresh(k) PROVE RegistryTypeOK'
  <2>1. byName[caller[k].name] \in Sid \cup {NoSid}
    BY <1>a, <1>2 DEF FindFresh, CallInv
  <2>2. [caller[k] EXCEPT !.pc = "got", !.sid = byName[caller[k].name]] \in CallState
    <3>1. caller[k] \in CallState
      BY <1>a
    <3> QED BY <2>1, <3>1
  <2>3. caller' = [caller EXCEPT ![k] =
                     [caller[k] EXCEPT !.pc = "got", !.sid = byName[caller[k].name]]]
    BY <1>2 DEF FindFresh
  <2>4. caller' \in [Caller -> CallState]
    BY <1>a, <2>2, <2>3
  <2> QED BY <1>a, <1>2, <2>4 DEF FindFresh
<1>3. ASSUME NEW k \in Caller, BeginTouch(k) PROVE RegistryTypeOK'
  <2>1. caller[k].name \in Name /\ byName[caller[k].name] \in Sid /\ caller[k].at \in Nat
    BY <1>a, <1>3 DEF BeginTouch, CallInv
  <2>2. caller' \in [Caller -> CallState]
    <3>0. caller[k] \in CallState
      BY <1>a
    <3>1. [caller[k] EXCEPT !.pc = "touching", !.sid = byName[caller[k].name]] \in CallState
      BY <2>1, <3>0
    <3>2. caller' = [caller EXCEPT ![k] =
                       [caller[k] EXCEPT !.pc = "touching", !.sid = byName[caller[k].name]]]
      BY <1>3 DEF BeginTouch
    <3> QED BY <1>a, <3>1, <3>2
  <2>3. touched' \in [Sid -> Nat \cup {Never}]
    BY <1>a, <1>3, <2>1 DEF BeginTouch
  <2> QED BY <1>a, <1>3, <2>2, <2>3 DEF BeginTouch
<1>4. ASSUME NEW k \in Caller, TouchStored(k) PROVE RegistryTypeOK'
  <2>1. caller' \in [Caller -> CallState]
    BY <1>a, <1>4 DEF TouchStored
  <2>2. lastSeen' \in [Sid -> Nat]
    BY <1>a, <1>4 DEF TouchStored, SeenAt
  <2> QED BY <1>a, <1>4, <2>1, <2>2 DEF TouchStored
<1>5. ASSUME NEW k \in Caller, TouchFails(k) PROVE RegistryTypeOK'
  BY <1>a, <1>5, RegistryAssumption DEF TouchFails, Suffer, IdleCall
<1>6. ASSUME NEW k \in Caller, BeginResolve(k) PROVE RegistryTypeOK'
  <2>1. caller' \in [Caller -> CallState]
    BY <1>a, <1>6 DEF BeginResolve
  <2> QED BY <1>a, <1>6, <2>1 DEF BeginResolve
<1>7. ASSUME NEW k \in Caller, Resolve(k) PROVE RegistryTypeOK'
  <2>1. caller[k].name \in Name /\ caller[k].at \in Nat /\ nextSid \in Sid
    BY <1>a, <1>7 DEF Resolve, CallInv, NewSid
  <2>2. nextSid + 1 \in 1..(MaxSid + 1) /\ nextSid \in 1..(MaxSid + 1)
    BY <2>1, RegistryAssumption DEF Sid
  <2>3. PICK s \in Sid :
          /\ nextSid' = IF s \in Interned THEN nextSid ELSE nextSid + 1
          /\ nameOf' = [nameOf EXCEPT ![s] = caller[k].name]
          /\ lastSeen' = [lastSeen EXCEPT ![s] =
                            IF s \in Interned /\ caller[k].at <= @ THEN @ ELSE caller[k].at]
          /\ byName' = [byName EXCEPT ![caller[k].name] = s]
          /\ touched' = [touched EXCEPT ![s] = caller[k].at]
          /\ caller' = [caller EXCEPT ![k].pc = "got", ![k].sid = s]
    BY <1>7 DEF Resolve
  <2>4. caller' \in [Caller -> CallState]
    <3>1. [caller[k] EXCEPT !.pc = "got", !.sid = s] \in CallState
      BY <1>a
    <3>2. caller' = [caller EXCEPT ![k] = [caller[k] EXCEPT !.pc = "got", !.sid = s]]
      BY <2>3
    <3> QED BY <1>a, <3>1, <3>2
  <2>5. lastSeen' \in [Sid -> Nat] /\ touched' \in [Sid -> Nat \cup {Never}]
    BY <1>a, <2>1, <2>3
  <2>6. nameOf' \in [Sid -> Name \cup {NoName}] /\ byName' \in [Name -> Sid \cup {NoSid}]
    BY <1>a, <2>1, <2>3
  <2>7. nextSid' \in 1..(MaxSid + 1)
    BY <2>2, <2>3
  <2> QED BY <1>a, <1>7, <2>4, <2>5, <2>6, <2>7 DEF Resolve
<1>8. ASSUME NEW k \in Caller, ResolveFails(k) PROVE RegistryTypeOK'
  BY <1>a, <1>8, RegistryAssumption DEF ResolveFails, Suffer, IdleCall
<1>9. ASSUME NEW k \in Caller, Use(k) PROVE RegistryTypeOK'
  BY <1>a, <1>9 DEF Use, IdleCall
<1>10. ASSUME NEW cutoff \in Int, ReclaimDelete(cutoff) PROVE RegistryTypeOK'
  <2>1. nameOf' \in [Sid -> Name \cup {NoName}] /\ dropped' \subseteq Sid
    BY <1>a, <1>10 DEF ReclaimDelete, Interned
  <2> QED BY <1>a, <1>10, <2>1 DEF ReclaimDelete
<1>11. CASE ReclaimForget
  <2>1. byName' \in [Name -> Sid \cup {NoSid}] /\ touched' \in [Sid -> Nat \cup {Never}]
    BY <1>a, <1>11 DEF ReclaimForget, CachedAfter
  <2> QED BY <1>a, <1>11, <2>1 DEF ReclaimForget
<1>12. CASE ReclaimFails
  BY <1>a, <1>12, RegistryAssumption DEF ReclaimFails, Suffer
<1>13. CASE RegistryRestart
  <2>1. \A n \in Name : Loaded(n) \in Sid \cup {NoSid}
    BY DEF Loaded, Interned
  <2>2. byName' \in [Name -> Sid \cup {NoSid}]
    BY <1>13, <2>1 DEF RegistryRestart
  <2>3. touched' \in [Sid -> Nat \cup {Never}] /\ caller' \in [Caller -> CallState]
    BY <1>13 DEF RegistryRestart, IdleCall, Never
  <2>4. lapsed' \in BOOLEAN
    BY <1>a, <1>13 DEF RegistryRestart
  <2>5. troubles' \in 0..MaxTroubles
    BY <1>a, <1>13, RegistryAssumption DEF RegistryRestart, Suffer
  <2> QED BY <1>a, <1>13, <2>2, <2>3, <2>4, <2>5 DEF RegistryRestart
<1>14. CASE Tick
  BY <1>a, <1>14 DEF Tick
<1>15. CASE UNCHANGED registryVars
  BY <1>a, <1>15 DEF registryVars
<1> QED BY <1>1, <1>2, <1>3, <1>4, <1>5, <1>6, <1>7, <1>8, <1>9, <1>10, <1>11, <1>12,
           <1>13, <1>14, <1>15 DEF RegistryNext, IdOfStep
--------------------------------------------------------------------------------
\* An id that is looked up in the cache is attributed to its name.
LEMMA CachedIsAttributed ==
  ASSUME RegistryInv, NEW n \in Name, byName[n] # NoSid
  PROVE  byName[n] \in Sid /\ Attributed(byName[n], n)
BY DEF RegistryInv, RegistryTypeOK, CacheInv

\* What resolve_service does: it keeps the row of the name or adds a fresh one.
LEMMA ResolveEffect ==
  ASSUME RegistryInv, NEW k \in Caller, Resolve(k)
  PROVE  \E s \in Sid :
           /\ caller[k].name \in Name
           /\ lock = k /\ dropped = {} /\ lock' = Free /\ dropped' = dropped
           /\ nameOf[s] = caller[k].name \/ s = nextSid
           /\ s < nextSid'
           /\ nextSid <= nextSid'
           /\ nameOf' = [nameOf EXCEPT ![s] = caller[k].name]
           /\ byName' = [byName EXCEPT ![caller[k].name] = s]
           /\ caller' = [caller EXCEPT ![k].pc = "got", ![k].sid = s]
           /\ (\E q \in Interned : nameOf[q] = caller[k].name) => nameOf[s] = caller[k].name
<1>1. caller[k].name \in Name /\ lock = k /\ dropped = {}
  BY RegistryAssumption DEF RegistryInv, CallInv, CacheInv, Resolve
<1>2. PICK s \in Sid :
        /\ IF \E q \in Interned : nameOf[q] = caller[k].name
             THEN nameOf[s] = caller[k].name ELSE s = nextSid
        /\ nextSid' = IF s \in Interned THEN nextSid ELSE nextSid + 1
        /\ nameOf' = [nameOf EXCEPT ![s] = caller[k].name]
        /\ byName' = [byName EXCEPT ![caller[k].name] = s]
        /\ caller' = [caller EXCEPT ![k].pc = "got", ![k].sid = s]
  BY DEF Resolve, NewSid
<1>3. nextSid \in Nat /\ s \in Nat
  BY DEF RegistryInv, RegistryTypeOK, Sid
<1>4. s < nextSid'
  <2>1. CASE s \in Interned
    BY <1>2, <1>3, <2>1 DEF RegistryInv, TableInv
  <2>2. CASE s \notin Interned
    <3>1. nameOf[s] # caller[k].name
      BY <1>1, <2>2, RegistryAssumption DEF Interned
    <3> QED BY <1>2, <1>3, <2>2, <3>1
  <2> QED BY <2>1, <2>2
<1>5. nextSid <= nextSid'
  BY <1>2, <1>3
<1>6. nameOf[s] = caller[k].name \/ s = nextSid
  BY <1>2
<1>7. lock' = Free /\ dropped' = dropped
  BY DEF Resolve
<1> QED BY <1>1, <1>2, <1>4, <1>5, <1>6, <1>7

\* No step of the registry changes whose an id is.
LEMMA AttributedStays ==
  ASSUME RegistryInv, RegistryNext \/ UNCHANGED registryVars,
         NEW s \in Sid, NEW m \in Name, Attributed(s, m)
  PROVE  Attributed(s, m)'
<1>a. RegistryTypeOK /\ NoName \notin Name /\ s \in Nat /\ nextSid \in Nat
  BY RegistryAssumption DEF RegistryInv, RegistryTypeOK, Sid
<1>1. CASE UNCHANGED <<nameOf, nextSid, byName>>
  BY <1>1 DEF Attributed
<1>2. ASSUME NEW k \in Caller, Resolve(k) PROVE Attributed(s, m)'
  <2>1. PICK q \in Sid :
           /\ caller[k].name \in Name
           /\ nameOf[q] = caller[k].name \/ q = nextSid
           /\ q < nextSid'
           /\ nextSid <= nextSid'
           /\ nameOf' = [nameOf EXCEPT ![q] = caller[k].name]
           /\ byName' = [byName EXCEPT ![caller[k].name] = q]
    BY <1>2, ResolveEffect
  <2>2. q = s => m = caller[k].name
    BY <1>a, <2>1 DEF Attributed
  <2>3. nextSid' \in Nat /\ s < nextSid'
    <3>1. nextSid' \in Nat
      BY <1>2, <1>a DEF Resolve
    <3> QED BY <1>a, <2>1, <3>1 DEF Attributed
  <2>4. nameOf'[s] \in {m, NoName}
    BY <1>a, <2>1, <2>2 DEF Attributed, RegistryTypeOK
  <2>5. \A n \in Name : byName'[n] = s => n = m
    BY <1>a, <2>1, <2>2 DEF Attributed, RegistryTypeOK
  <2> QED BY <2>3, <2>4, <2>5 DEF Attributed
<1>3. ASSUME NEW cutoff \in Int, ReclaimDelete(cutoff) PROVE Attributed(s, m)'
  BY <1>3 DEF ReclaimDelete, Attributed
<1>4. CASE ReclaimForget
  <2>1. \A n \in Name : byName'[n] \in {byName[n], NoSid}
    BY <1>4 DEF ReclaimForget, CachedAfter
  <2> QED BY <1>4, <2>1 DEF ReclaimForget, Attributed, Sid, NoSid
<1>5. CASE RegistryRestart
  <2>1. \A n \in Name : byName'[n] = s => nameOf[s] = n
    BY <1>5 DEF RegistryRestart, Loaded, Sid, NoSid
  <2> QED BY <1>a, <1>5, <2>1 DEF RegistryRestart, Attributed
<1>6. ASSUME NEW k \in Caller, IdOfStep(k) \/ Use(k) PROVE Attributed(s, m)'
  BY <1>1, <1>2, <1>6
     DEF IdOfStep, Call, FindFresh, BeginTouch, TouchStored, TouchFails, BeginResolve,
         ResolveFails, Use
<1>7. CASE ReclaimFails \/ Tick \/ UNCHANGED registryVars
  BY <1>1, <1>7 DEF ReclaimFails, Tick, registryVars
<1> QED BY <1>3, <1>4, <1>5, <1>6, <1>7 DEF RegistryNext
--------------------------------------------------------------------------------
\* Ids stay below the sequence and names stay unique.
LEMMA TableInvStep ==
  ASSUME RegistryInv, RegistryNext \/ UNCHANGED registryVars
  PROVE  TableInv'
<1>a. RegistryTypeOK /\ TableInv /\ NoName \notin Name /\ nextSid \in Nat
  BY RegistryAssumption DEF RegistryInv, RegistryTypeOK, Sid
<1>1. CASE UNCHANGED <<nameOf, nextSid>>
  BY <1>a, <1>1 DEF TableInv, Interned
<1>2. ASSUME NEW k \in Caller, Resolve(k) PROVE TableInv'
  <2>1. PICK s \in Sid :
           /\ caller[k].name \in Name
           /\ s < nextSid'
           /\ nextSid <= nextSid'
           /\ nameOf' = [nameOf EXCEPT ![s] = caller[k].name]
           /\ (\E q \in Interned : nameOf[q] = caller[k].name) => nameOf[s] = caller[k].name
    BY <1>2, ResolveEffect
  <2>2. nextSid' \in Nat
    BY <1>2, <1>a DEF Resolve
  <2>3. Interned' = Interned \cup {s}
    BY <1>a, <2>1 DEF Interned, RegistryTypeOK
  <2>4. \A q \in Interned' : q < nextSid'
    <3> TAKE q \in Interned'
    <3>1. CASE q = s
      BY <2>1, <3>1
    <3>2. CASE q # s
      <4>1. q \in Interned /\ q \in Nat /\ q < nextSid
        BY <1>a, <2>3, <3>2 DEF TableInv, Interned, Sid
      <4> QED BY <1>a, <2>1, <2>2, <4>1
    <3> QED BY <3>1, <3>2
  <2>5. \A q \in Interned : q # s => nameOf[q] # caller[k].name
    BY <1>a, <2>1 DEF TableInv, Interned
  <2>6. \A p, q \in Interned' : nameOf'[p] = nameOf'[q] => p = q
    <3> TAKE p, q \in Interned'
    <3>1. nameOf'[p] = (IF p = s THEN caller[k].name ELSE nameOf[p])
      BY <1>a, <2>1, <2>3 DEF RegistryTypeOK, Interned
    <3>2. nameOf'[q] = (IF q = s THEN caller[k].name ELSE nameOf[q])
      BY <1>a, <2>1, <2>3 DEF RegistryTypeOK, Interned
    <3> QED BY <1>a, <2>3, <2>5, <3>1, <3>2 DEF TableInv
  <2> QED BY <2>4, <2>6 DEF TableInv
<1>3. ASSUME NEW cutoff \in Int, ReclaimDelete(cutoff) PROVE TableInv'
  <2>1. \A q \in Sid : nameOf'[q] \in {nameOf[q], NoName}
    BY <1>3 DEF ReclaimDelete
  <2>2. \A q \in Interned' : q \in Interned /\ nameOf'[q] = nameOf[q]
    BY <2>1 DEF Interned
  <2>3. nextSid' = nextSid
    BY <1>3 DEF ReclaimDelete
  <2> QED BY <1>a, <2>2, <2>3 DEF TableInv
<1>4. ASSUME NEW k \in Caller, IdOfStep(k) \/ Use(k) PROVE TableInv'
  BY <1>1, <1>2, <1>4
     DEF IdOfStep, Call, FindFresh, BeginTouch, TouchStored, TouchFails, BeginResolve,
         ResolveFails, Use
<1>5. CASE ReclaimForget \/ ReclaimFails \/ RegistryRestart \/ Tick \/ UNCHANGED registryVars
  BY <1>1, <1>5 DEF ReclaimForget, ReclaimFails, RegistryRestart, Tick, registryVars
<1> QED BY <1>3, <1>4, <1>5 DEF RegistryNext

\* What the cache answers with stays in the table, or on the list to forget.
LEMMA CacheInvStep ==
  ASSUME RegistryInv, RegistryNext \/ UNCHANGED registryVars
  PROVE  CacheInv'
<1> DEFINE Held(n) == byName[n] # NoSid => nameOf[byName[n]] = n \/ byName[n] \in dropped
           Owned(n) == byName[n] # NoSid => Attributed(byName[n], n)
<1>a. RegistryTypeOK /\ CacheInv /\ NoName \notin Name
  BY RegistryAssumption DEF RegistryInv
<1>b. \A n \in Name : Held(n) /\ Owned(n)
  BY <1>a DEF CacheInv
<1>c. \A n \in Name : byName[n] \in Sid \cup {NoSid}
  BY <1>a DEF RegistryTypeOK
<1>d. ASSUME NEW n \in Name, byName'[n] \in {byName[n], NoSid} PROVE Owned(n)'
  <2>1. CASE byName'[n] = NoSid
    BY <2>1
  <2>2. CASE byName'[n] # NoSid
    <3>1. byName'[n] = byName[n] /\ byName[n] \in Sid /\ Attributed(byName[n], n)
      BY <1>b, <1>c, <1>d, <2>2
    <3>2. PICK q \in Sid : q = byName[n]
      BY <3>1
    <3>3. Attributed(q, n)'
      BY <3>1, <3>2, AttributedStays
    <3> QED BY <3>1, <3>2, <3>3 DEF Attributed
  <2> QED BY <2>1, <2>2
<1>1. CASE UNCHANGED <<nameOf, byName, dropped>> /\ (lock' # Retention => dropped = {})
  <2>1. \A n \in Name : Held(n)' /\ Owned(n)'
    BY <1>b, <1>d, <1>1
  <2> QED BY <1>1, <2>1 DEF CacheInv
<1>2. ASSUME NEW k \in Caller, Resolve(k) PROVE CacheInv'
  <2>1. PICK s \in Sid :
           /\ caller[k].name \in Name
           /\ lock = k /\ dropped = {} /\ lock' = Free /\ dropped' = dropped
           /\ nameOf[s] = caller[k].name \/ s = nextSid
           /\ s < nextSid'
           /\ nextSid <= nextSid'
           /\ nameOf' = [nameOf EXCEPT ![s] = caller[k].name]
           /\ byName' = [byName EXCEPT ![caller[k].name] = s]
    BY <1>2, ResolveEffect
  <2>2. \A n \in Name : n # caller[k].name => byName[n] # s
    BY <1>a, <1>b, <2>1 DEF RegistryTypeOK, Attributed, Sid, NoSid
  <2>3. ASSUME NEW n \in Name PROVE Held(n)' /\ Owned(n)'
    <3>1. CASE n = caller[k].name
      <4>1. byName'[n] = s /\ nameOf'[s] = n
        BY <1>a, <2>1, <3>1 DEF RegistryTypeOK
      <4>2. \A m \in Name : byName'[m] = s => m = n
        BY <1>a, <2>1, <2>2, <3>1 DEF RegistryTypeOK
      <4> QED BY <2>1, <4>1, <4>2 DEF Attributed
    <3>2. CASE n # caller[k].name
      <4>1. byName'[n] = byName[n] /\ byName[n] # s
        BY <1>a, <2>1, <2>2, <3>2 DEF RegistryTypeOK
      <4>2. Owned(n)'
        BY <1>d, <4>1
      <4>3. Held(n)'
        BY <1>a, <1>b, <1>c, <2>1, <4>1 DEF RegistryTypeOK
      <4> QED BY <4>2, <4>3
    <3> QED BY <3>1, <3>2
  <2> QED BY <2>1, <2>3 DEF CacheInv
<1>3. ASSUME NEW cutoff \in Int, ReclaimDelete(cutoff) PROVE CacheInv'
  <2>1. ASSUME NEW n \in Name PROVE Held(n)' /\ Owned(n)'
    <3>1. byName'[n] = byName[n] /\ dropped = {}
      BY <1>3, <1>a, RegistryAssumption DEF ReclaimDelete, CacheInv
    <3>2. \A q \in Sid : nameOf'[q] = nameOf[q] \/ q \in dropped'
      BY <1>3 DEF ReclaimDelete
    <3> QED BY <1>b, <1>c, <1>d, <3>1, <3>2
  <2>2. lock' = Retention
    BY <1>3 DEF ReclaimDelete
  <2> QED BY <2>1, <2>2 DEF CacheInv
<1>4. CASE ReclaimForget
  <2>1. ASSUME NEW n \in Name PROVE Held(n)' /\ Owned(n)'
    <3>1. byName'[n] = (IF byName[n] \in dropped THEN NoSid ELSE byName[n]) /\ nameOf' = nameOf
      BY <1>4 DEF ReclaimForget, CachedAfter
    <3> QED BY <1>b, <1>d, <3>1
  <2> QED BY <1>4, <2>1 DEF CacheInv, ReclaimForget
<1>5. CASE RegistryRestart
  <2>1. ASSUME NEW n \in Name PROVE Held(n)' /\ Owned(n)'
    <3>1. byName'[n] # NoSid => byName'[n] \in Interned /\ nameOf[byName'[n]] = n
      BY <1>5 DEF RegistryRestart, Loaded
    <3>2. \A m \in Name : byName'[m] # NoSid => nameOf[byName'[m]] = m
      BY <1>5 DEF RegistryRestart, Loaded
    <3>3. nameOf' = nameOf /\ nextSid' = nextSid
      BY <1>5 DEF RegistryRestart
    <3>4. byName'[n] # NoSid => byName'[n] < nextSid
      BY <3>1 DEF RegistryInv, TableInv
    <3> QED BY <3>1, <3>2, <3>3, <3>4 DEF Attributed
  <2> QED BY <1>5, <2>1 DEF CacheInv, RegistryRestart
<1>7. ASSUME NEW k \in Caller, IdOfStep(k) \/ Use(k) PROVE CacheInv'
  <2>1. CASE Resolve(k)
    BY <1>2, <2>1
  <2>2. CASE ~Resolve(k)
    <3>1. UNCHANGED <<nameOf, byName, dropped>>
      BY <1>7, <2>2
         DEF IdOfStep, Call, FindFresh, BeginTouch, TouchStored, TouchFails, BeginResolve,
             ResolveFails, Use
    <3>2. lock' = lock \/ lock = Free \/ lock = k
      BY <1>7, <2>2
         DEF IdOfStep, Call, FindFresh, BeginTouch, TouchStored, TouchFails, BeginResolve,
             ResolveFails, Use, RegistryInv, CallInv
    <3>3. lock' # Retention => dropped = {}
      BY <1>a, <3>2, RegistryAssumption DEF CacheInv
    <3> QED BY <1>1, <3>1, <3>3
  <2> QED BY <2>1, <2>2
<1>8. CASE ReclaimFails \/ Tick \/ UNCHANGED registryVars
  BY <1>1, <1>8, <1>a DEF ReclaimFails, Tick, registryVars, CacheInv
<1> QED BY <1>3, <1>4, <1>5, <1>7, <1>8 DEF RegistryNext
\* The lock covers the critical section, and a found id stays its name's.
LEMMA CallInvStep ==
  ASSUME RegistryInv, RegistryNext \/ UNCHANGED registryVars
  PROVE  CallInv'
<1> DEFINE Sound(k) ==
      LET c == caller[k] IN
      /\ c.pc # "idle" => c.name \in Name
      /\ c.pc \in {"touching", "resolving"} => lock = k
      /\ c.pc \in {"touching", "got"} => c.sid \in Sid /\ Attributed(c.sid, c.name)
<1>a. RegistryTypeOK /\ CacheInv /\ (\A k \in Caller : Sound(k))
  BY DEF RegistryInv, CallInv
<1>b. SUFFICES ASSUME NEW j \in Caller PROVE Sound(j)'
  BY DEF CallInv
<1>c. ASSUME caller'[j] = caller[j], lock' = lock \/ lock # j PROVE Sound(j)'
  <2>1. CASE caller[j].pc \in {"touching", "got"}
    <3>1. PICK s \in Sid, n \in Name : s = caller[j].sid /\ n = caller[j].name /\ Attributed(s, n)
      BY <1>a, <2>1
    <3>2. Attributed(s, n)'
      BY <3>1, AttributedStays
    <3> QED BY <1>a, <1>c, <2>1, <3>1, <3>2 DEF Attributed
  <2>2. CASE caller[j].pc \notin {"touching", "got"}
    BY <1>a, <1>c, <2>2
  <2> QED BY <2>1, <2>2
<1>d. caller'[j] = IdleCall => Sound(j)'
  BY DEF IdleCall
<1>e. ASSUME NEW k \in Caller, IdOfStep(k) \/ Use(k), j # k PROVE Sound(j)'
  <2>1. caller'[j] = caller[j]
    BY <1>a, <1>e
       DEF IdOfStep, Call, FindFresh, BeginTouch, TouchStored, TouchFails, BeginResolve,
           Resolve, ResolveFails, Use, RegistryTypeOK
  <2>2. lock' = lock \/ lock = Free \/ lock = k
    BY <1>a, <1>e
       DEF IdOfStep, Call, FindFresh, BeginTouch, TouchStored, TouchFails, BeginResolve,
           Resolve, ResolveFails, Use
  <2> QED BY <1>c, <1>e, <2>1, <2>2, RegistryAssumption
<1>1. ASSUME NEW n \in Name, Call(j, n) PROVE Sound(j)'
  <2>1. CASE Fresh(n, now)
    <3>1. byName[n] \in Sid /\ Attributed(byName[n], n)
      BY <2>1, CachedIsAttributed DEF Fresh
    <3>2. caller'[j] = [pc |-> "got", name |-> n, at |-> now, sid |-> byName[n]]
      BY <1>a, <1>1, <2>1 DEF Call, RegistryTypeOK
    <3>3. UNCHANGED <<nameOf, nextSid, byName>>
      BY <1>1 DEF Call
    <3> QED BY <3>1, <3>2, <3>3 DEF Attributed
  <2>2. CASE ~Fresh(n, now)
    BY <1>a, <1>1, <2>2 DEF Call, RegistryTypeOK
  <2> QED BY <2>1, <2>2
<1>2. ASSUME FindFresh(j) PROVE Sound(j)'
  <2>1. caller[j].name \in Name /\ byName[caller[j].name] # NoSid
    BY <1>a, <1>2 DEF FindFresh, Fresh
  <2>2. byName[caller[j].name] \in Sid /\ Attributed(byName[caller[j].name], caller[j].name)
    BY <2>1, CachedIsAttributed
  <2>3. caller'[j] = [caller[j] EXCEPT !.pc = "got", !.sid = byName[caller[j].name]]
    BY <1>a, <1>2 DEF FindFresh, RegistryTypeOK
  <2>4. caller[j] \in CallState
    BY <1>a DEF RegistryTypeOK
  <2>5. caller'[j].pc = "got" /\ caller'[j].name = caller[j].name
        /\ caller'[j].sid = byName[caller[j].name]
    BY <2>3, <2>4 DEF CallState
  <2>6. UNCHANGED <<nameOf, nextSid, byName>>
    BY <1>2 DEF FindFresh
  <2> QED BY <2>1, <2>2, <2>5, <2>6 DEF Attributed
<1>3. ASSUME BeginTouch(j) PROVE Sound(j)'
  <2>1. caller[j].name \in Name /\ byName[caller[j].name] # NoSid
    BY <1>a, <1>3 DEF BeginTouch
  <2>2. byName[caller[j].name] \in Sid /\ Attributed(byName[caller[j].name], caller[j].name)
    BY <2>1, CachedIsAttributed
  <2>3. caller'[j] = [caller[j] EXCEPT !.pc = "touching", !.sid = byName[caller[j].name]]
    BY <1>a, <1>3 DEF BeginTouch, RegistryTypeOK
  <2>4. caller[j] \in CallState
    BY <1>a DEF RegistryTypeOK
  <2>5. caller'[j].pc = "touching" /\ caller'[j].name = caller[j].name
        /\ caller'[j].sid = byName[caller[j].name]
    BY <2>3, <2>4 DEF CallState
  <2>6. UNCHANGED <<nameOf, nextSid, byName>> /\ lock' = j
    BY <1>3 DEF BeginTouch
  <2> QED BY <2>1, <2>2, <2>5, <2>6 DEF Attributed
<1>4. ASSUME TouchStored(j) PROVE Sound(j)'
  <2>1. caller'[j] = [caller[j] EXCEPT !.pc = "got"] /\ UNCHANGED <<nameOf, nextSid, byName>>
    BY <1>a, <1>4 DEF TouchStored, RegistryTypeOK
  <2>2. caller[j] \in CallState
    BY <1>a DEF RegistryTypeOK
  <2>3. caller'[j].pc = "got" /\ caller'[j].name = caller[j].name /\ caller'[j].sid = caller[j].sid
    BY <2>1, <2>2 DEF CallState
  <2>4. caller[j].name \in Name /\ caller[j].sid \in Sid /\ Attributed(caller[j].sid, caller[j].name)
    BY <1>a, <1>4 DEF TouchStored
  <2> QED BY <2>1, <2>3, <2>4 DEF Attributed
<1>5. ASSUME BeginResolve(j) PROVE Sound(j)'
  <2>1. caller'[j] = [caller[j] EXCEPT !.pc = "resolving"] /\ lock' = j
    BY <1>a, <1>5 DEF BeginResolve, RegistryTypeOK
  <2>2. caller[j] \in CallState
    BY <1>a DEF RegistryTypeOK
  <2>3. caller'[j].pc = "resolving" /\ caller'[j].name = caller[j].name
    BY <2>1, <2>2 DEF CallState
  <2>4. caller[j].name \in Name
    BY <1>a, <1>5 DEF BeginResolve
  <2> QED BY <2>1, <2>3, <2>4
<1>6. ASSUME Resolve(j) PROVE Sound(j)'
  <2>1. PICK s \in Sid :
           /\ caller[j].name \in Name
           /\ nameOf' = [nameOf EXCEPT ![s] = caller[j].name]
           /\ byName' = [byName EXCEPT ![caller[j].name] = s]
           /\ caller' = [caller EXCEPT ![j].pc = "got", ![j].sid = s]
    BY <1>6, ResolveEffect
  <2>2. caller[j] \in CallState
    BY <1>a DEF RegistryTypeOK
  <2>3. caller'[j].pc = "got" /\ caller'[j].name = caller[j].name /\ caller'[j].sid = s
    BY <1>a, <2>1, <2>2 DEF CallState, RegistryTypeOK
  <2>4. byName'[caller[j].name] = s
    BY <1>a, <2>1 DEF RegistryTypeOK
  <2>5. CacheInv'
    BY CacheInvStep
  <2>6. Attributed(s, caller[j].name)'
    <3>1. s # NoSid
      BY DEF Sid, NoSid
    <3>2. \A n \in Name : byName'[n] # NoSid =>
             /\ byName'[n] < nextSid'
             /\ nameOf'[byName'[n]] \in {n, NoName}
             /\ \A m \in Name : byName'[m] = byName'[n] => m = n
      BY <2>5 DEF CacheInv, Attributed
    <3>3. /\ s < nextSid'
          /\ nameOf'[s] \in {caller[j].name, NoName}
          /\ \A m \in Name : byName'[m] = s => m = caller[j].name
      BY <2>1, <2>4, <3>1, <3>2
    <3>4. caller'[j].name = caller[j].name
      BY <2>3
    <3> QED BY <2>3, <3>3 DEF Attributed
  <2> QED BY <2>1, <2>3, <2>6 DEF Attributed
<1>7. ASSUME TouchFails(j) \/ ResolveFails(j) \/ Use(j) PROVE Sound(j)'
  BY <1>a, <1>d, <1>7 DEF TouchFails, ResolveFails, Use, RegistryTypeOK
<1>8. ASSUME NEW k \in Caller, IdOfStep(k) \/ Use(k) PROVE Sound(j)'
  BY <1>1, <1>2, <1>3, <1>4, <1>5, <1>6, <1>7, <1>8, <1>e DEF IdOfStep
<1>9. ASSUME NEW cutoff \in Int, ReclaimDelete(cutoff) PROVE Sound(j)'
  BY <1>9, <1>c, RegistryAssumption DEF ReclaimDelete
<1>10. CASE ReclaimForget
  BY <1>10, <1>c, RegistryAssumption DEF ReclaimForget
<1>11. CASE RegistryRestart
  BY <1>11, <1>d DEF RegistryRestart
<1>12. CASE ReclaimFails \/ Tick \/ UNCHANGED registryVars
  BY <1>12, <1>c DEF ReclaimFails, Tick, registryVars
<1> QED BY <1>8, <1>9, <1>10, <1>11, <1>12 DEF RegistryNext

\* The invariant is inductive.
LEMMA RegistryInvStep ==
  ASSUME RegistryInv, RegistryNext \/ UNCHANGED registryVars
  PROVE  RegistryInv'
BY RegistryTypeStep, TableInvStep, CacheInvStep, CallInvStep DEF RegistryInv

\* The registry holds its invariant, for any names, callers and cutoffs.
THEOREM RegistryHolds == RegistrySpec => []RegistryInv
<1>1. RegistryInv /\ [RegistryNext]_registryVars => RegistryInv'
  BY RegistryInvStep
<1> QED BY RegistryInitInv, <1>1, PTL DEF RegistrySpec

\* What the cache answers with outside a reclamation is in the table under that
\* name: a fact of each state.
LEMMA CacheMatches == RegistryInv => CacheMatchesTable
BY RegistryAssumption DEF RegistryInv, RegistryTypeOK, CacheInv, CacheMatchesTable

--------------------------------------------------------------------------------
(* Retention. *)

\* The registry's variables but for the count of troubles.
Quiet == UNCHANGED <<now, nameOf, lastSeen, nextSid, byName, touched, lock, caller,
                     dropped, lapsed>>

\* Whatever retention does is a step of the registry, or leaves it alone.
LEMMA StepOfRegistry ==
  ASSUME RetentionInv, Next \/ UNCHANGED vars
  PROVE  \/ RegistryNext \/ UNCHANGED registryVars
         \/ Suffer /\ Quiet
<1>1. ASSUME NEW k \in Caller, IdOf(k) \/ WriteRow(k) \/ WriteCheckpoint(k) \/ Discard(k)
      PROVE RegistryNext
  BY <1>1 DEF IdOf, WriteRow, WriteCheckpoint, Discard, RegistryNext
<1>2. ASSUME NEW r \in rows, RollUp(r) PROVE UNCHANGED registryVars
  BY <1>2 DEF RollUp
<1>3. CASE BeginCleanup \/ CleanMetrics \/ CleanLogs \/ Prune
  BY <1>3 DEF BeginCleanup, CleanMetrics, CleanLogs, Prune
<1>4. CASE CleanMetricsFails \/ CleanLogsFails \/ PruneFails
  BY <1>4 DEF CleanMetricsFails, CleanLogsFails, PruneFails, Quiet
<1>5. CASE Reclaim
  <2>1. ReclaimCutoff(cleaner.cutoff) \in Int
    BY RegistryAssumption, RetentionAssumption DEF RetentionInv, TypeOK, ReclaimCutoff
  <2> QED BY <1>5, <2>1 DEF Reclaim, RegistryNext
<1>6. CASE Forget \/ CleanupGivesUp \/ Restart \/ Pass
  BY <1>6 DEF Forget, CleanupGivesUp, Restart, Pass, RegistryNext
<1>7. CASE UNCHANGED vars
  BY <1>7 DEF vars
<1> QED BY <1>1, <1>2, <1>3, <1>4, <1>5, <1>6, <1>7 DEF Next

\* A failure elsewhere disturbs nothing in the registry.
LEMMA QuietStep ==
  ASSUME RegistryInv, Suffer, Quiet
  PROVE  RegistryInv'
<1>1. RegistryTypeOK'
  BY RegistryAssumption DEF RegistryInv, RegistryTypeOK, Suffer, Quiet
<1>2. TableInv'
  BY DEF RegistryInv, TableInv, Interned, Quiet
<1>3. CacheInv'
  BY DEF RegistryInv, CacheInv, Attributed, Quiet
<1>4. CallInv'
  BY DEF RegistryInv, CallInv, Attributed, Quiet
<1> QED BY <1>1, <1>2, <1>3, <1>4 DEF RegistryInv

\* The registry's invariant survives every step of retention.
LEMMA RegistryKept ==
  ASSUME RetentionInv, Next \/ UNCHANGED vars
  PROVE  RegistryInv'
BY StepOfRegistry, QuietStep, RegistryInvStep DEF RetentionInv

\* Nor does any step of retention change whose an id is.
LEMMA AttributedKept ==
  ASSUME RetentionInv, Next \/ UNCHANGED vars,
         NEW s \in Sid, NEW m \in Name, Attributed(s, m)
  PROVE  Attributed(s, m)'
<1>1. CASE RegistryNext \/ UNCHANGED registryVars
  BY <1>1, AttributedStays DEF RetentionInv
<1>2. CASE Quiet
  BY <1>2 DEF Quiet, Attributed
<1> QED BY <1>1, <1>2, StepOfRegistry

\* A bucket ends at or after what it holds, and less than its width after it.
LEMMA BucketEndBounds ==
  ASSUME NEW t \in Nat
  PROVE  BucketEnd(t) \in Nat /\ t <= BucketEnd(t) /\ BucketEnd(t) < t + Bucket
<1>1. Bucket \in Nat /\ Bucket > 0
  BY RetentionAssumption
<1>2. PICK q \in Int : q = (-t) \div Bucket
  BY <1>1
<1>3. q * Bucket <= -t /\ -t < q * Bucket + Bucket
  BY <1>1, <1>2, SMTT(30)
<1>4. PICK p \in Int : p = q * Bucket
  BY <1>1
<1> QED BY <1>1, <1>2, <1>3, <1>4 DEF BucketEnd

\* The rows and checkpoints after a step are old ones, or are written under the
\* id that a caller has been given for their service.
LEMMA RecordsStep ==
  ASSUME RetentionInv, Next \/ UNCHANGED vars, NEW r \in (rows \cup checkpoints)'
  PROVE  /\ r \in Record
         /\ \/ \E q \in rows \cup checkpoints : r.sid = q.sid /\ r.of = q.of
            \/ \E k \in Caller : /\ caller[k].pc = "got"
                                  /\ r.sid = caller[k].sid /\ r.of = caller[k].name
<1> DEFINE Old == \E q \in rows \cup checkpoints : r.sid = q.sid /\ r.of = q.of
           New == \E k \in Caller : /\ caller[k].pc = "got"
                                     /\ r.sid = caller[k].sid /\ r.of = caller[k].name
<1>a. TypeOK /\ RegistryTypeOK /\ CallInv
  BY DEF RetentionInv, RegistryInv
<1>b. r \in rows \cup checkpoints => r \in Record /\ Old
  BY <1>a DEF TypeOK
<1>1. ASSUME NEW k \in Caller, WriteRow(k) PROVE r \in Record /\ (Old \/ New)
  <2>1. CASE r \in rows \cup checkpoints
    BY <1>b, <2>1
  <2>2. CASE r \notin rows \cup checkpoints
    <3>1. r = [sid |-> caller[k].sid, ts |-> caller[k].at, of |-> caller[k].name]
      BY <1>1, <2>2 DEF WriteRow
    <3>2. caller[k].pc = "got" /\ caller[k].sid \in Sid /\ caller[k].name \in Name /\ caller[k].at \in Nat
      BY <1>1, <1>a DEF WriteRow, Use, CallInv, RegistryTypeOK, CallState
    <3> QED BY <3>1, <3>2 DEF Record
  <2> QED BY <2>1, <2>2
<1>2. ASSUME NEW k \in Caller, WriteCheckpoint(k) PROVE r \in Record /\ (Old \/ New)
  <2>1. CASE r \in rows \cup checkpoints
    BY <1>b, <2>1
  <2>2. CASE r \notin rows \cup checkpoints
    <3>1. PICK age \in Ages :
             /\ age <= caller[k].at
             /\ r = [sid |-> caller[k].sid, ts |-> caller[k].at - age, of |-> caller[k].name]
      BY <1>2, <2>2 DEF WriteCheckpoint
    <3>2. caller[k].pc = "got" /\ caller[k].sid \in Sid /\ caller[k].name \in Name /\ caller[k].at \in Nat
      BY <1>2, <1>a DEF WriteCheckpoint, Use, CallInv, RegistryTypeOK, CallState
    <3>3. caller[k].at - age \in Nat
      BY <3>1, <3>2, RetentionAssumption
    <3> QED BY <3>1, <3>2, <3>3 DEF Record
  <2> QED BY <2>1, <2>2
<1>3. ASSUME NEW q \in rows, RollUp(q) PROVE r \in Record /\ (Old \/ New)
  <2>1. CASE r \in rows \cup checkpoints
    BY <1>b, <2>1
  <2>2. CASE r \notin rows \cup checkpoints
    <3>1. r = [q EXCEPT !.ts = BucketEnd(q.ts)]
      BY <1>3, <2>2 DEF RollUp
    <3>2. q \in Record
      BY <1>3, <1>a DEF TypeOK
    <3>3. BucketEnd(q.ts) \in Nat
      BY <3>2, BucketEndBounds DEF Record
    <3> QED BY <3>1, <3>2, <3>3 DEF Record
  <2> QED BY <2>1, <2>2
<1>4. CASE rows' \subseteq rows /\ checkpoints' \subseteq checkpoints
  BY <1>4, <1>b
<1>5. \/ rows' \subseteq rows /\ checkpoints' \subseteq checkpoints
      \/ \E k \in Caller : WriteRow(k) \/ WriteCheckpoint(k)
      \/ \E q \in rows : RollUp(q)
  <2>1. CASE CleanMetrics \/ CleanMetricsFails
    BY <2>1 DEF CleanMetrics, CleanMetricsFails
  <2>2. CASE Prune
    BY <2>2 DEF Prune
  <2>3. CASE BeginCleanup \/ CleanLogs \/ CleanLogsFails \/ PruneFails \/ Reclaim \/ Forget
             \/ CleanupGivesUp \/ Restart
    BY <2>3
       DEF BeginCleanup, CleanLogs, CleanLogsFails, PruneFails, Reclaim, Forget,
           CleanupGivesUp, Restart
  <2>4. ASSUME NEW k \in Caller, IdOf(k) \/ Discard(k)
        PROVE rows' \subseteq rows /\ checkpoints' \subseteq checkpoints
    BY <2>4 DEF IdOf, Discard, retentionVars
  <2>5. CASE Pass \/ UNCHANGED vars
    BY <2>5 DEF Pass, vars, retentionVars
  <2>6. CASE (\E k \in Caller : WriteRow(k) \/ WriteCheckpoint(k)) \/ (\E q \in rows : RollUp(q))
    BY <2>6
  <2> QED BY <2>1, <2>2, <2>3, <2>4, <2>5, <2>6 DEF Next
<1> QED BY <1>1, <1>2, <1>3, <1>4, <1>5

\* Every record stays attributed to the service it was written for.
LEMMA RecordsAttributedStep ==
  ASSUME RetentionInv, Next \/ UNCHANGED vars
  PROVE  RecordsAttributed'
<1> SUFFICES ASSUME NEW r \in (rows \cup checkpoints)' PROVE Attributed(r.sid, r.of)'
  BY DEF RecordsAttributed
<1>1. r.sid \in Sid /\ r.of \in Name
  BY RecordsStep DEF Record
<1>2. Attributed(r.sid, r.of)
  <2>1. \A k \in Caller : caller[k].pc = "got" => Attributed(caller[k].sid, caller[k].name)
    BY DEF RetentionInv, RegistryInv, CallInv
  <2>2. \A q \in rows \cup checkpoints : Attributed(q.sid, q.of)
    BY DEF RetentionInv, RecordsAttributed
  <2> QED BY RecordsStep, <2>1, <2>2
<1>3. PICK s \in Sid, m \in Name : s = r.sid /\ m = r.of
  BY <1>1
<1>4. Attributed(s, m)'
  BY <1>2, <1>3, AttributedKept
<1> QED BY <1>3, <1>4 DEF Attributed

\* Every step keeps every variable in its type.
LEMMA TypeStep ==
  ASSUME RetentionInv, Next \/ UNCHANGED vars
  PROVE  TypeOK'
<1> DEFINE CleanerOK == cleaner \in [pc: {"idle", "metrics", "logs", "prune", "reclaim", "forget"},
                                     cutoff: Int, ok: BOOLEAN, starting: BOOLEAN]
<1>a. TypeOK /\ RegistryTypeOK
  BY DEF RetentionInv, TypeOK
<1>b. IdleCleaner \in [pc: {"idle", "metrics", "logs", "prune", "reclaim", "forget"},
                       cutoff: Int, ok: BOOLEAN, starting: BOOLEAN]
  BY DEF IdleCleaner
<1>c. Cutoff \in Int
  BY <1>a, RetentionAssumption DEF Cutoff, RegistryTypeOK
<1>1. RegistryTypeOK'
  BY RegistryKept DEF RegistryInv
<1>2. rows' \subseteq Record /\ checkpoints' \subseteq Record
  BY RecordsStep
<1>3. CleanerOK' /\ pruneFailed' \in BOOLEAN
  <2>1. CASE BeginCleanup
    BY <1>a, <1>c, <2>1 DEF BeginCleanup, TypeOK
  <2>2. CASE CleanMetrics \/ CleanMetricsFails
    BY <1>a, <2>2 DEF CleanMetrics, CleanMetricsFails, TypeOK
  <2>3. CASE CleanLogs \/ CleanLogsFails
    BY <1>a, <1>b, <2>3 DEF CleanLogs, CleanLogsFails, TypeOK
  <2>4. CASE Prune \/ PruneFails
    BY <1>a, <1>b, <2>4 DEF Prune, PruneFails, AfterPrune, TypeOK
  <2>5. CASE Reclaim \/ Forget \/ CleanupGivesUp
    BY <1>a, <1>b, <2>5 DEF Reclaim, Forget, CleanupGivesUp, TypeOK
  <2>6. CASE Restart
    BY <1>a, <1>c, <2>6 DEF Restart, TypeOK
  <2>7. CASE UNCHANGED <<cleaner, pruneFailed>>
    BY <1>a, <2>7 DEF TypeOK
  <2>8. ASSUME NEW k \in Caller, IdOf(k) \/ WriteRow(k) \/ WriteCheckpoint(k) \/ Discard(k)
        PROVE UNCHANGED <<cleaner, pruneFailed>>
    BY <2>8 DEF IdOf, WriteRow, WriteCheckpoint, Discard, retentionVars
  <2>9. ASSUME NEW r \in rows, RollUp(r) PROVE UNCHANGED <<cleaner, pruneFailed>>
    BY <2>9 DEF RollUp
  <2>10. CASE Pass \/ UNCHANGED vars
    BY <2>7, <2>10 DEF Pass, vars, retentionVars
  <2> QED BY <2>1, <2>2, <2>3, <2>4, <2>5, <2>6, <2>7, <2>8, <2>9, <2>10 DEF Next
<1> QED BY <1>1, <1>2, <1>3 DEF TypeOK

\* The invariant holds when the process starts.
LEMMA RetentionInit == Init => RetentionInv
<1> SUFFICES ASSUME Init PROVE RetentionInv
  OBVIOUS
<1>1. RegistryInv
  BY RegistryInitInv DEF Init
<1>2. TypeOK
  <2>1. RegistryTypeOK
    BY <1>1 DEF RegistryInv
  <2>2. cleaner \in [pc: {"idle", "metrics", "logs", "prune", "reclaim", "forget"},
                     cutoff: Int, ok: BOOLEAN, starting: BOOLEAN]
    BY DEF Init, IdleCleaner
  <2>3. rows \subseteq Record /\ checkpoints \subseteq Record /\ pruneFailed \in BOOLEAN
    BY DEF Init
  <2> QED BY <2>1, <2>2, <2>3 DEF TypeOK
<1>3. RecordsAttributed
  BY DEF Init, RecordsAttributed
<1> QED BY <1>1, <1>2, <1>3 DEF RetentionInv

\* The invariant is inductive.
LEMMA RetentionStep == RetentionInv /\ [Next]_vars => RetentionInv'
BY TypeStep, RegistryKept, RecordsAttributedStep DEF RetentionInv

--------------------------------------------------------------------------------
\* Every variable of the registry and of retention stays within its type.
THEOREM TypeCorrect == Spec => []TypeOK
<1>1. RetentionInv => TypeOK
  BY DEF RetentionInv
<1> QED BY RetentionInit, RetentionStep, <1>1, PTL DEF Spec

\* Outside a reclamation, whatever the cache answers with is in the table under
\* that name, whatever retention reclaims and whichever calls fail: id_of never
\* hands out a dropped id.
THEOREM CacheNeverStale == Spec => []CacheMatchesTable
<1>1. RetentionInv => CacheMatchesTable
  BY CacheMatches DEF RetentionInv
<1> QED BY RetentionInit, RetentionStep, <1>1, PTL DEF Spec

\* A row or checkpoint is never read as another service's, through failures,
\* restarts and reclamations.
THEOREM NeverMisattributed == Spec => []NoMisattribution
<1>1. RetentionInv => NoMisattribution
  BY DEF RetentionInv, RecordsAttributed, Attributed, NoMisattribution
<1> QED BY RetentionInit, RetentionStep, <1>1, PTL DEF Spec

--------------------------------------------------------------------------------
(* NoOrphans *)

\* Buckets end at multiples of their width.
LEMMA BucketEndIdempotent ==
  ASSUME NEW t \in Nat
  PROVE  BucketEnd(BucketEnd(t)) = BucketEnd(t)
<1>1. Bucket \in Nat /\ Bucket > 0
  BY RetentionAssumption
<1>2. PICK e \in Nat : e = BucketEnd(t)
  BY BucketEndBounds
<1>3. PICK m \in Int : e = m * Bucket
  <2>1. PICK q \in Int : q = (-t) \div Bucket
    BY <1>1
  <2>2. e = -(q * Bucket)
    BY <2>1, <1>2 DEF BucketEnd
  <2>3. -(q * Bucket) = (-q) * Bucket
    BY <1>1
  <2> QED BY <2>1, <2>2, <2>3
<1>4. PICK n \in Int : BucketEnd(e) = n * Bucket
  <2>1. PICK q \in Int : q = (-e) \div Bucket
    BY <1>1
  <2>2. BucketEnd(e) = -(q * Bucket)
    BY <2>1 DEF BucketEnd
  <2>3. -(q * Bucket) = (-q) * Bucket
    BY <1>1
  <2> QED BY <2>1, <2>2, <2>3
<1>5. m * Bucket <= n * Bucket /\ n * Bucket < m * Bucket + Bucket
  BY <1>2, <1>3, <1>4, BucketEndBounds
<1>6. (m * Bucket) + Bucket = (m + 1) * Bucket
  BY <1>1
<1>7. n < m + 1
  BY <1>1, <1>5, <1>6, SMTT(30)
<1>8. m <= n
  BY <1>1, <1>5, SMTT(30)
<1>9. m = n
  BY <1>7, <1>8
<1> QED BY <1>2, <1>3, <1>4, <1>9

\* What was used by t was used by any earlier time.
LEMMA NotedEarlier ==
  ASSUME TypeOK, NEW s \in Sid, NEW t \in Int, NEW u \in Int, u <= t, Noted(s, t)
  PROVE  Noted(s, u)
<1>1. TouchInterval \in Nat
  BY RegistryAssumption
<1>2. lastSeen[s] \in Nat /\ (\A k \in Caller : caller[k].at \in Nat)
  BY DEF TypeOK, RegistryTypeOK, CallState
<1>3. CASE t < lastSeen[s] + TouchInterval
  BY <1>1, <1>2, <1>3 DEF Noted
<1>4. CASE \E k \in Caller : caller[k].pc = "touching" /\ caller[k].sid = s
                            /\ t < caller[k].at + TouchInterval
  BY <1>1, <1>2, <1>4 DEF Noted
<1> QED BY <1>3, <1>4 DEF Noted

\* While no touch is lost, a watermark or a pending touch stays as recent as it
\* was, for as long as the id has its row.
LEMMA NotedWhileInterned ==
  ASSUME RegistryInv, RegistryNext \/ UNCHANGED registryVars, ~lapsed',
         NEW s \in Sid, NEW t \in Int, Noted(s, t), s \in Interned'
  PROVE  Noted(s, t)'
<1>a. RegistryTypeOK /\ CallInv
  BY DEF RegistryInv
<1>b. TouchInterval \in Nat /\ lastSeen[s] \in Nat /\ (\A k \in Caller : caller[k].at \in Nat)
  BY <1>a, RegistryAssumption DEF RegistryTypeOK, CallState
<1>c. s \in Interned
  BY DEF Noted
<1>1. CASE /\ lastSeen'[s] \in Nat /\ lastSeen[s] <= lastSeen'[s]
           /\ \A k \in Caller : caller[k].pc = "touching" => caller'[k] = caller[k]
  <2>1. CASE t < lastSeen[s] + TouchInterval
    <3>1. t < lastSeen'[s] + TouchInterval
      BY <1>b, <1>1, <2>1
    <3> QED BY <3>1 DEF Noted
  <2>2. CASE \E k \in Caller : caller[k].pc = "touching" /\ caller[k].sid = s
                              /\ t < caller[k].at + TouchInterval
    BY <1>1, <2>2 DEF Noted
  <2> QED BY <2>1, <2>2 DEF Noted
<1>2. ASSUME NEW j \in Caller, TouchStored(j) PROVE Noted(s, t)'
  <2>1. lastSeen' = SeenAt(caller[j].sid, caller[j].at)
    BY <1>2 DEF TouchStored
  <2>2. lastSeen'[s] \in Nat /\ lastSeen[s] <= lastSeen'[s]
    BY <1>a, <1>b, <2>1 DEF SeenAt, RegistryTypeOK
  <2>3. CASE t < lastSeen[s] + TouchInterval
    <3>1. t < lastSeen'[s] + TouchInterval
      BY <1>b, <2>2, <2>3
    <3> QED BY <3>1 DEF Noted
  <2>4. ASSUME NEW k \in Caller, caller[k].pc = "touching", caller[k].sid = s,
               t < caller[k].at + TouchInterval
        PROVE Noted(s, t)'
    <3>1. k = j
      BY <1>a, <1>2, <2>4 DEF CallInv, TouchStored
    <3>2. caller[k].at <= lastSeen'[s]
      BY <1>a, <1>b, <1>c, <2>1, <2>4, <3>1 DEF SeenAt, RegistryTypeOK
    <3>3. t < lastSeen'[s] + TouchInterval
      BY <1>b, <2>2, <2>4, <3>2
    <3> QED BY <3>3 DEF Noted
  <2> QED BY <2>3, <2>4 DEF Noted
<1>3. ASSUME NEW j \in Caller, Resolve(j) PROVE Noted(s, t)'
  <2>1. PICK q \in Sid :
          /\ lastSeen' = [lastSeen EXCEPT ![q] =
                            IF q \in Interned /\ caller[j].at <= @ THEN @ ELSE caller[j].at]
          /\ caller' = [caller EXCEPT ![j].pc = "got", ![j].sid = q]
          /\ nameOf[q] = caller[j].name \/ q = nextSid
    BY <1>3 DEF Resolve, NewSid
  <2>2. q = s => q \in Interned
    BY <1>c
  <2>3. lastSeen'[s] \in Nat /\ lastSeen[s] <= lastSeen'[s]
    BY <1>a, <1>b, <2>1, <2>2 DEF RegistryTypeOK
  <2>4. \A k \in Caller : caller[k].pc = "touching" => caller'[k] = caller[k]
    BY <1>a, <1>3, <2>1 DEF Resolve, RegistryTypeOK
  <2> QED BY <1>1, <2>3, <2>4
<1>4. ASSUME NEW j \in Caller,
             \/ \E n \in Name : Call(j, n)
             \/ FindFresh(j) \/ BeginTouch(j) \/ BeginResolve(j) \/ ResolveFails(j) \/ Use(j)
      PROVE Noted(s, t)'
  <2>1. lastSeen' = lastSeen /\ caller[j].pc # "touching"
        /\ (\A k \in Caller : k # j => caller'[k] = caller[k])
    BY <1>a, <1>4
       DEF Call, FindFresh, BeginTouch, BeginResolve, ResolveFails, Use, RegistryTypeOK
  <2> QED BY <1>1, <1>b, <2>1
<1>5. ASSUME NEW cutoff \in Int, ReclaimDelete(cutoff) PROVE Noted(s, t)'
  BY <1>1, <1>b, <1>5 DEF ReclaimDelete
<1>6. CASE ReclaimForget \/ ReclaimFails \/ Tick \/ UNCHANGED registryVars
  BY <1>1, <1>b, <1>6 DEF ReclaimForget, ReclaimFails, Tick, registryVars
<1>7. CASE RegistryRestart
  <2>1. lastSeen' = lastSeen /\ (\A k \in Caller : caller[k].pc # "touching")
    BY <1>7 DEF RegistryRestart
  <2> QED BY <1>1, <1>b, <2>1
<1>8. ASSUME NEW j \in Caller, TouchFails(j) PROVE FALSE
  BY <1>8 DEF TouchFails
<1> QED BY <1>2, <1>3, <1>4, <1>5, <1>6, <1>7, <1>8 DEF RegistryNext, IdOfStep

\* Only a reclamation takes the row of an id away, and only of one that nobody
\* has used since the cutoff.
LEMMA InternedStays ==
  ASSUME OrphanInv, Next \/ UNCHANGED vars, NEW s \in Sid, s \in Interned,
         cleaner.pc = "reclaim" => Noted(s, cleaner.cutoff - Bucket)
  PROVE  s \in Interned'
<1>a. TypeOK /\ RegistryTypeOK /\ RegistryInv /\ CallInv /\ NoName \notin Name
  BY RegistryAssumption DEF OrphanInv, RetentionInv, RegistryInv
<1>1. CASE nameOf' = nameOf
  BY <1>1 DEF Interned
<1>2. ASSUME NEW k \in Caller, IdOf(k) PROVE s \in Interned'
  <2>1. CASE Resolve(k)
    <3>1. PICK q \in Sid : caller[k].name \in Name /\ nameOf' = [nameOf EXCEPT ![q] = caller[k].name]
      BY <1>a, <2>1, ResolveEffect
    <3> QED BY <1>a, <3>1 DEF Interned, RegistryTypeOK
  <2>2. CASE ~Resolve(k)
    BY <1>1, <1>2, <2>2
       DEF IdOf, IdOfStep, Call, FindFresh, BeginTouch, TouchStored, TouchFails, BeginResolve,
           ResolveFails
  <2> QED BY <2>1, <2>2
<1>3. CASE Reclaim
  <2>1. \A k \in Caller : caller[k].pc # "touching"
    BY <1>a, <1>3, RegistryAssumption DEF Reclaim, ReclaimDelete, CallInv
  <2>2. cleaner.cutoff - Bucket < lastSeen[s] + TouchInterval
    BY <1>3, <2>1 DEF Reclaim, Noted
  <2>3. lastSeen[s] \in Nat /\ cleaner.cutoff \in Int /\ Bucket \in Nat /\ TouchInterval \in Nat
    BY <1>a, RegistryAssumption, RetentionAssumption DEF TypeOK, RegistryTypeOK
  <2>4. ~(lastSeen[s] < ReclaimCutoff(cleaner.cutoff))
    BY <2>2, <2>3 DEF ReclaimCutoff
  <2>5. nameOf'[s] = nameOf[s]
    BY <1>3, <2>4 DEF Reclaim, ReclaimDelete
  <2> QED BY <2>5 DEF Interned
<1>4. ASSUME NEW k \in Caller, WriteRow(k) \/ WriteCheckpoint(k) \/ Discard(k)
      PROVE s \in Interned'
  BY <1>1, <1>4 DEF WriteRow, WriteCheckpoint, Discard, Use
<1>5. ASSUME NEW r \in rows, RollUp(r) PROVE s \in Interned'
  BY <1>1, <1>5 DEF RollUp, registryVars
<1>6. CASE BeginCleanup \/ CleanMetrics \/ CleanLogs \/ Prune
  BY <1>1, <1>6 DEF BeginCleanup, CleanMetrics, CleanLogs, Prune, registryVars
<1>7. CASE CleanMetricsFails \/ CleanLogsFails \/ PruneFails
  BY <1>1, <1>7 DEF CleanMetricsFails, CleanLogsFails, PruneFails
<1>8. CASE Forget \/ CleanupGivesUp
  BY <1>1, <1>8 DEF Forget, CleanupGivesUp, ReclaimForget, ReclaimFails
<1>9. CASE Restart \/ Pass
  BY <1>1, <1>9 DEF Restart, Pass, RegistryRestart, Tick
<1>10. CASE UNCHANGED vars
  BY <1>1, <1>10 DEF vars, registryVars
<1> QED BY <1>2, <1>3, <1>4, <1>5, <1>6, <1>7, <1>8, <1>9, <1>10 DEF Next

\* What is as recent as the cutoff, or as recent as it has to be outside a
\* reclamation, stays so.
LEMMA NotedStays ==
  ASSUME OrphanInv, Next \/ UNCHANGED vars, ~lapsed',
         NEW s \in Sid, NEW t \in Int, Noted(s, t),
         cleaner.pc = "reclaim" => Noted(s, cleaner.cutoff - Bucket)
  PROVE  Noted(s, t)'
<1>a. RetentionInv /\ RegistryInv
  BY DEF OrphanInv, RetentionInv
<1>1. s \in Interned'
  BY InternedStays DEF Noted
<1>2. CASE RegistryNext \/ UNCHANGED registryVars
  BY <1>a, <1>1, <1>2, NotedWhileInterned
<1>3. CASE Suffer /\ Quiet
  BY <1>3 DEF Quiet, Noted, Interned
<1> QED BY <1>a, <1>2, <1>3, StepOfRegistry

\* A lost touch is never forgotten.
LEMMA LapsedStays ==
  ASSUME RetentionInv, Next \/ UNCHANGED vars, ~lapsed'
  PROVE  ~lapsed
<1>1. CASE RegistryNext \/ UNCHANGED registryVars
  BY <1>1
     DEF RegistryNext, IdOfStep, Call, FindFresh, BeginTouch, TouchStored, TouchFails,
         BeginResolve, Resolve, ResolveFails, Use, ReclaimDelete, ReclaimForget, ReclaimFails,
         RegistryRestart, Tick, registryVars
<1>2. CASE Quiet
  BY <1>2 DEF Quiet
<1> QED BY <1>1, <1>2, StepOfRegistry

\* A week starts no later than now, and so does one of some weeks ago.
LEMMA CutoffInPast ==
  ASSUME now \in Nat
  PROVE  Cutoff \in Int /\ Cutoff <= now
<1>1. Week \in Nat /\ Week > 0 /\ RetentionWeeks \in Nat
  BY RetentionAssumption
<1>2. PICK w \in Nat : w = now % Week
  BY <1>1
<1>3. RetentionWeeks * Week \in Nat
  BY <1>1
<1> QED BY <1>2, <1>3 DEF Cutoff

\* Calls end in time and cutoffs stay in the past.
LEMMA InTimeStep ==
  ASSUME OrphanInv, Next \/ UNCHANGED vars
  PROVE  InTime'
<1> DEFINE Timely(j) == caller[j].pc # "idle" => now <= caller[j].at + OpTime
           Cleaning == /\ cleaner.pc # "idle" => cleaner.cutoff <= now
                       /\ cleaner.pc \in {"reclaim", "forget"} => cleaner.ok
<1>a. RetentionInv /\ TypeOK /\ RegistryTypeOK /\ (\A j \in Caller : Timely(j)) /\ Cleaning
  BY DEF OrphanInv, RetentionInv, TypeOK, InTime
<1>b. OpTime \in Nat /\ now \in Nat /\ (\A j \in Caller : caller[j] \in CallState)
  BY <1>a, RegistryAssumption DEF RegistryTypeOK
<1>1. ASSUME NEW j \in Caller PROVE Timely(j)'
  <2>1. CASE now' = now /\ caller'[j] = caller[j]
    BY <1>a, <2>1
  <2>2. CASE caller'[j] = IdleCall
    BY <2>2 DEF IdleCall
  <2>3. CASE now' = now /\ caller'[j].at = caller[j].at /\ caller[j].pc # "idle"
    BY <1>a, <2>3
  <2>4. ASSUME NEW n \in Name, Call(j, n) PROVE Timely(j)'
    <3>1. caller'[j].at = now /\ now' = now
      BY <1>a, <2>4 DEF Call, RegistryTypeOK
    <3> QED BY <1>b, <3>1
  <2>5. CASE FindFresh(j) \/ BeginTouch(j) \/ TouchStored(j) \/ BeginResolve(j)
    <3>1. now' = now /\ caller'[j].at = caller[j].at /\ caller[j].pc # "idle"
      BY <1>a, <1>b, <2>5
         DEF FindFresh, BeginTouch, TouchStored, BeginResolve, RegistryTypeOK, CallState
    <3> QED BY <2>3, <3>1
  <2>6. CASE Resolve(j)
    <3>1. PICK q \in Sid : caller' = [caller EXCEPT ![j].pc = "got", ![j].sid = q]
      BY <2>6 DEF Resolve
    <3>2. now' = now /\ caller'[j].at = caller[j].at /\ caller[j].pc # "idle"
      BY <1>a, <1>b, <2>6, <3>1 DEF Resolve, RegistryTypeOK, CallState
    <3> QED BY <2>3, <3>2
  <2>7. CASE TouchFails(j) \/ ResolveFails(j) \/ Use(j)
    BY <1>a, <2>2, <2>7 DEF TouchFails, ResolveFails, Use, RegistryTypeOK
  <2>8. ASSUME NEW k \in Caller, k # j, IdOfStep(k) \/ Use(k) PROVE Timely(j)'
    <3>1. now' = now /\ caller'[j] = caller[j]
      BY <1>a, <2>8
         DEF IdOfStep, Call, FindFresh, BeginTouch, TouchStored, TouchFails, BeginResolve,
             Resolve, ResolveFails, Use, RegistryTypeOK
    <3> QED BY <2>1, <3>1
  <2>9. CASE (\E cutoff \in Int : ReclaimDelete(cutoff)) \/ ReclaimForget \/ ReclaimFails
             \/ UNCHANGED registryVars
    BY <2>1, <2>9 DEF ReclaimDelete, ReclaimForget, ReclaimFails, registryVars
  <2>10. CASE RegistryRestart
    BY <2>2, <2>10 DEF RegistryRestart
  <2>11. CASE Tick
    BY <1>b, <2>11 DEF Tick, CallState
  <2>12. CASE RegistryNext
    BY <2>4, <2>5, <2>6, <2>7, <2>8, <2>9, <2>10, <2>11, <2>12 DEF RegistryNext, IdOfStep
  <2>13. CASE Quiet
    BY <2>1, <2>13 DEF Quiet
  <2> QED BY <1>a, <2>9, <2>12, <2>13, StepOfRegistry
<1>2. Cleaning'
  <2>1. now <= now' /\ now' \in Nat
    <3>1. CASE RegistryNext \/ UNCHANGED registryVars
      <4>1. now' = now \/ now' = now + 1
        BY <3>1
           DEF RegistryNext, IdOfStep, Call, FindFresh, BeginTouch, TouchStored, TouchFails,
               BeginResolve, Resolve, ResolveFails, Use, ReclaimDelete, ReclaimForget,
               ReclaimFails, RegistryRestart, Tick, registryVars
      <4> QED BY <1>b, <4>1
    <3>2. CASE Quiet
      BY <1>b, <3>2 DEF Quiet
    <3> QED BY <1>a, <3>1, <3>2, StepOfRegistry
  <2>2. Cutoff <= now
    BY <1>b, RetentionAssumption, CutoffInPast
  <2>3. cleaner.cutoff \in Int /\ cleaner \in [pc: {"idle", "metrics", "logs", "prune", "reclaim", "forget"},
                   cutoff: Int, ok: BOOLEAN, starting: BOOLEAN]
    BY <1>a DEF TypeOK
  <2>4. CASE cleaner' = cleaner
    BY <1>a, <1>b, <2>1, <2>3, <2>4
  <2>5. CASE cleaner' = IdleCleaner
    BY <2>5 DEF IdleCleaner
  <2>6. CASE BeginCleanup
    BY <1>b, <2>2, <2>3, <2>6 DEF BeginCleanup, registryVars
  <2>7. CASE Restart
    BY <1>b, <2>2, <2>7 DEF Restart, RegistryRestart
  <2>8. CASE CleanMetrics \/ CleanMetricsFails \/ CleanLogs
    <3>1. cleaner'.cutoff = cleaner.cutoff /\ cleaner.pc # "idle" /\ cleaner'.pc \in {"logs", "prune"}
      BY <2>3, <2>8 DEF CleanMetrics, CleanMetricsFails, CleanLogs
    <3> QED BY <1>a, <1>b, <2>1, <2>3, <3>1
  <2>9. CASE Prune \/ PruneFails
    <3>1. cleaner' = (IF cleaner.ok THEN [cleaner EXCEPT !.pc = "reclaim"] ELSE IdleCleaner)
          /\ cleaner.pc = "prune"
      BY <2>9 DEF Prune, PruneFails, AfterPrune
    <3>2. CASE cleaner.ok
      <4>1. cleaner'.cutoff = cleaner.cutoff /\ cleaner.pc # "idle" /\ cleaner'.ok
        BY <2>3, <3>1, <3>2
      <4> QED BY <1>a, <1>b, <2>1, <2>3, <4>1
    <3> QED BY <2>5, <3>1, <3>2
  <2>10. CASE Reclaim
    <3>1. cleaner'.cutoff = cleaner.cutoff /\ cleaner.pc = "reclaim" /\ cleaner'.ok = cleaner.ok
      BY <2>3, <2>10 DEF Reclaim
    <3> QED BY <1>a, <1>b, <2>1, <2>3, <3>1
  <2>11. CASE CleanLogsFails \/ Forget \/ CleanupGivesUp
    BY <2>5, <2>11 DEF CleanLogsFails, Forget, CleanupGivesUp
  <2>12. ASSUME NEW k \in Caller, IdOf(k) \/ WriteRow(k) \/ WriteCheckpoint(k) \/ Discard(k)
         PROVE Cleaning'
    BY <2>4, <2>12 DEF IdOf, WriteRow, WriteCheckpoint, Discard, retentionVars
  <2>13. ASSUME NEW r \in rows, RollUp(r) PROVE Cleaning'
    BY <2>4, <2>13 DEF RollUp
  <2>14. CASE Pass \/ UNCHANGED vars
    BY <2>4, <2>14 DEF Pass, vars, retentionVars
  <2> QED BY <2>6, <2>7, <2>8, <2>9, <2>10, <2>11, <2>12, <2>13, <2>14 DEF Next
<1> QED BY <1>1, <1>2 DEF InTime

\* What is dropped was stale by the pass's cutoff, and nothing touches it while
\* it waits to be forgotten.
LEMMA DroppedStep ==
  ASSUME OrphanInv, Next \/ UNCHANGED vars
  PROVE  DroppedIsStale'
<1>a. RetentionInv /\ TypeOK /\ RegistryInv /\ CallInv /\ CacheInv /\ DroppedIsStale
  BY DEF OrphanInv, RetentionInv, RegistryInv
<1>1. CASE UNCHANGED <<dropped, lastSeen, cleaner>>
  BY <1>a, <1>1 DEF DroppedIsStale, ReclaimCutoff
<1>2. CASE dropped' = {}
  BY <1>2 DEF DroppedIsStale
<1>3. CASE Reclaim
  <2>1. cleaner'.pc = "forget" /\ cleaner'.cutoff = cleaner.cutoff
    BY <1>a, <1>3 DEF Reclaim, TypeOK
  <2>2. \A s \in dropped' : lastSeen'[s] < ReclaimCutoff(cleaner.cutoff)
    BY <1>3 DEF Reclaim, ReclaimDelete
  <2> QED BY <2>1, <2>2 DEF DroppedIsStale, ReclaimCutoff
<1>4. CASE Forget
  BY <1>2, <1>4 DEF Forget, ReclaimForget
<1>5. CASE Restart
  BY <1>2, <1>5 DEF Restart, RegistryRestart
<1>6. ASSUME NEW k \in Caller, IdOf(k) PROVE DroppedIsStale'
  <2>1. CASE TouchStored(k) \/ Resolve(k)
    <3>1. dropped = {} /\ dropped' = dropped
      BY <1>a, <2>1, RegistryAssumption DEF TouchStored, Resolve, CallInv, CacheInv
    <3> QED BY <1>2, <3>1
  <2>2. CASE ~(TouchStored(k) \/ Resolve(k))
    BY <1>1, <1>6, <2>2
       DEF IdOf, IdOfStep, Call, FindFresh, BeginTouch, TouchFails, BeginResolve,
           ResolveFails, retentionVars
  <2> QED BY <2>1, <2>2
<1>7. ASSUME NEW k \in Caller, WriteRow(k) \/ WriteCheckpoint(k) \/ Discard(k)
      PROVE DroppedIsStale'
  BY <1>1, <1>7 DEF WriteRow, WriteCheckpoint, Discard, Use, retentionVars
<1>8. ASSUME NEW r \in rows, RollUp(r) PROVE DroppedIsStale'
  BY <1>1, <1>8 DEF RollUp, registryVars
<1>9. CASE cleaner.pc # "forget" /\ dropped' = dropped
  BY <1>2, <1>9, <1>a DEF DroppedIsStale
<1>10. CASE BeginCleanup \/ CleanMetrics \/ CleanLogs \/ Prune
  BY <1>9, <1>10 DEF BeginCleanup, CleanMetrics, CleanLogs, Prune, registryVars
<1>11. CASE CleanMetricsFails \/ CleanLogsFails \/ PruneFails
  BY <1>9, <1>11 DEF CleanMetricsFails, CleanLogsFails, PruneFails
<1>12. CASE CleanupGivesUp
  BY <1>9, <1>12 DEF CleanupGivesUp, ReclaimFails
<1>13. CASE Pass \/ UNCHANGED vars
  BY <1>1, <1>13 DEF Pass, Tick, vars, registryVars, retentionVars
<1> QED BY <1>3, <1>4, <1>5, <1>6, <1>7, <1>8, <1>10, <1>11, <1>12, <1>13 DEF Next

\* While no touch is lost, touched_ms is backed by the table or by the touch in
\* progress.
LEMMA TouchedStep ==
  ASSUME RegistryInv, TouchedIsNoted, CallersNoted, ~lapsed',
         RegistryNext \/ UNCHANGED registryVars
  PROVE  TouchedIsNoted'
<1> DEFINE Backed(s) == touched[s] # Never =>
             \/ touched[s] <= lastSeen[s]
             \/ \E k \in Caller : /\ caller[k].pc = "touching" /\ caller[k].sid = s
                                   /\ touched[s] <= caller[k].at
<1>a. RegistryTypeOK /\ CallInv /\ CacheInv /\ (\A s \in Sid : Backed(s))
  BY DEF RegistryInv, TouchedIsNoted
<1>b. SUFFICES ASSUME NEW s \in Sid PROVE Backed(s)'
  BY DEF TouchedIsNoted
<1>c. /\ lastSeen[s] \in Nat /\ touched[s] \in Nat \cup {Never}
      /\ \A k \in Caller : caller[k] \in CallState /\ caller[k].at \in Nat
  BY <1>a DEF RegistryTypeOK, CallState
<1>1. CASE /\ touched'[s] = touched[s] \/ touched'[s] = Never
           /\ lastSeen' = lastSeen
           /\ \A k \in Caller : caller[k].pc = "touching" => caller'[k] = caller[k]
  BY <1>a, <1>1
<1>2. ASSUME NEW j \in Caller,
             \/ \E n \in Name : Call(j, n)
             \/ FindFresh(j) \/ BeginResolve(j) \/ ResolveFails(j) \/ Use(j)
      PROVE Backed(s)'
  <2>1. lastSeen' = lastSeen /\ touched' = touched /\ caller[j].pc # "touching"
        /\ (\A k \in Caller : k # j => caller'[k] = caller[k])
    BY <1>a, <1>2 DEF Call, FindFresh, BeginResolve, ResolveFails, Use, RegistryTypeOK
  <2> QED BY <1>1, <2>1
<1>3. ASSUME NEW j \in Caller, BeginTouch(j) PROVE Backed(s)'
  <2>1. PICK q \in Sid : q = byName[caller[j].name]
    BY <1>a, <1>3 DEF BeginTouch, CallInv, RegistryTypeOK
  <2>2. caller'[j] = [caller[j] EXCEPT !.pc = "touching", !.sid = q]
        /\ (\A k \in Caller : k # j => caller'[k] = caller[k])
    BY <1>a, <1>3, <2>1 DEF BeginTouch, RegistryTypeOK
  <2>3. caller'[j].pc = "touching" /\ caller'[j].sid = q /\ caller'[j].at = caller[j].at
    BY <1>c, <2>2 DEF CallState
  <2>4. lastSeen' = lastSeen /\ touched' = [touched EXCEPT ![q] = caller[j].at]
        /\ caller[j].pc # "touching"
    BY <1>3, <2>1 DEF BeginTouch
  <2>5. CASE q = s
    <3>1. touched'[s] = caller[j].at
      BY <1>a, <2>4, <2>5 DEF RegistryTypeOK
    <3> QED BY <1>c, <2>3, <2>5, <3>1
  <2>6. CASE q # s
    <3>1. touched'[s] = touched[s]
      BY <1>a, <2>4, <2>6 DEF RegistryTypeOK
    <3> QED BY <1>1, <2>2, <2>4, <3>1
  <2> QED BY <2>5, <2>6
<1>4. ASSUME NEW j \in Caller, TouchStored(j), touched[s] # Never PROVE Backed(s)'
  <2>1. lastSeen' = SeenAt(caller[j].sid, caller[j].at) /\ touched' = touched
    BY <1>4 DEF TouchStored
  <2>2. lastSeen'[s] \in Nat /\ lastSeen[s] <= lastSeen'[s]
    BY <1>a, <1>c, <2>1 DEF SeenAt, RegistryTypeOK
  <2>3. CASE touched[s] <= lastSeen[s]
    <3>1. touched[s] \in Nat
      BY <1>c, <1>4
    <3>2. touched[s] <= lastSeen'[s]
      BY <1>c, <2>2, <2>3, <3>1
    <3> QED BY <2>1, <3>2
  <2>4. ASSUME NEW k \in Caller, caller[k].pc = "touching", caller[k].sid = s,
               touched[s] <= caller[k].at, ~(touched[s] <= lastSeen[s])
        PROVE Backed(s)'
    <3>1. k = j
      BY <1>a, <1>4, <2>4 DEF CallInv, TouchStored
    <3>2. s \in Interned
      BY <2>4 DEF CallersNoted, Noted
    <3>3. caller[k].at <= lastSeen'[s]
      BY <1>a, <1>c, <2>1, <2>4, <3>1, <3>2 DEF SeenAt, RegistryTypeOK
    <3>4. touched[s] \in Nat
      BY <1>c, <1>4
    <3>5. touched[s] <= lastSeen'[s]
      BY <1>c, <2>2, <2>4, <3>3, <3>4
    <3> QED BY <2>1, <3>5
  <2> QED BY <1>a, <1>4, <2>3, <2>4
<1>5. ASSUME NEW j \in Caller, Resolve(j) PROVE Backed(s)'
  <2>1. PICK q \in Sid :
          /\ lastSeen' = [lastSeen EXCEPT ![q] =
                            IF q \in Interned /\ caller[j].at <= @ THEN @ ELSE caller[j].at]
          /\ touched' = [touched EXCEPT ![q] = caller[j].at]
          /\ caller' = [caller EXCEPT ![j].pc = "got", ![j].sid = q]
    BY <1>5 DEF Resolve
  <2>2. CASE q = s
    <3>1. touched'[s] = caller[j].at /\ lastSeen'[s] \in Nat /\ caller[j].at <= lastSeen'[s]
      BY <1>a, <1>c, <2>1, <2>2 DEF RegistryTypeOK
    <3> QED BY <3>1
  <2>3. CASE q # s
    <3>1. touched'[s] = touched[s] /\ lastSeen'[s] = lastSeen[s]
      BY <1>a, <2>1, <2>3 DEF RegistryTypeOK
    <3>2. \A k \in Caller : caller[k].pc = "touching" => caller'[k] = caller[k]
      BY <1>a, <1>5, <2>1 DEF Resolve, RegistryTypeOK
    <3> QED BY <1>a, <3>1, <3>2
  <2> QED BY <2>2, <2>3
<1>6. CASE (\E cutoff \in Int : ReclaimDelete(cutoff)) \/ ReclaimFails \/ Tick \/ UNCHANGED registryVars
  BY <1>1, <1>6 DEF ReclaimDelete, ReclaimFails, Tick, registryVars
<1>7. CASE ReclaimForget
  BY <1>1, <1>7 DEF ReclaimForget
<1>8. CASE RegistryRestart
  BY <1>8 DEF RegistryRestart
<1>9. ASSUME NEW j \in Caller, TouchFails(j) PROVE FALSE
  BY <1>9 DEF TouchFails
<1>10. ASSUME NEW j \in Caller, TouchStored(j), touched[s] = Never PROVE Backed(s)'
  BY <1>10 DEF TouchStored
<1> QED BY <1>2, <1>3, <1>4, <1>5, <1>6, <1>7, <1>8, <1>9, <1>10 DEF RegistryNext, IdOfStep

\* A caller that holds an id asked for it within OpTime, so its id was used less
\* than a bucket before any cutoff a pass works with.
LEMMA CallerClearsCutoff ==
  ASSUME OrphanInv, ~lapsed, NEW j \in Caller, caller[j].pc \in {"touching", "got"},
         cleaner.pc # "idle"
  PROVE  Noted(caller[j].sid, cleaner.cutoff - Bucket)
<1>1. TypeOK /\ RegistryTypeOK /\ CallInv
  BY DEF OrphanInv, RetentionInv, RegistryInv
<1>2. PICK s \in Sid, t \in Int : s = caller[j].sid /\ t = caller[j].at /\ Noted(s, t)
  BY <1>1 DEF OrphanInv, CallersNoted, CallInv, RegistryTypeOK, CallState
<1>3. cleaner.cutoff <= now /\ now <= t + OpTime
  BY <1>2 DEF OrphanInv, InTime
<1>4. cleaner.cutoff \in Int /\ now \in Nat /\ OpTime \in Nat /\ Bucket \in Nat /\ OpTime <= Bucket
  BY <1>1, RegistryAssumption, RetentionAssumption DEF TypeOK, RegistryTypeOK
<1>5. PICK u \in Int : u = cleaner.cutoff - Bucket
  BY <1>4
<1>6. u <= t
  BY <1>2, <1>3, <1>4, <1>5
<1> QED BY <1>1, <1>2, <1>5, <1>6, NotedEarlier

\* While no touch is lost, an id that id_of has returned was used as recently as
\* it was asked for, whether it came from the cache, a touch or an insert.
LEMMA CallersNotedStep ==
  ASSUME OrphanInv, Next \/ UNCHANGED vars, ~lapsed'
  PROVE  CallersNoted'
<1> DEFINE Fine(j) == caller[j].pc \in {"touching", "got"} => Noted(caller[j].sid, caller[j].at)
<1>a. /\ RetentionInv /\ TypeOK /\ RegistryInv /\ RegistryTypeOK /\ CallInv /\ CacheInv
      /\ InTime /\ DroppedIsStale
  BY DEF OrphanInv, RetentionInv, RegistryInv
<1>b. ~lapsed /\ TouchedIsNoted /\ CallersNoted
  BY LapsedStays DEF OrphanInv, RetentionInv
<1>c. SUFFICES ASSUME NEW j \in Caller PROVE Fine(j)'
  BY DEF CallersNoted
<1>d. /\ caller[j] \in CallState /\ TouchInterval \in Nat /\ TouchInterval > 0
      /\ now \in Nat /\ Bucket \in Nat /\ cleaner.cutoff \in Int
  BY <1>a, RegistryAssumption, RetentionAssumption DEF TypeOK, RegistryTypeOK
<1>e. ASSUME caller[j].pc \in {"touching", "got"},
             caller'[j].sid = caller[j].sid, caller'[j].at = caller[j].at
      PROVE Fine(j)'
  <2>1. PICK s \in Sid, t \in Int : s = caller[j].sid /\ t = caller[j].at /\ Noted(s, t)
    BY <1>a, <1>b, <1>d, <1>e DEF CallersNoted, CallInv, CallState
  <2>2. cleaner.pc = "reclaim" => Noted(s, cleaner.cutoff - Bucket)
    BY <1>b, <1>e, <2>1, CallerClearsCutoff
  <2>3. Noted(s, t)'
    BY <2>1, <2>2, NotedStays
  <2> QED BY <1>e, <2>1, <2>3 DEF Noted
<1>f. caller'[j] = caller[j] => Fine(j)'
  BY <1>e
<1>g. caller'[j] = IdleCall => Fine(j)'
  BY DEF IdleCall
<1>h. ASSUME NEW n \in Name, NEW at \in Nat, Fresh(n, at), at = now \/ dropped = {}
      PROVE Noted(byName[n], at)
  <2>1. PICK s \in Sid : s = byName[n] /\ touched[s] \in Nat /\ at - touched[s] < TouchInterval
    BY <1>a, <1>h DEF Fresh, RegistryTypeOK
  <2>2. lastSeen[s] \in Nat /\ (\A k \in Caller : caller[k].at \in Nat)
    BY <1>a DEF RegistryTypeOK, CallState
  <2>3. nameOf[s] = n \/ s \in dropped
    BY <1>a, <1>h, <2>1 DEF CacheInv, Fresh
  <2>4. touched[s] <= lastSeen[s] =>  at < lastSeen[s] + TouchInterval
    BY <1>d, <2>1, <2>2
  <2>5. CASE s \in dropped
    <3>1. at = now /\ lock = Retention
      BY <1>a, <1>h, <2>5 DEF CacheInv
    <3>2. \A k \in Caller : caller[k].pc # "touching"
      BY <1>a, <3>1, RegistryAssumption DEF CallInv
    <3>3. touched[s] <= lastSeen[s]
      BY <1>b, <2>1, <3>2 DEF TouchedIsNoted, Never
    <3>4. lastSeen[s] < cleaner.cutoff - Bucket - TouchInterval /\ cleaner.cutoff <= now
      BY <1>a, <2>5 DEF DroppedIsStale, ReclaimCutoff, InTime
    <3>5. lastSeen[s] + TouchInterval < now
      BY <1>d, <2>2, <3>4
    <3>6. now < lastSeen[s] + TouchInterval
      BY <2>4, <3>1, <3>3
    <3> QED BY <1>d, <2>2, <3>5, <3>6
  <2>6. CASE nameOf[s] = n
    <3>1. s \in Interned
      BY <2>6, RegistryAssumption DEF Interned
    <3>2. CASE touched[s] <= lastSeen[s]
      BY <2>1, <2>4, <3>1, <3>2 DEF Noted
    <3>3. ASSUME NEW k \in Caller, caller[k].pc = "touching", caller[k].sid = s,
                 touched[s] <= caller[k].at
          PROVE Noted(byName[n], at)
      <4>1. at < caller[k].at + TouchInterval
        BY <1>d, <2>1, <2>2, <3>3
      <4> QED BY <2>1, <3>1, <3>3, <4>1 DEF Noted
    <3> QED BY <1>b, <2>1, <3>2, <3>3 DEF TouchedIsNoted, Never
  <2> QED BY <2>3, <2>5, <2>6
<1>1. ASSUME NEW n \in Name, Call(j, n) PROVE Fine(j)'
  <2>1. CASE Fresh(n, now)
    <3>1. Noted(byName[n], now)
      BY <1>d, <1>h, <2>1
    <3>2. caller'[j].sid = byName[n] /\ caller'[j].at = now
          /\ UNCHANGED <<nameOf, lastSeen, byName, now>>
          /\ (\A k \in Caller : caller[k].pc = "touching" => caller'[k] = caller[k])
      BY <1>a, <1>1, <2>1 DEF Call, RegistryTypeOK
    <3> QED BY <3>1, <3>2 DEF Noted, Interned
  <2>2. CASE ~Fresh(n, now)
    BY <1>a, <1>1, <2>2 DEF Call, RegistryTypeOK
  <2> QED BY <2>1, <2>2
<1>2. ASSUME FindFresh(j) PROVE Fine(j)'
  <2>1. caller[j].name \in Name /\ caller[j].at \in Nat /\ dropped = {}
    BY <1>a, <1>d, <1>2, RegistryAssumption DEF FindFresh, CallInv, CacheInv, CallState
  <2>2. Noted(byName[caller[j].name], caller[j].at)
    BY <1>2, <1>h, <2>1 DEF FindFresh
  <2>3. caller'[j] = [caller[j] EXCEPT !.pc = "got", !.sid = byName[caller[j].name]]
        /\ UNCHANGED <<nameOf, lastSeen>>
        /\ (\A k \in Caller : caller[k].pc = "touching" => caller'[k] = caller[k])
    BY <1>a, <1>2 DEF FindFresh, RegistryTypeOK
  <2>4. caller'[j].sid = byName[caller[j].name] /\ caller'[j].at = caller[j].at
    BY <1>d, <2>3 DEF CallState
  <2> QED BY <2>2, <2>3, <2>4 DEF Noted, Interned
<1>3. ASSUME BeginTouch(j) PROVE Fine(j)'
  <2>1. caller[j].name \in Name /\ dropped = {} /\ byName[caller[j].name] # NoSid
    BY <1>a, <1>3, RegistryAssumption DEF BeginTouch, CallInv, CacheInv
  <2>2. byName[caller[j].name] \in Interned
    BY <1>a, <2>1, RegistryAssumption DEF CacheInv, Interned, RegistryTypeOK
  <2>3. caller'[j] = [caller[j] EXCEPT !.pc = "touching", !.sid = byName[caller[j].name]]
        /\ nameOf' = nameOf
    BY <1>a, <1>3 DEF BeginTouch, RegistryTypeOK
  <2>4. caller'[j].sid = byName[caller[j].name] /\ caller'[j].at = caller[j].at
        /\ caller'[j].pc = "touching" /\ caller[j].at \in Nat
    BY <1>d, <2>3 DEF CallState
  <2>5. caller'[j].at < caller'[j].at + TouchInterval
    BY <1>d, <2>4
  <2> QED BY <2>2, <2>3, <2>4, <2>5 DEF Noted, Interned
<1>4. ASSUME TouchStored(j) PROVE Fine(j)'
  <2>1. caller'[j] = [caller[j] EXCEPT !.pc = "got"] /\ caller[j].pc = "touching"
    BY <1>a, <1>4 DEF TouchStored, RegistryTypeOK
  <2>2. caller'[j].sid = caller[j].sid /\ caller'[j].at = caller[j].at
    BY <1>d, <2>1 DEF CallState
  <2> QED BY <1>e, <2>1, <2>2
<1>5. ASSUME Resolve(j) PROVE Fine(j)'
  <2>1. PICK q \in Sid :
          /\ nameOf' = [nameOf EXCEPT ![q] = caller[j].name]
          /\ lastSeen' = [lastSeen EXCEPT ![q] =
                            IF q \in Interned /\ caller[j].at <= @ THEN @ ELSE caller[j].at]
          /\ caller' = [caller EXCEPT ![j].pc = "got", ![j].sid = q]
    BY <1>5 DEF Resolve
  <2>2. caller[j].name \in Name /\ caller[j].at \in Nat /\ lastSeen[q] \in Nat
    BY <1>a, <1>d, <1>5 DEF Resolve, CallInv, CallState, RegistryTypeOK
  <2>3. caller'[j].sid = q /\ caller'[j].at = caller[j].at
    BY <1>a, <1>d, <2>1 DEF CallState, RegistryTypeOK
  <2>4. q \in Interned'
    BY <1>a, <2>1, <2>2, RegistryAssumption DEF Interned, RegistryTypeOK
  <2>5. caller[j].at < lastSeen'[q] + TouchInterval
    BY <1>a, <1>d, <2>1, <2>2 DEF RegistryTypeOK
  <2> QED BY <2>3, <2>4, <2>5 DEF Noted
<1>6. ASSUME BeginResolve(j) PROVE Fine(j)'
  BY <1>a, <1>d, <1>6 DEF BeginResolve, RegistryTypeOK, CallState
<1>7. CASE TouchFails(j) \/ ResolveFails(j) \/ Use(j)
  BY <1>a, <1>g, <1>7 DEF TouchFails, ResolveFails, Use, RegistryTypeOK
<1>8. ASSUME NEW k \in Caller, k # j, IdOfStep(k) \/ Use(k) PROVE Fine(j)'
  BY <1>a, <1>f, <1>8
     DEF IdOfStep, Call, FindFresh, BeginTouch, TouchStored, TouchFails, BeginResolve,
         Resolve, ResolveFails, Use, RegistryTypeOK
<1>9. CASE (\E cutoff \in Int : ReclaimDelete(cutoff)) \/ ReclaimForget \/ ReclaimFails \/ Tick
           \/ UNCHANGED registryVars
  BY <1>f, <1>9 DEF ReclaimDelete, ReclaimForget, ReclaimFails, Tick, registryVars
<1>10. CASE RegistryRestart
  BY <1>g, <1>10 DEF RegistryRestart
<1>11. CASE RegistryNext
  BY <1>1, <1>2, <1>3, <1>4, <1>5, <1>6, <1>7, <1>8, <1>9, <1>10, <1>11 DEF RegistryNext, IdOfStep
<1>12. CASE Quiet
  BY <1>f, <1>12 DEF Quiet
<1> QED BY <1>a, <1>9, <1>11, <1>12, StepOfRegistry

\* A row after a step, whether it was there, has just been written or is a
\* rollup, is of an id that was as recent before the step as RowsNoted asks.
LEMMA RowNotedBefore ==
  ASSUME OrphanInv, Next \/ UNCHANGED vars, ~lapsed, NEW r \in rows'
  PROVE  /\ r.sid \in Sid /\ r.ts \in Nat
         /\ Noted(r.sid, BucketEnd(r.ts) - Bucket)
         /\ cleaner.pc \in {"logs", "prune", "reclaim"} /\ cleaner.ok =>
               Noted(r.sid, cleaner.cutoff - Bucket)
<1> DEFINE Fine(q) ==
             /\ q.sid \in Sid /\ q.ts \in Nat
             /\ Noted(q.sid, BucketEnd(q.ts) - Bucket)
             /\ cleaner.pc \in {"logs", "prune", "reclaim"} /\ cleaner.ok =>
                   Noted(q.sid, cleaner.cutoff - Bucket)
<1>a. RetentionInv /\ TypeOK /\ RegistryTypeOK /\ CallInv /\ CallersNoted /\ RowsNoted
  BY DEF OrphanInv, RetentionInv, RegistryInv
<1>b. ASSUME NEW q \in rows PROVE Fine(q)
  BY <1>a, <1>b DEF RowsNoted, TypeOK, Record
<1>1. ASSUME NEW k \in Caller, WriteRow(k), r \notin rows PROVE Fine(r)
  <2>1. r = [sid |-> caller[k].sid, ts |-> caller[k].at, of |-> caller[k].name]
    BY <1>1 DEF WriteRow
  <2>2. PICK s \in Sid, t \in Nat : s = caller[k].sid /\ t = caller[k].at /\ caller[k].pc = "got"
    BY <1>a, <1>1 DEF WriteRow, Use, CallInv, RegistryTypeOK, CallState
  <2>3. r.sid = s /\ r.ts = t /\ Noted(s, t)
    BY <1>a, <2>1, <2>2 DEF CallersNoted
  <2>4. PICK u \in Int : u = BucketEnd(t) - Bucket /\ u <= t
    BY <2>2, BucketEndBounds, RetentionAssumption
  <2>5. Noted(s, u)
    BY <1>a, <2>3, <2>4, NotedEarlier
  <2>6. cleaner.pc \in {"logs", "prune", "reclaim"} => Noted(s, cleaner.cutoff - Bucket)
    BY <2>2, CallerClearsCutoff
  <2> QED BY <2>2, <2>3, <2>4, <2>5, <2>6
<1>2. ASSUME NEW q \in rows, RollUp(q), r \notin rows PROVE Fine(r)
  <2>1. r = [q EXCEPT !.ts = BucketEnd(q.ts)]
    BY <1>2 DEF RollUp
  <2>2. q \in Record /\ Fine(q)
    BY <1>a, <1>b DEF TypeOK
  <2>3. r.sid = q.sid /\ r.ts = BucketEnd(q.ts) /\ r.ts \in Nat
    BY <2>1, <2>2, BucketEndBounds DEF Record
  <2>4. BucketEnd(r.ts) = BucketEnd(q.ts)
    BY <2>2, <2>3, BucketEndIdempotent
  <2> QED BY <2>2, <2>3, <2>4
<1>3. \/ r \in rows
      \/ \E k \in Caller : WriteRow(k)
      \/ \E q \in rows : RollUp(q)
  BY DEF Next, IdOf, WriteCheckpoint, Discard, BeginCleanup, CleanMetrics, CleanMetricsFails,
         CleanLogs, CleanLogsFails, Prune, PruneFails, Reclaim, Forget, CleanupGivesUp, Restart,
         Pass, vars, retentionVars
<1> QED BY <1>b, <1>1, <1>2, <1>3

\* A pass comes to its later stages from the earlier ones, with their cutoff.
LEMMA PassAdvances ==
  ASSUME OrphanInv, Next \/ UNCHANGED vars
  PROVE  /\ cleaner'.pc \in {"logs", "prune", "reclaim"} /\ cleaner'.ok =>
              /\ cleaner'.cutoff = cleaner.cutoff
              /\ \/ cleaner.pc \in {"logs", "prune", "reclaim"} /\ cleaner.ok
                 \/ CleanMetrics
         /\ cleaner'.pc = "reclaim" =>
              /\ cleaner'.cutoff = cleaner.cutoff
              /\ cleaner.pc = "reclaim" \/ Prune \/ PruneFails
<1>a. cleaner \in [pc: {"idle", "metrics", "logs", "prune", "reclaim", "forget"},
                   cutoff: Int, ok: BOOLEAN, starting: BOOLEAN]
  BY DEF OrphanInv, RetentionInv, TypeOK
<1>1. CASE cleaner' = cleaner
  <2>1. cleaner.pc \in {"logs", "prune", "reclaim"} /\ cleaner.ok =>
          cleaner'.cutoff = cleaner.cutoff
    BY <1>1
  <2> QED BY <1>1, <2>1
<1>2. CASE BeginCleanup
  BY <1>a, <1>2 DEF BeginCleanup
<1>3. CASE CleanMetrics \/ CleanMetricsFails
  BY <1>a, <1>3 DEF CleanMetrics, CleanMetricsFails
<1>4. CASE CleanLogs
  BY <1>a, <1>4 DEF CleanLogs
<1>5. CASE Prune \/ PruneFails
  BY <1>a, <1>5 DEF Prune, PruneFails, AfterPrune, IdleCleaner
<1>6. CASE Reclaim
  BY <1>a, <1>6 DEF Reclaim
<1>7. CASE Restart
  BY <1>7 DEF Restart
<1>8. CASE CleanLogsFails \/ Forget \/ CleanupGivesUp
  BY <1>8 DEF CleanLogsFails, Forget, CleanupGivesUp, IdleCleaner
<1>9. ASSUME NEW k \in Caller, IdOf(k) \/ WriteRow(k) \/ WriteCheckpoint(k) \/ Discard(k)
      PROVE cleaner' = cleaner
  BY <1>9 DEF IdOf, WriteRow, WriteCheckpoint, Discard, retentionVars
<1>10. ASSUME NEW r \in rows, RollUp(r) PROVE cleaner' = cleaner
  BY <1>10 DEF RollUp
<1>11. CASE Pass \/ UNCHANGED vars
  BY <1>1, <1>11 DEF Pass, vars, retentionVars
<1> QED BY <1>1, <1>2, <1>3, <1>4, <1>5, <1>6, <1>7, <1>8, <1>9, <1>10, <1>11 DEF Next

\* While no touch is lost, the id of every metrics row stays recent enough to
\* escape the reclamations that come before the row is itself deleted.
LEMMA RowsNotedStep ==
  ASSUME OrphanInv, Next \/ UNCHANGED vars, ~lapsed'
  PROVE  RowsNoted'
<1>a. RetentionInv /\ TypeOK /\ InTime /\ ~lapsed
  BY LapsedStays DEF OrphanInv, RetentionInv
<1>b. cleaner.cutoff \in Int /\ Bucket \in Nat
  BY <1>a, RetentionAssumption DEF TypeOK
<1> SUFFICES ASSUME NEW r \in rows'
             PROVE  /\ Noted(r.sid, BucketEnd(r.ts) - Bucket)'
                    /\ cleaner'.pc \in {"logs", "prune", "reclaim"} /\ cleaner'.ok =>
                          Noted(r.sid, cleaner.cutoff - Bucket)' /\ cleaner'.cutoff = cleaner.cutoff
  BY DEF RowsNoted, Noted, Interned
<1>1. PICK s \in Sid, e \in Nat :
         s = r.sid /\ r.ts \in Nat /\ e = BucketEnd(r.ts) /\ Noted(s, e - Bucket)
  BY <1>a, RowNotedBefore, BucketEndBounds
<1>2. cleaner.pc \in {"logs", "prune", "reclaim"} /\ cleaner.ok => Noted(s, cleaner.cutoff - Bucket)
  BY <1>a, <1>1, RowNotedBefore
<1>3. cleaner.pc = "reclaim" => Noted(s, cleaner.cutoff - Bucket)
  BY <1>a, <1>2 DEF InTime
<1>4. PICK u \in Int : u = e - Bucket
  BY <1>1, <1>b
<1>5. Noted(s, u)'
  BY <1>1, <1>3, <1>4, NotedStays
<1>6. ASSUME cleaner'.pc \in {"logs", "prune", "reclaim"}, cleaner'.ok
      PROVE  Noted(s, cleaner.cutoff - Bucket)' /\ cleaner'.cutoff = cleaner.cutoff
  <2>1. PICK v \in Int : v = cleaner.cutoff - Bucket
    BY <1>b
  <2>2. Noted(s, v)
    <3>1. CASE cleaner.pc \in {"logs", "prune", "reclaim"} /\ cleaner.ok
      BY <1>2, <2>1, <3>1
    <3>2. CASE CleanMetrics
      <4>1. r.ts >= cleaner.cutoff
        BY <3>2 DEF CleanMetrics
      <4>2. v <= u
        BY <1>1, <1>4, <1>b, <2>1, <4>1, BucketEndBounds
      <4> QED BY <1>a, <1>1, <1>4, <2>1, <4>2, NotedEarlier
    <3> QED BY <1>6, <3>1, <3>2, PassAdvances
  <2>3. Noted(s, v)'
    BY <1>3, <2>2, NotedStays
  <2>4. cleaner'.cutoff = cleaner.cutoff
    BY <1>6, PassAdvances
  <2> QED BY <2>1, <2>3, <2>4
<1> QED BY <1>1, <1>4, <1>5, <1>6 DEF Noted, Interned

\* So does the id of every checkpoint, as long as no prune fails.
LEMMA CheckpointsNotedStep ==
  ASSUME OrphanInv, Next \/ UNCHANGED vars, ~lapsed'
  PROVE  CheckpointsNoted'
<1> DEFINE Fine(q) ==
             /\ q.sid \in Sid /\ q.ts \in Nat /\ Noted(q.sid, q.ts)
             /\ cleaner.pc = "reclaim" => Noted(q.sid, cleaner.cutoff - Bucket)
<1>a. RetentionInv /\ TypeOK /\ RegistryTypeOK /\ CallInv /\ ~lapsed /\ CallersNoted
  BY LapsedStays DEF OrphanInv, RetentionInv, TypeOK, RegistryInv
<1>b. cleaner.cutoff \in Int /\ Bucket \in Nat
  BY <1>a, RetentionAssumption DEF TypeOK
<1> SUFFICES ASSUME ~pruneFailed', NEW p \in checkpoints'
             PROVE  /\ Noted(p.sid, p.ts)'
                    /\ cleaner'.pc = "reclaim" =>
                          Noted(p.sid, cleaner.cutoff - Bucket)' /\ cleaner'.cutoff = cleaner.cutoff
  BY DEF CheckpointsNoted, Noted, Interned
<1>c. ~pruneFailed /\ ~PruneFails
  BY DEF Next, IdOf, WriteRow, WriteCheckpoint, Discard, RollUp, BeginCleanup, CleanMetrics,
         CleanMetricsFails, CleanLogs, CleanLogsFails, Prune, PruneFails, Reclaim, Forget,
         CleanupGivesUp, Restart, Pass, vars, retentionVars
<1>d. \A q \in checkpoints : Fine(q)
  BY <1>a, <1>c DEF OrphanInv, CheckpointsNoted, TypeOK, Record
<1>1. Fine(p)
  <2>1. ASSUME NEW k \in Caller, WriteCheckpoint(k), p \notin checkpoints PROVE Fine(p)
    <3>1. PICK age \in Ages :
             /\ age <= caller[k].at
             /\ p = [sid |-> caller[k].sid, ts |-> caller[k].at - age, of |-> caller[k].name]
      BY <2>1 DEF WriteCheckpoint
    <3>2. PICK s \in Sid, t \in Nat : s = caller[k].sid /\ t = caller[k].at /\ caller[k].pc = "got"
      BY <1>a, <2>1 DEF WriteCheckpoint, Use, CallInv, RegistryTypeOK, CallState
    <3>3. p.sid = s /\ p.ts = t - age /\ age \in Nat /\ age <= t /\ Noted(s, t)
      BY <1>a, <3>1, <3>2, RetentionAssumption DEF CallersNoted
    <3>4. PICK u \in Nat : u = t - age /\ u <= t
      BY <3>2, <3>3
    <3>5. Noted(s, u)
      BY <1>a, <3>3, <3>4, NotedEarlier
    <3>6. cleaner.pc = "reclaim" => Noted(s, cleaner.cutoff - Bucket)
      BY <1>a, <3>2, CallerClearsCutoff
    <3> QED BY <3>2, <3>3, <3>4, <3>5, <3>6
  <2>2. p \in checkpoints \/ \E k \in Caller : WriteCheckpoint(k)
    BY DEF Next, IdOf, WriteRow, Discard, RollUp, BeginCleanup, CleanMetrics,
           CleanMetricsFails, CleanLogs, CleanLogsFails, Prune, PruneFails, Reclaim, Forget,
           CleanupGivesUp, Restart, Pass, vars, retentionVars
  <2> QED BY <1>d, <2>1, <2>2
<1>2. PICK s \in Sid, t \in Nat : s = p.sid /\ t = p.ts
  BY <1>1
<1>3. Noted(s, t)'
  BY <1>1, <1>2, NotedStays
<1>4. ASSUME cleaner'.pc = "reclaim"
      PROVE  Noted(s, cleaner.cutoff - Bucket)' /\ cleaner'.cutoff = cleaner.cutoff
  <2>1. PICK v \in Int : v = cleaner.cutoff - Bucket
    BY <1>b
  <2>2. Noted(s, v)
    <3>1. CASE cleaner.pc = "reclaim"
      BY <1>1, <1>2, <2>1, <3>1
    <3>2. CASE Prune
      <4>1. p.ts >= cleaner.cutoff
        BY <3>2 DEF Prune
      <4>2. v <= t
        BY <1>2, <1>b, <2>1, <4>1
      <4> QED BY <1>a, <1>1, <1>2, <2>1, <4>2, NotedEarlier
    <3> QED BY <1>c, <1>4, <3>1, <3>2, PassAdvances
  <2>3. Noted(s, v)'
    BY <1>1, <1>2, <2>1, <2>2, NotedStays
  <2>4. cleaner'.cutoff = cleaner.cutoff
    BY <1>4, PassAdvances
  <2> QED BY <2>1, <2>3, <2>4
<1> QED BY <1>2, <1>3, <1>4 DEF Noted, Interned

\* The strengthening holds when the process starts: nothing has been written.
LEMMA OrphanInit == Init => OrphanInv
<1> SUFFICES ASSUME Init PROVE OrphanInv
  OBVIOUS
<1>1. RetentionInv
  BY RetentionInit
<1>2. InTime
  BY DEF Init, RegistryInit, IdleCall, IdleCleaner, InTime
<1>3. DroppedIsStale /\ TouchedIsNoted
  BY DEF Init, RegistryInit, DroppedIsStale, TouchedIsNoted
<1>4. CallersNoted
  BY DEF Init, RegistryInit, IdleCall, CallersNoted
<1>5. RowsNoted /\ CheckpointsNoted
  BY DEF Init, RowsNoted, CheckpointsNoted
<1> QED BY <1>1, <1>2, <1>3, <1>4, <1>5 DEF OrphanInv

\* The strengthening is inductive.
LEMMA OrphanStep == OrphanInv /\ [Next]_vars => OrphanInv'
<1> SUFFICES ASSUME OrphanInv, Next \/ UNCHANGED vars PROVE OrphanInv'
  OBVIOUS
<1>1. RetentionInv'
  BY RetentionStep DEF OrphanInv
<1>2. InTime' /\ DroppedIsStale'
  BY InTimeStep, DroppedStep
<1>3. ASSUME ~lapsed' PROVE TouchedIsNoted'
  <2>1. RetentionInv /\ RegistryInv /\ ~lapsed /\ TouchedIsNoted /\ CallersNoted
    BY <1>3, LapsedStays DEF OrphanInv, RetentionInv
  <2>2. CASE RegistryNext \/ UNCHANGED registryVars
    BY <1>3, <2>1, <2>2, TouchedStep
  <2>3. CASE Quiet
    BY <2>1, <2>3 DEF Quiet, TouchedIsNoted
  <2> QED BY <2>1, <2>2, <2>3, StepOfRegistry
<1>4. ASSUME ~lapsed' PROVE CallersNoted' /\ RowsNoted' /\ CheckpointsNoted'
  BY <1>4, CallersNotedStep, RowsNotedStep, CheckpointsNotedStep
<1> QED BY <1>1, <1>2, <1>3, <1>4 DEF OrphanInv

\* "no surviving metrics row or checkpoint can reference a dropped sid", unless
\* a touch was lost, or (for checkpoints) a prune failed: for every bucket
\* width, touch interval, retention time and clock, and any number of callers.
THEOREM NothingOrphaned == Spec => []NoOrphans
<1>1. OrphanInv => NoOrphans
  BY DEF OrphanInv, NoOrphans, RowsNoted, CheckpointsNoted, Noted, RowsHaveService,
         CheckpointsHaveService
<1> QED BY OrphanInit, OrphanStep, <1>1, PTL DEF Spec

\* "Upper bound on how far last_seen_ms can trail a service's real activity": who
\* holds an id called less than the touch interval after the stored watermark,
\* unless a touch was lost or is being stored.
THEOREM WatermarkTrails == Spec => []LagBoundedUnlessLapsed
<1>1. ASSUME OrphanInv PROVE LagBoundedUnlessLapsed
  <2> SUFFICES ASSUME ~lapsed, \A k \in Caller : caller[k].pc # "touching",
                      NEW k \in Caller, caller[k].pc = "got", caller[k].sid \in Interned
               PROVE  caller[k].at - lastSeen[caller[k].sid] < TouchInterval
    BY DEF LagBoundedUnlessLapsed, WatermarkLagBounded
  <2>1. caller[k].at < lastSeen[caller[k].sid] + TouchInterval
    BY <1>1 DEF OrphanInv, CallersNoted, Noted
  <2>2. caller[k].at \in Nat /\ lastSeen[caller[k].sid] \in Nat
    BY <1>1 DEF OrphanInv, RetentionInv, TypeOK, RegistryTypeOK, CallState, Interned
  <2> QED BY <2>1, <2>2, RegistryAssumption
<1> QED BY OrphanInit, OrphanStep, <1>1, PTL DEF Spec
================================================================================
