-------------------------- MODULE ProjectStore_proofs --------------------------
(***************************************************************************)
(* Theorems about ProjectStore, for any projects and folders and any       *)
(* number of launches and operations.                                      *)
(***************************************************************************)
EXTENDS ProjectStore, TLAPS

(* No projects at all are a configuration.                                 *)
LEMMA EmptyIsConfiguration == Empty \in Configurations /\ DOMAIN Empty = {}
  <1>1. Empty \in [{} -> Records]
    BY DEF Empty
  <1>2. {} \in SUBSET Projects
    OBVIOUS
  <1> QED BY <1>1, <1>2 DEF Configurations

(* A configuration with one record added or changed is one.                *)
LEMMA ChangedIsConfiguration ==
    ASSUME NEW c \in Configurations, NEW p \in Projects, NEW r \in Records
    PROVE  [q \in DOMAIN c \cup {p} |-> IF q = p THEN r ELSE c[q]] \in Configurations
  <1>1. PICK S \in SUBSET Projects : c \in [S -> Records]
    BY DEF Configurations
  <1>2. [q \in DOMAIN c \cup {p} |-> IF q = p THEN r ELSE c[q]] \in [S \cup {p} -> Records]
    BY <1>1
  <1> QED BY <1>2 DEF Configurations

(* A configuration without one of its projects is a configuration.         *)
LEMMA ReducedIsConfiguration ==
    ASSUME NEW c \in Configurations, NEW p
    PROVE  [q \in DOMAIN c \ {p} |-> c[q]] \in Configurations
  <1>1. PICK S \in SUBSET Projects : c \in [S -> Records]
    BY DEF Configurations
  <1>2. [q \in DOMAIN c \ {p} |-> c[q]] \in [S \ {p} -> Records]
    BY <1>1
  <1> QED BY <1>2 DEF Configurations

(* A single project is a configuration.                                    *)
LEMMA OneIsConfiguration ==
    ASSUME NEW p \in Projects, NEW r \in Records
    PROVE  [q \in {p} |-> r] \in Configurations
  <1>1. [q \in {p} |-> r] \in [{p} -> Records]
    OBVIOUS
  <1> QED BY <1>1 DEF Configurations

(* EXCEPT on a record of a configuration is a change of that record.       *)
LEMMA RecordsOf ==
    ASSUME NEW c \in Configurations
    PROVE  /\ DOMAIN c \subseteq Projects
           /\ \A p \in DOMAIN c : c[p] \in Records
           /\ \A p \in DOMAIN c, r \in Records : [c EXCEPT ![p] = r] \in Configurations
  <1>1. PICK S \in SUBSET Projects : c \in [S -> Records]
    BY DEF Configurations
  <1>2. DOMAIN c = S
    BY <1>1
  <1>3. ASSUME NEW p \in DOMAIN c, NEW r \in Records
        PROVE  [c EXCEPT ![p] = r] \in Configurations
    <2>1. [c EXCEPT ![p] = r] \in [S -> Records]
      BY <1>1, <1>2, <1>3
    <2> QED BY <2>1 DEF Configurations
  <1> QED BY <1>1, <1>2, <1>3

(* The candidate of every operation is a configuration.                    *)
LEMMA CandidateIsConfiguration ==
    ASSUME TypeOK, NEW c \in calls, c.kind = "add" \/ c.project \in DOMAIN envelope
    PROVE  Candidate(c) \in Configurations
  <1> DEFINE p == c.project
  <1>1. c \in Calls /\ envelope \in Configurations
    BY DEF TypeOK
  <1>2. CASE c.kind = "add"
    <2>1. [name |-> "original", enabled |-> TRUE, folder |-> c.folder, access |-> "available"]
          \in Records
      BY <1>1 DEF Calls, Records, Access
    <2> QED BY <1>1, <1>2, <2>1, ChangedIsConfiguration DEF Candidate, Calls
  <1>3. CASE c.kind = "remove"
    BY <1>1, <1>3, ReducedIsConfiguration DEF Candidate
  <1>4. CASE c.kind \notin {"add", "remove"}
    <2>1. p \in DOMAIN envelope /\ envelope[p] \in Records
      BY <1>1, <1>4, RecordsOf
    <2>2. /\ [envelope[p] EXCEPT !.name = "renamed"] \in Records
          /\ [envelope[p] EXCEPT !.folder = c.folder, !.access = "available"] \in Records
          /\ [envelope[p] EXCEPT !.enabled = (c.kind = "enable")] \in Records
      BY <1>1, <2>1 DEF Records, Calls, Access
    <2>3. \/ Candidate(c) = [envelope EXCEPT ![p] = [@ EXCEPT !.name = "renamed"]]
          \/ Candidate(c) = [envelope EXCEPT
                                ![p] = [@ EXCEPT !.folder = c.folder, !.access = "available"]]
          \/ Candidate(c) = [envelope EXCEPT ![p] = [@ EXCEPT !.enabled = (c.kind = "enable")]]
      BY <1>4, <2>1 DEF Candidate
    <2> QED BY <1>1, <2>1, <2>2, <2>3, RecordsOf
  <1> QED BY <1>2, <1>3, <1>4

(* The result of an access check is a configuration.                       *)
LEMMA JudgedIsConfiguration ==
    ASSUME TypeOK, NEW p \in DOMAIN envelope, p \in DOMAIN startup.seen
    PROVE  Judged(p) \in Configurations
  <1>1. /\ envelope \in Configurations /\ startup.seen \in Configurations
        /\ startup.verdict \in Access
    BY DEF TypeOK
  <1>2. envelope[p] \in Records /\ startup.seen[p] \in Records
    BY <1>1, RecordsOf
  <1>3. /\ [envelope[p] EXCEPT !.access = "available", !.folder = startup.seen[p].folder]
              \in Records
        /\ [envelope[p] EXCEPT !.access = startup.verdict] \in Records
    BY <1>1, <1>2 DEF Records, Access
  <1>4. \/ Judged(p) = [envelope EXCEPT ![p] = [@ EXCEPT !.access = "available",
                                                        !.folder = startup.seen[p].folder]]
        \/ Judged(p) = [envelope EXCEPT ![p] = [@ EXCEPT !.access = startup.verdict]]
    BY DEF Judged, Seen
  <1> QED BY <1>1, <1>3, <1>4, RecordsOf

(* Whatever is written, damaged or hidden is a file.                       *)
LEMMA FilesAreTyped ==
    /\ NoFile \in Files /\ Damaged \subseteq Files
    /\ \A c \in Configurations : Written(c) \in Files
    /\ \A g \in Files, r \in BOOLEAN : [g EXCEPT !.readable = r] \in Files
  <1>1. NoFile \in Files
    BY EmptyIsConfiguration DEF Files, NoFile
  <1>2. ASSUME NEW k \in {"corrupt", "newer"}
        PROVE  [kind |-> k, readable |-> TRUE, projects |-> Empty] \in Files
    BY EmptyIsConfiguration DEF Files
  <1>3. Damaged \subseteq Files
    BY <1>2 DEF Damaged
  <1>4. ASSUME NEW c \in Configurations PROVE Written(c) \in Files
    BY DEF Files, Written
  <1>5. ASSUME NEW g \in Files, NEW r \in BOOLEAN PROVE [g EXCEPT !.readable = r] \in Files
    BY DEF Files
  <1> QED BY <1>1, <1>3, <1>4, <1>5

(* persist() keeps the types of what it writes, whether or not it fails.   *)
LEMMA PersistKeepsTypes ==
    ASSUME TypeOK, NEW c \in Configurations, Persist(c)
    PROVE  /\ file' \in Files /\ preserved' \in Nat /\ envelope' \in Configurations
           /\ writeProtection' \in {"none", "newer", "source"}
  BY FilesAreTyped DEF TypeOK, Persist

(* Every variable keeps its type, whatever is added, damaged or relaunched. *)
THEOREM StoreTypeCorrect == Spec => []TypeOK
  <1> USE StoreConstants, EmptyIsConfiguration
  <1> USE DEF Steps, Access
  <1>1. Init => TypeOK
    <2> SUFFICES ASSUME Init PROVE TypeOK
      OBVIOUS
    <2>1. file \in Files
      BY FilesAreTyped DEF Init, Restored
    <2>2. DOMAIN file.projects \subseteq Projects
      BY <2>1, RecordsOf DEF Files
    <2>3. startup \in [step : Steps, answer : Configurations, left : SUBSET Projects,
                      seen : Configurations, verdict : Access]
      BY DEF Init, Launched
    <2> QED BY <2>1, <2>2, <2>3 DEF Init, TypeOK, Calls
  <1>2. TypeOK /\ [Next]_vars => TypeOK'
    <2> SUFFICES ASSUME TypeOK, [Next]_vars PROVE TypeOK'
      OBVIOUS
    <2>1. CASE Load
      <3>1. file.projects \in Configurations
        BY DEF TypeOK, Files
      <3>2. \E step \in Steps, c \in Configurations, w \in {"none", "newer", "source"} :
               Outcome(step, c, w)
        BY <2>1, <3>1 DEF Load, LoadMissing, LoadUnreadable, LoadNewer, LoadValid, LoadCorrupt,
              Quarantine, RequireSourceRecovery
      <3>3. /\ envelope' \in Configurations /\ writeProtection' \in {"none", "newer", "source"}
            /\ startup' \in [step : Steps, answer : Configurations, left : SUBSET Projects,
                             seen : Configurations, verdict : Access]
        BY <3>2 DEF Outcome, TypeOK
      <3>4. file' \in Files /\ preserved' \in Nat
        BY <2>1, FilesAreTyped DEF TypeOK, Load, LoadMissing, LoadUnreadable, LoadNewer,
              LoadValid, LoadCorrupt, Quarantine, RequireSourceRecovery
      <3> QED BY <2>1, <3>3, <3>4 DEF TypeOK, Load, modelVars, userVars
    <2>2. CASE ApplyLoad
      <3>1. DOMAIN startup.answer \subseteq Projects
        BY RecordsOf DEF TypeOK
      <3> QED BY <2>2, <3>1 DEF TypeOK, ApplyLoad, Launched, storeVars, userVars
    <2>3. CASE Resolve
      BY <2>3 DEF TypeOK, Resolve, Judge, Failures, storeVars, modelVars, userVars
    <2>4. CASE ReadBack \/ ShowSnapshot \/ FinishLoading
      BY <2>4 DEF TypeOK, ReadBack, ShowSnapshot, FinishLoading, Launched, storeVars, modelVars,
                  userVars
    <2>5. ASSUME NEW p \in Projects, Snapshot(p) PROVE TypeOK'
      <3>1. CASE Loaded /\ p \in DOMAIN envelope
        <4>1. [q \in {p} |-> envelope[q]] = [q \in {p} |-> envelope[p]]
          OBVIOUS
        <4>2. [q \in {p} |-> envelope[q]] \in Configurations
          BY <3>1, <4>1, RecordsOf, OneIsConfiguration DEF TypeOK
        <4> QED BY <2>5, <3>1, <4>2 DEF TypeOK, Snapshot, storeVars, modelVars, userVars
      <3>2. CASE ~(Loaded /\ p \in DOMAIN envelope)
        BY <2>5, <3>2 DEF TypeOK, Snapshot, storeVars, modelVars, userVars
      <3> QED BY <3>1, <3>2
    <2>6. ASSUME NEW p \in Projects, BeginAccess(p) PROVE TypeOK'
      BY <2>6 DEF TypeOK, BeginAccess, Judge, NextProject, Failures, storeVars, modelVars,
                  userVars
    <2>7. ASSUME NEW p \in Projects, WriteAccess(p) PROVE TypeOK'
      <3>1. startup' \in [step : Steps, answer : Configurations, left : SUBSET Projects,
                         seen : Configurations, verdict : Access]
        BY <2>7 DEF TypeOK, WriteAccess, NextProject
      <3>2. CASE UNCHANGED storeVars
        BY <2>7, <3>1, <3>2 DEF TypeOK, WriteAccess, storeVars, modelVars, userVars
      <3>3. CASE p \in DOMAIN envelope /\ Persist(Judged(p))
        <4>1. Judged(p) \in Configurations
          BY <2>7, <3>3, JudgedIsConfiguration DEF WriteAccess
        <4>2. /\ file' \in Files /\ preserved' \in Nat /\ envelope' \in Configurations
              /\ writeProtection' \in {"none", "newer", "source"}
          BY <3>3, <4>1, PersistKeepsTypes
        <4> QED BY <2>7, <3>1, <4>2 DEF TypeOK, WriteAccess, modelVars, userVars
      <3> QED BY <2>7, <3>2, <3>3 DEF WriteAccess
    <2>8. CASE Apply
      <3> DEFINE Answers == [call : Calls, succeeded : BOOLEAN, projects : Configurations]
      <3>1. answers \in Seq(Answers) /\ answers # <<>>
        BY <2>8 DEF TypeOK, Apply
      <3>2. Head(answers) \in Answers /\ Tail(answers) \in Seq(Answers)
        <4> HIDE DEF Answers
        <4> QED BY <3>1
      <3>3. Head(answers).projects \in Configurations
        BY <3>2
      <3> QED BY <2>8, <3>2, <3>3 DEF TypeOK, Apply, storeVars
    <2>9. ASSUME NEW c \in calls, Provide(c) PROVE TypeOK'
      BY <2>9 DEF TypeOK, Provide, Calls, storeVars, modelVars
    <2>10. ASSUME NEW c \in calls, Serve(c) PROVE TypeOK'
      <3> DEFINE d == [c EXCEPT !.step = "answered"]
      <3>1. d \in Calls
        BY DEF TypeOK, Calls
      <3>2. /\ file' \in Files /\ preserved' \in Nat /\ envelope' \in Configurations
            /\ writeProtection' \in {"none", "newer", "source"}
        BY <2>10, CandidateIsConfiguration, PersistKeepsTypes DEF TypeOK, Serve, storeVars
      <3>3. PICK b \in BOOLEAN : Reply(c, b)
        BY <2>10 DEF Serve
      <3>4. [call |-> d, succeeded |-> b, projects |-> envelope']
            \in [call : Calls, succeeded : BOOLEAN, projects : Configurations]
        BY <3>1, <3>2
      <3> HIDE DEF d
      <3>5. /\ answers' = Append(answers, [call |-> d, succeeded |-> b, projects |-> envelope'])
            /\ calls' = (calls \ {c}) \cup {d}
        BY <3>3 DEF Reply, d
      <3>6. /\ answers' \in Seq([call : Calls, succeeded : BOOLEAN, projects : Configurations])
            /\ calls' \subseteq Calls
        BY <3>1, <3>4, <3>5 DEF TypeOK
      <3> QED BY <2>10, <3>2, <3>6 DEF TypeOK, Serve, modelVars
    <2>11. ASSUME NEW p \in Projects, NEW f \in Folders, AddProject(p, f) PROVE TypeOK'
      BY <2>11 DEF TypeOK, AddProject, Begin, Calls, Kinds, storeVars, modelVars
    <2>12. ASSUME NEW p \in Projects, NEW kind \in Kinds, NEW f \in Folders,
                  BeginMutation(p, kind, f)
           PROVE  TypeOK'
      BY <2>12 DEF TypeOK, BeginMutation, Begin, Calls, storeVars, modelVars
    <2>13. CASE Asking
      <3>1. ASSUME NEW p \in DOMAIN projects PROVE projects[p].folder \in Folders
        BY <3>1, RecordsOf DEF TypeOK, Records
      <3> QED BY <2>11, <2>12, <2>13, <3>1 DEF Asking, Kinds
    <2>14. CASE Relaunch
      <3>1. file' \in Files
        BY <2>14, FilesAreTyped DEF TypeOK, Relaunch
      <3>2. startup' \in [step : Steps, answer : Configurations, left : SUBSET Projects,
                         seen : Configurations, verdict : Access]
        BY <2>14 DEF Relaunch, Launched
      <3> QED BY <2>14, <3>1, <3>2 DEF TypeOK, Relaunch
    <2>15. CASE UNCHANGED vars
      BY <2>15 DEF TypeOK, vars, storeVars, modelVars, userVars
    <2> QED BY <2>1, <2>2, <2>3, <2>4, <2>5, <2>6, <2>7, <2>8, <2>9, <2>10, <2>13, <2>14, <2>15
            DEF Next, Starting, Working
  <1> QED BY <1>1, <1>2, PTL DEF Spec
------------------------------------------------------------------------------
(* A file that is not valid has no projects for this version.              *)
OnlyValidHasProjects == file.kind # "valid" => file.projects = Empty

StoreIInv == FoldersAreUnique /\ OnlyValidHasProjects /\ RelaunchLosesNothing

(* What a step may do to the store: load, persist, be a launch, or nothing. *)
LEMMA StoreSteps ==
    ASSUME [Next]_vars
    PROVE  \/ Load
           \/ Loaded /\ writeProtection = "none" /\ Loaded' /\ launches' = launches
              /\ \E c : Persist(c)
           \/ Relaunch
           \/ UNCHANGED storeVars /\ (Loaded' => Loaded)
  <1>1. CASE ApplyLoad \/ Resolve \/ ReadBack \/ ShowSnapshot \/ FinishLoading
    BY <1>1 DEF ApplyLoad, Resolve, ReadBack, ShowSnapshot, FinishLoading, storeVars, Loaded
  <1>2. ASSUME NEW p \in Projects, Snapshot(p) \/ BeginAccess(p)
        PROVE  UNCHANGED storeVars /\ (Loaded' => Loaded)
    BY <1>2 DEF Snapshot, BeginAccess, storeVars, Loaded
  <1>3. ASSUME NEW p \in Projects, WriteAccess(p)
        PROVE  \/ Loaded /\ writeProtection = "none" /\ Loaded' /\ launches' = launches
                  /\ \E c : Persist(c)
               \/ UNCHANGED storeVars /\ (Loaded' => Loaded)
    <2>1. CASE UNCHANGED storeVars
      BY <1>3, <2>1 DEF WriteAccess, storeVars, Loaded
    <2>2. CASE writeProtection = "none" /\ Persist(Judged(p))
      <3>1. Loaded /\ Loaded' /\ launches' = launches
        BY <1>3, <2>2 DEF WriteAccess, NextProject, Persist, Loaded
      <3> QED BY <2>2, <3>1
    <2> QED BY <1>3, <2>1, <2>2 DEF WriteAccess
  <1>4. ASSUME NEW c \in calls, Serve(c)
        PROVE  \/ Loaded /\ writeProtection = "none" /\ Loaded' /\ launches' = launches
                  /\ \E d : Persist(d)
               \/ UNCHANGED storeVars /\ (Loaded' => Loaded)
    <2>1. CASE UNCHANGED storeVars
      BY <1>4, <2>1 DEF Serve, storeVars, Loaded
    <2>2. CASE Loaded /\ writeProtection = "none" /\ Persist(Candidate(c))
      <3>1. Loaded' /\ launches' = launches
        BY <1>4, <2>2 DEF Serve, Persist, Loaded
      <3> QED BY <2>2, <3>1
    <2> QED BY <1>4, <2>1, <2>2 DEF Serve
  <1>5. CASE Apply \/ (\E c \in calls : Provide(c)) \/ Asking \/ UNCHANGED vars
    BY <1>5 DEF Apply, Provide, Asking, AddProject, BeginMutation, Begin, storeVars, vars, Loaded
  <1> QED BY <1>1, <1>2, <1>3, <1>4, <1>5 DEF Next, Starting, Working

(* Memory and file agree whenever the store is loaded and not protected,   *)
(* and only a valid file has projects.                                     *)
LEMMA StoreKeepsItsFile == Spec => []StoreIInv
  <1> USE EmptyIsConfiguration DEF StoreIInv, FoldersAreUnique, OnlyValidHasProjects,
          RelaunchLosesNothing
  <1>1. Init => StoreIInv
    BY DEF Init, Launched, Loaded, NoFile, Written, Damaged, Restored, Valid
  <1>2. TypeOK /\ StoreIInv /\ [Next]_vars => StoreIInv'
    <2> SUFFICES ASSUME TypeOK, StoreIInv, [Next]_vars PROVE StoreIInv'
      OBVIOUS
    <2>1. CASE Load
      <3>1. CASE LoadMissing \/ LoadUnreadable \/ LoadNewer \/ LoadValid
        BY <2>1, <3>1 DEF LoadMissing, LoadUnreadable, LoadNewer, LoadValid, Loaded,
                          RequireSourceRecovery, Outcome
      <3>2. CASE LoadCorrupt
        BY <3>2 DEF LoadCorrupt, Quarantine, RequireSourceRecovery, Outcome, NoFile, Loaded
      <3> QED BY <2>1, <3>1, <3>2 DEF Load
    <2>2. ASSUME NEW c, Persist(c) PROVE StoreIInv'
      BY <2>2 DEF Persist, Written, Valid
    <2>3. CASE Relaunch
      <3>1. \/ file' = file
            \/ file'.kind = file.kind /\ file'.projects = file.projects
            \/ file'.kind # "valid" /\ file'.projects = Empty
        BY <2>3 DEF TypeOK, Files, Relaunch, Damaged
      <3>2. envelope' = Empty /\ ~Loaded'
        BY <2>3 DEF Relaunch, Launched, Loaded
      <3> QED BY <3>1, <3>2
    <2>4. CASE UNCHANGED storeVars /\ (Loaded' => Loaded)
      BY <2>4 DEF storeVars
    <2> QED BY <2>1, <2>2, <2>3, <2>4, StoreSteps
  <1> QED BY <1>1, <1>2, StoreTypeCorrect, PTL DEF Spec

(* Types and unique folders; and what was confirmed survives any crash.    *)
THEOREM StoreInvariant == Spec => []StoreInv
  <1>1. TypeOK /\ StoreIInv => StoreInv
    BY DEF StoreInv, StoreIInv
  <1> QED BY <1>1, StoreTypeCorrect, StoreKeepsItsFile, PTL

(* No file is replaced but by changes to what was read in it: whatever     *)
(* fails, an unreadable or newer file is never overwritten.                *)
THEOREM SourceIsNeverOverwritten == Spec => SourceNotOverwritten
  <1> DEFINE Kept == \/ /\ file.kind = "missing" \/ (file.kind = "valid" /\ file.readable)
                        /\ file'.kind = "valid" /\ file.projects = envelope
                     \/ file.kind = "corrupt" /\ file' = NoFile /\ preserved' = preserved + 1
  <1>1. ASSUME TypeOK, StoreIInv, [Next]_vars, file' # file, launches' = launches
        PROVE  Kept
    <2>1. CASE Load
      BY <1>1, <2>1 DEF Load, LoadMissing, LoadUnreadable, LoadNewer, LoadValid, LoadCorrupt,
                        Quarantine, RequireSourceRecovery
    <2>2. CASE Loaded /\ writeProtection = "none" /\ \E c : Persist(c)
      BY <1>1, <2>2 DEF StoreIInv, RelaunchLosesNothing, Persist, Written
    <2>3. CASE Relaunch
      BY <1>1, <2>3 DEF TypeOK, Relaunch
    <2>4. CASE UNCHANGED storeVars
      BY <1>1, <2>4 DEF storeVars
    <2> QED BY <1>1, <2>1, <2>2, <2>3, <2>4, StoreSteps
  <1>2. TypeOK /\ StoreIInv /\ [Next]_vars
           => [file' # file /\ launches' = launches => Kept]_vars
    BY <1>1
  <1> QED BY <1>2, StoreTypeCorrect, StoreKeepsItsFile, PTL DEF Spec, SourceNotOverwritten
------------------------------------------------------------------------------
(* Nobody asks for anything while the application starts, and a record is  *)
(* seen only while its access is checked.                                  *)
StartsAlone == startup.step # "done" => calls = {}
SeenWhileChecked ==
    startup.step \notin {"resolve", "beginAccess", "write"} => startup.seen = Empty

StartupIInv == StartsAlone /\ SeenWhileChecked /\ VerdictIsCurrent

(* While the application loads nobody else has a call under way.           *)
LEMMA StartupIsExclusive == Spec => []StartupIInv
  <1> USE EmptyIsConfiguration DEF StartupIInv, StartsAlone, SeenWhileChecked,
          VerdictIsCurrent, Seen
  <1>1. Init => StartupIInv
    BY DEF Init, Launched
  <1>2. TypeOK /\ StartupIInv /\ [Next]_vars => StartupIInv'
    <2> SUFFICES ASSUME TypeOK, StartupIInv, [Next]_vars PROVE StartupIInv'
      OBVIOUS
    <2> USE DEF storeVars, modelVars, userVars
    <2> startup \in [step : Steps, answer : Configurations, left : SUBSET Projects,
                    seen : Configurations, verdict : Access]
      BY DEF TypeOK
    <2>1. CASE Load
      <3>1. \E step \in Steps \ {"done", "resolve", "beginAccess", "write"},
               c \in {Empty, file.projects}, w \in {"none", "newer", "source"} :
               Outcome(step, c, w)
        BY <2>1 DEF Load, LoadMissing, LoadUnreadable, LoadNewer, LoadValid, LoadCorrupt,
              Quarantine, RequireSourceRecovery, Steps
      <3>2. startup.seen = Empty /\ calls = {} /\ calls' = calls
        BY <2>1 DEF Load
      <3>3. startup'.seen = Empty /\ startup'.step \notin {"done", "resolve", "beginAccess", "write"}
        BY <3>1, <3>2 DEF Outcome
      <3> QED BY <3>2, <3>3
    <2>2. CASE ApplyLoad \/ ReadBack \/ ShowSnapshot \/ FinishLoading
      BY <2>2 DEF ApplyLoad, ReadBack, ShowSnapshot, FinishLoading, Launched
    <2>3. CASE Resolve
      BY <2>3 DEF Resolve, Judge
    <2>4. ASSUME NEW p \in Projects, Snapshot(p) PROVE StartupIInv'
      BY <2>4 DEF Snapshot
    <2>5. ASSUME NEW p \in Projects, BeginAccess(p) PROVE StartupIInv'
      BY <2>5 DEF BeginAccess, Judge, NextProject
    <2>6. ASSUME NEW p \in Projects, WriteAccess(p) PROVE StartupIInv'
      BY <2>6 DEF WriteAccess, NextProject
    <2>7. CASE Apply
      BY <2>7 DEF Apply
    <2>8. ASSUME NEW c \in calls, Provide(c) \/ Serve(c) PROVE StartupIInv'
      <3>1. startup.step = "done" /\ startup' = startup
        BY <2>8 DEF Provide, Serve
      <3> QED BY <3>1
    <2>9. CASE Asking
      <3>1. startup.step = "done" /\ startup' = startup
        BY <2>9 DEF Asking, AddProject, BeginMutation, Begin, MayMutate
      <3> QED BY <3>1
    <2>10. CASE Relaunch
      BY <2>10 DEF Relaunch, Launched
    <2>11. CASE UNCHANGED vars
      BY <2>11 DEF vars
    <2> QED BY <2>1, <2>2, <2>3, <2>4, <2>5, <2>6, <2>7, <2>8, <2>9, <2>10, <2>11
            DEF Next, Starting, Working
  <1> QED BY <1>1, <1>2, StoreTypeCorrect, PTL DEF Spec

(* What the coordinator writes is about the record the store still has.    *)
THEOREM VerdictIsAlwaysCurrent == Spec => []VerdictIsCurrent
  <1>1. StartupIInv => VerdictIsCurrent
    BY DEF StartupIInv
  <1> QED BY <1>1, StartupIsExclusive, PTL
------------------------------------------------------------------------------
(* The gates: one addition, and one other operation for each project.      *)
OneCallEach == \A c, d \in calls :
    (c.kind = "add" <=> d.kind = "add") /\ (c.kind = "add" \/ c.project = d.project) => c = d

(* Every answer is the one answer of a call that waits for it.             *)
AnswersAreAwaited == \A i \in 1 .. Len(answers) :
    /\ answers[i].call \in calls /\ answers[i].call.step = "answered"
    /\ \A j \in 1 .. Len(answers) : answers[i].call = answers[j].call => i = j

(* A failure changes nothing: its list is the one before it.  The last     *)
(* list under way, or else the one shown, is the store's.                  *)
Before(i) == IF i = 1 THEN projects ELSE answers[i - 1].projects
Newest == IF answers = <<>> THEN projects ELSE answers[Len(answers)].projects

FailuresChangeNothing == \A i \in 1 .. Len(answers) :
    ~answers[i].succeeded => answers[i].projects = Before(i)

NewestIsStored ==
    /\ startup.step \in {"finish", "done"} => Newest = envelope
    /\ startup.step \in {"writable", "recovery", "newer", "reset", "shown"} =>
          startup.answer = envelope

ScreenIInv == OneCallEach /\ AnswersAreAwaited /\ FailuresChangeNothing /\ NewestIsStored

Answered == [call : Calls, succeeded : BOOLEAN, projects : Configurations]

(* While the application starts no answer is under way.                    *)
LEMMA NoAnswerAtStart ==
    ASSUME TypeOK, StartsAlone, AnswersAreAwaited, startup.step # "done"
    PROVE  answers = <<>>
  <1>1. answers \in Seq(Answered)
    BY DEF TypeOK, Answered
  <1>2. Len(answers) = 0
    BY <1>1 DEF StartsAlone, AnswersAreAwaited
  <1> QED BY <1>1, <1>2

(* An operation of the store is answered with its newest list, or with the *)
(* one before if it fails.                                                 *)
LEMMA ServeKeepsScreen ==
    ASSUME TypeOK, StartupIInv, ScreenIInv, NEW c \in calls, Serve(c)
    PROVE  ScreenIInv'
  <1> DEFINE d == [c EXCEPT !.step = "answered"]
             n == Len(answers) + 1
  <1> answers \in Seq(Answered)
    BY DEF TypeOK, Answered
  <1>1. c \in Calls /\ c.step = "store"
    BY DEF TypeOK, Serve
  <1>2. /\ d \in Calls /\ d.step = "answered"
        /\ d.kind = c.kind /\ d.project = c.project
    BY <1>1 DEF Calls
  <1>3. startup.step = "done" /\ startup' = startup /\ projects' = projects
    BY DEF Serve, StartupIInv, StartsAlone, modelVars
  <1>4. PICK b \in BOOLEAN : /\ Reply(c, b)
                             /\ b \/ envelope' = envelope
    BY DEF Serve, storeVars
  <1>5. envelope' \in Configurations
    BY CandidateIsConfiguration, PersistKeepsTypes DEF TypeOK, Serve, storeVars
  <1> DEFINE a == [call |-> d, succeeded |-> b, projects |-> envelope']
  <1>6. /\ a \in Answered /\ a.call = d /\ a.succeeded = b /\ a.projects = envelope'
    BY <1>2, <1>5 DEF Answered
  <1>7. answers' = Append(answers, a) /\ calls' = (calls \ {c}) \cup {d}
    BY <1>4 DEF Reply
  <1> HIDE DEF a, d
  <1>8. /\ answers' \in Seq(Answered) /\ Len(answers') = n /\ answers'[n] = a
        /\ \A i \in 1 .. Len(answers) : answers'[i] = answers[i]
    BY <1>6, <1>7
  <1>9. ASSUME NEW i \in 1 .. Len(answers)
        PROVE  /\ answers[i].call \in calls' /\ answers[i].call.step = "answered"
               /\ answers[i].call # d
    <2>1. answers[i].call \in calls /\ answers[i].call.step = "answered"
      BY DEF ScreenIInv, AnswersAreAwaited
    <2>2. answers[i].call # c
      BY <1>1, <2>1
    <2>3. answers[i].call # d
      BY <1>2, <2>1, <2>2 DEF ScreenIInv, OneCallEach
    <2> QED BY <1>7, <2>1, <2>2, <2>3
  <1>10. OneCallEach'
    BY <1>2, <1>7 DEF ScreenIInv, OneCallEach
  <1>11. AnswersAreAwaited'
    <2> SUFFICES ASSUME NEW i \in 1 .. n, NEW j \in 1 .. n
                 PROVE  /\ answers'[i].call \in calls' /\ answers'[i].call.step = "answered"
                        /\ answers'[i].call = answers'[j].call => i = j
      BY <1>8 DEF AnswersAreAwaited
    <2>1. d \in calls'
      BY <1>7
    <2>2. CASE i = n /\ j = n
      BY <1>2, <1>6, <1>8, <2>1, <2>2
    <2>3. CASE i = n /\ j # n
      BY <1>2, <1>6, <1>8, <1>9, <2>1, <2>3
    <2>4. CASE i # n /\ j = n
      BY <1>6, <1>8, <1>9, <2>4
    <2>5. CASE i # n /\ j # n
      BY <1>8, <1>9, <2>5 DEF ScreenIInv, AnswersAreAwaited
    <2> QED BY <2>2, <2>3, <2>4, <2>5
  <1>12. Newest = envelope
    BY <1>3 DEF ScreenIInv, NewestIsStored
  <1>13. FailuresChangeNothing'
    <2> SUFFICES ASSUME NEW i \in 1 .. n, ~answers'[i].succeeded
                 PROVE  answers'[i].projects = (Before(i))'
      BY <1>8 DEF FailuresChangeNothing
    <2>1. CASE i = n
      <3>1. answers'[i].projects = envelope
        BY <1>4, <1>6, <1>8, <2>1
      <3> QED BY <1>3, <1>8, <1>12, <2>1, <3>1 DEF Newest, Before
    <2>2. CASE i # n
      BY <1>3, <1>8, <2>2 DEF ScreenIInv, FailuresChangeNothing, Before
    <2> QED BY <2>1, <2>2
  <1>14. Newest' = envelope'
    BY <1>6, <1>8 DEF Newest
  <1> QED BY <1>3, <1>10, <1>11, <1>13, <1>14 DEF ScreenIInv, NewestIsStored

(* The answer that is shown is the oldest under way.                       *)
LEMMA ApplyKeepsScreen ==
    ASSUME TypeOK, StartupIInv, ScreenIInv, Apply
    PROVE  ScreenIInv'
  <1> answers \in Seq(Answered) /\ answers # <<>>
    BY DEF TypeOK, Answered, Apply
  <1>1. /\ Head(answers) = answers[1] /\ 1 \in 1 .. Len(answers)
        /\ Len(answers') = Len(answers) - 1 /\ answers' \in Seq(Answered)
        /\ \A i \in 1 .. Len(answers') : i + 1 \in 1 .. Len(answers) /\ answers'[i] = answers[i + 1]
    BY DEF Apply
  <1>2. startup.step = "done" /\ startup' = startup /\ envelope' = envelope
    BY <1>1 DEF Apply, StartupIInv, StartsAlone, ScreenIInv, AnswersAreAwaited, storeVars
  <1>3. projects' = answers[1].projects /\ calls' = calls \ {answers[1].call}
    BY <1>1 DEF Apply, ScreenIInv, FailuresChangeNothing, Before
  <1>4. OneCallEach'
    BY <1>3 DEF ScreenIInv, OneCallEach
  <1>5. AnswersAreAwaited'
    <2> SUFFICES ASSUME NEW i \in 1 .. Len(answers')
                 PROVE  /\ answers'[i].call \in calls' /\ answers'[i].call.step = "answered"
                        /\ \A j \in 1 .. Len(answers') :
                               answers'[i].call = answers'[j].call => i = j
      BY DEF AnswersAreAwaited
    <2>1. i \in Nat /\ i + 1 \in 1 .. Len(answers) /\ answers'[i] = answers[i + 1] /\ i + 1 # 1
      BY <1>1
    <2>2. answers[i + 1].call \in calls /\ answers[i + 1].call.step = "answered"
      BY <2>1 DEF ScreenIInv, AnswersAreAwaited
    <2>3. answers[i + 1].call # answers[1].call
      BY <1>1, <2>1 DEF ScreenIInv, AnswersAreAwaited
    <2>4. answers'[i].call \in calls' /\ answers'[i].call.step = "answered"
      BY <1>3, <2>1, <2>2, <2>3
    <2>5. ASSUME NEW j \in 1 .. Len(answers'), answers'[i].call = answers'[j].call
          PROVE  i = j
      <3>1. j + 1 \in 1 .. Len(answers) /\ answers'[j] = answers[j + 1]
        BY <1>1
      <3>2. i + 1 = j + 1
        BY <2>1, <2>5, <3>1 DEF ScreenIInv, AnswersAreAwaited
      <3> QED BY <1>1, <3>2
    <2> QED BY <2>4, <2>5
  <1>6. FailuresChangeNothing'
    BY <1>1, <1>3 DEF ScreenIInv, FailuresChangeNothing, Before
  <1>7. Newest' = Newest
    <2>1. CASE Len(answers) = 1
      BY <1>1, <1>3, <2>1 DEF Newest
    <2>2. CASE Len(answers) # 1
      BY <1>1, <2>2 DEF Newest
    <2> QED BY <2>1, <2>2
  <1> QED BY <1>2, <1>4, <1>5, <1>6, <1>7 DEF ScreenIInv, NewestIsStored

(* The newest list, under way or shown, is the store's, in every state.    *)
LEMMA ScreenFollowsStore == Spec => []ScreenIInv
  <1>1. Init => ScreenIInv
    BY DEF Init, Launched, ScreenIInv, OneCallEach, AnswersAreAwaited, FailuresChangeNothing,
           NewestIsStored
  <1>2. TypeOK /\ StartupIInv /\ ScreenIInv /\ [Next]_vars => ScreenIInv'
    <2> SUFFICES ASSUME TypeOK, StartupIInv, ScreenIInv, [Next]_vars PROVE ScreenIInv'
      OBVIOUS
    <2> startup \in [step : Steps, answer : Configurations, left : SUBSET Projects,
                    seen : Configurations, verdict : Access]
      BY DEF TypeOK
    <2> USE DEF storeVars, modelVars, userVars
    <2>1. ASSUME UNCHANGED <<calls, answers>>, NewestIsStored',
                 projects' = projects \/ startup.step # "done"
          PROVE  ScreenIInv'
      <3>1. OneCallEach' /\ AnswersAreAwaited'
        BY <2>1 DEF ScreenIInv, OneCallEach, AnswersAreAwaited
      <3>2. FailuresChangeNothing'
        <4>1. CASE projects' = projects
          BY <2>1, <4>1 DEF ScreenIInv, FailuresChangeNothing, Before
        <4>2. CASE startup.step # "done"
          BY <2>1, <4>2, NoAnswerAtStart DEF ScreenIInv, StartupIInv, FailuresChangeNothing
        <4> QED BY <2>1, <4>1, <4>2
      <3> QED BY <2>1, <3>1, <3>2 DEF ScreenIInv
    <2>2. CASE Load
      <3>1. \E step \in Steps \ {"finish", "done"} : \E c, w : Outcome(step, c, w)
        BY <2>2 DEF Load, LoadMissing, LoadUnreadable, LoadNewer, LoadValid, LoadCorrupt,
              Quarantine, RequireSourceRecovery, Steps
      <3>2. startup'.step \notin {"finish", "done"} /\ startup'.answer = envelope'
        BY <3>1 DEF Outcome
      <3> QED BY <2>1, <2>2, <3>2 DEF Load, NewestIsStored
    <2>3. CASE ApplyLoad \/ ShowSnapshot
      <3>1. answers = <<>> /\ startup.answer = envelope /\ startup.step # "done"
        BY <2>3, NoAnswerAtStart
           DEF ApplyLoad, ShowSnapshot, ScreenIInv, StartupIInv, NewestIsStored
      <3>2. /\ UNCHANGED <<calls, answers, envelope>> /\ projects' = envelope
            /\ startup'.step \in {"refresh", "finish"}
        BY <2>3, <3>1 DEF ApplyLoad, ShowSnapshot, Launched
      <3> QED BY <2>1, <3>1, <3>2 DEF NewestIsStored, Newest
    <2>4. ASSUME Resolve \/ \E p \in Projects : Snapshot(p) \/ BeginAccess(p) \/ WriteAccess(p)
          PROVE  ScreenIInv'
      <3>1. /\ UNCHANGED <<calls, answers, projects>>
            /\ startup'.step \in {"refresh", "resolve", "beginAccess", "write"}
        BY <2>4 DEF Resolve, Snapshot, BeginAccess, WriteAccess, Judge, NextProject
      <3> QED BY <2>1, <3>1 DEF NewestIsStored
    <2>5. CASE ReadBack \/ FinishLoading
      BY <2>1, <2>5 DEF ReadBack, FinishLoading, ScreenIInv, NewestIsStored, Newest
    <2>6. ASSUME NEW c \in calls, Provide(c) PROVE ScreenIInv'
      <3> DEFINE d == [c EXCEPT !.step = "store"]
      <3>1. /\ c \in Calls /\ c.step = "provider"
            /\ d.kind = c.kind /\ d.project = c.project
        BY <2>6 DEF TypeOK, Calls, Provide
      <3>2. calls' = (calls \ {c}) \cup {d} \/ calls' = calls \ {c}
        BY <2>6 DEF Provide
      <3> HIDE DEF d
      <3>3. OneCallEach'
        BY <3>1, <3>2 DEF ScreenIInv, OneCallEach
      <3>4. answers' = answers /\ UNCHANGED <<projects, envelope, startup>>
        BY <2>6 DEF Provide
      <3>5. AnswersAreAwaited'
        BY <3>1, <3>2, <3>4 DEF ScreenIInv, AnswersAreAwaited
      <3> QED BY <3>3, <3>4, <3>5
              DEF ScreenIInv, FailuresChangeNothing, Before, NewestIsStored, Newest
    <2>7. CASE Asking
      <3>1. PICK p, kind, f :
               AddProject(p, f) \/ (kind # "add" /\ BeginMutation(p, kind, f))
        BY <2>7 DEF Asking, Kinds
      <3>2. PICK d : /\ calls' = calls \cup {d}
                     /\ \/ d.kind = "add" /\ \A c \in calls : c.kind # "add"
                        \/ /\ d.kind # "add"
                           /\ \A c \in calls : c.kind # "add" => c.project # d.project
        <4> DEFINE New(k, step) == [kind |-> k, project |-> p, folder |-> f, step |-> step]
        <4>1. ASSUME NEW k, NEW step
              PROVE  New(k, step).kind = k /\ New(k, step).project = p
          OBVIOUS
        <4>2. CASE AddProject(p, f)
          <5>1. calls' = calls \cup {New("add", "provider")}
            BY <4>2 DEF AddProject, Begin
          <5> QED BY <4>1, <4>2, <5>1 DEF AddProject
        <4>3. CASE kind # "add" /\ BeginMutation(p, kind, f)
          <5>1. PICK step : calls' = calls \cup {New(kind, step)}
            BY <4>3 DEF BeginMutation, Begin
          <5>2. New(kind, step).kind # "add" /\ New(kind, step).project = p
            BY <4>1, <4>3
          <5>3. \A c \in calls : c.kind # "add" => c.project # p
            BY <4>3 DEF BeginMutation
          <5> HIDE DEF New
          <5> QED BY <5>1, <5>2, <5>3
        <4> QED BY <3>1, <4>2, <4>3
      <3>3. UNCHANGED <<answers, projects, envelope, startup>>
        BY <3>1 DEF AddProject, BeginMutation, Begin
      <3>4. OneCallEach'
        BY <3>2 DEF ScreenIInv, OneCallEach
      <3>5. AnswersAreAwaited'
        BY <3>2, <3>3 DEF ScreenIInv, AnswersAreAwaited
      <3> QED BY <3>3, <3>4, <3>5
              DEF ScreenIInv, FailuresChangeNothing, Before, NewestIsStored, Newest
    <2>8. CASE Relaunch
      BY <2>8 DEF Relaunch, Launched, ScreenIInv, OneCallEach, AnswersAreAwaited,
                  FailuresChangeNothing, NewestIsStored
    <2>9. CASE UNCHANGED vars
      BY <2>1, <2>9 DEF vars, ScreenIInv, NewestIsStored, Newest
    <2> QED BY <2>2, <2>3, <2>4, <2>5, <2>6, <2>7, <2>8, <2>9, ServeKeepsScreen, ApplyKeepsScreen
            DEF Next, Starting, Working
  <1> QED BY <1>1, <1>2, StoreTypeCorrect, StartupIsExclusive, PTL DEF Spec

(* When nothing is under way the screen lists what the store holds.        *)
THEOREM ScreenAlwaysMatchesStore == Spec => []ScreenMatchesStore
  <1>1. TypeOK /\ ScreenIInv => ScreenMatchesStore
    <2> SUFFICES ASSUME TypeOK, ScreenIInv, startup.step = "done", calls = {}
                 PROVE  projects = envelope
      BY DEF ScreenMatchesStore
    <2>1. answers \in Seq(Answered) /\ Len(answers) = 0
      BY DEF TypeOK, Answered, ScreenIInv, AnswersAreAwaited
    <2>2. answers = <<>>
      BY <2>1
    <2> QED BY <2>2 DEF ScreenIInv, NewestIsStored, Newest
  <1> QED BY <1>1, StoreTypeCorrect, ScreenFollowsStore, PTL
==============================================================================
