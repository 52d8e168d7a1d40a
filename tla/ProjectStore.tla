----------------------------- MODULE ProjectStore -----------------------------
(***************************************************************************)
(* The project store and its file, the folder-access coordinator that      *)
(* checks restored access at launch, and AppModel's list of projects.      *)
(* A store operation is one block of the store's actor; what comes before  *)
(* and after it, and every question to the bookmark provider, is a step.   *)
(* A folder reference is its folder: the provider resolves a reference to  *)
(* itself.  A project's record keeps what operations change.  Answers of   *)
(* the store reach the main actor in the order it gave them: the way back  *)
(* is taken before the store's actor turns to its next call.               *)
(***************************************************************************)
EXTENDS Sequences, Naturals

CONSTANTS Projects,       \* identifiers of projects
          Folders,        \* normalized identities of folders
          MaxLaunches,    \* bound: launches of the application
          MaxOperations   \* bound: operations the user asks for

ASSUME StoreConstants == MaxLaunches \in Nat \ {0} /\ MaxOperations \in Nat

Failures == {"needsRepair", "missing", "denied"}
Access == Failures \cup {"available"}
Records == [name : {"original", "renamed"}, enabled : BOOLEAN,
            folder : Folders, access : Access]
Configurations == UNION {[S -> Records] : S \in SUBSET Projects}
Empty == [p \in {} |-> "none"]
Kinds == {"add", "rename", "enable", "disable", "repair", "remove"}
Calls == [kind : Kinds, project : Projects, folder : Folders,
          step : {"provider", "store", "answered"}]

(* What there is at the store's URL; only a valid file has projects for    *)
(* this version.                                                           *)
Files == [kind : {"missing", "valid", "corrupt", "newer"}, readable : BOOLEAN,
          projects : Configurations]

VARIABLES
    file,        \* the configuration file
    preserved,   \* how many corrupt files were quarantined
    envelope,    \* the store's projects
    writeProtection,          \* the store's: "none", "newer" or "source"
    projects,                 \* AppModel's list
    configurationStoreState,  \* AppModel's
    startup,     \* AppModel.load() and the refresh of access: where it is
    calls,       \* the user's operations under way
    answers,     \* answers of the store on their way to the main actor
    used,        \* identifiers given out
    launches,    \* for the bound
    asked        \* for the bound

storeVars == <<file, preserved, envelope, writeProtection>>
modelVars == <<projects, configurationStoreState>>
userVars == <<calls, answers, used, asked>>
vars == <<storeVars, modelVars, startup, userVars, launches>>

(* startup.left: projects whose access is still to be checked; .seen: the  *)
(* one under way as the coordinator read it; .verdict: what it will write; *)
(* .answer: what the store answered.                                       *)
Launched == [step |-> "load", answer |-> Empty, left |-> {}, seen |-> Empty,
             verdict |-> "available"]
Steps == {"load", "writable", "recovery", "newer", "reset", "refresh", "resolve", "beginAccess",
          "write", "shown", "finish", "done"}

NoFile == [kind |-> "missing", readable |-> TRUE, projects |-> Empty]
Written(c) == [kind |-> "valid", readable |-> TRUE, projects |-> c]
Damaged == {[kind |-> k, readable |-> TRUE, projects |-> Empty] : k \in {"corrupt", "newer"}}

(* ConfigurationEnvelope.validate(), and what add() and                    *)
(* replaceFolderAccess() look at before: no folder twice.                  *)
Valid(c) == \A p, q \in DOMAIN c : c[p].folder = c[q].folder => p = q

Restored == {c \in Configurations :
                Valid(c) /\ \A p \in DOMAIN c : c[p].name = "original" /\ c[p].enabled}

Init ==
    /\ \E c \in Restored, r \in BOOLEAN :
          file \in {NoFile, [Written(c) EXCEPT !.readable = r]} \cup Damaged
    /\ preserved = 0 /\ used = DOMAIN file.projects
    /\ envelope = Empty /\ writeProtection = "none"
    /\ projects = Empty /\ configurationStoreState = "writable"
    /\ startup = Launched
    /\ calls = {} /\ answers = <<>> /\ asked = 0 /\ launches = 1

(* The application quits or crashes, and is launched again; in the         *)
(* meantime its file may have been damaged, hidden, or written by a newer  *)
(* version.                                                                *)
Relaunch ==
    /\ launches < MaxLaunches /\ launches' = launches + 1
    /\ file' \in {file} \cup {[file EXCEPT !.readable = r] : r \in BOOLEAN} \cup Damaged
    /\ envelope' = Empty /\ writeProtection' = "none"
    /\ projects' = Empty /\ configurationStoreState' = "writable"
    /\ startup' = Launched
    /\ calls' = {} /\ answers' = <<>>
    /\ UNCHANGED <<preserved, used, asked>>
------------------------------------------------------------------------------
(* ProjectStore.load(), its outcomes.                                      *)
Outcome(step, c, protection) ==
    /\ envelope' = c /\ writeProtection' = protection
    /\ startup' = [startup EXCEPT !.step = step, !.answer = c]

LoadMissing ==
    /\ file.kind = "missing"
    /\ Outcome("writable", Empty, "none") /\ UNCHANGED <<file, preserved>>

RequireSourceRecovery == Outcome("recovery", Empty, "source") /\ UNCHANGED <<file, preserved>>

LoadUnreadable == file.kind # "missing" /\ ~file.readable /\ RequireSourceRecovery

LoadNewer ==
    /\ file.kind = "newer" /\ file.readable
    /\ Outcome("newer", Empty, "newer") /\ UNCHANGED <<file, preserved>>

LoadValid ==
    /\ file.kind = "valid" /\ file.readable
    /\ Outcome("writable", file.projects, "none") /\ UNCHANGED <<file, preserved>>

Quarantine ==
    \/ /\ file' = NoFile /\ preserved' = preserved + 1
       /\ Outcome("reset", Empty, "none")
    \/ RequireSourceRecovery

(* LoadCorrupt, when the envelope is decoded before the version is known.  *)
LoadUndecodable == file.kind \in {"corrupt", "newer"} /\ file.readable /\ Quarantine

LoadCorrupt == file.kind = "corrupt" /\ file.readable /\ Quarantine

Load ==
    /\ startup.step = "load"
    /\ LoadMissing \/ LoadUnreadable \/ LoadNewer \/ LoadValid \/ LoadCorrupt
    /\ UNCHANGED <<modelVars, userVars, launches>>

Loaded == startup.step # "load" /\ writeProtection # "newer"

(* persist(), when memory is changed first.                                *)
PersistMemoryFirst(c) ==
    /\ Valid(c) /\ envelope' = c
    /\ file' \in {file, Written(c)}
    /\ UNCHANGED <<preserved, writeProtection>>

(* persist() where nothing fails: the file, then memory.                   *)
Persist(c) ==
    /\ Valid(c)
    /\ file' = Written(c) /\ envelope' = c
    /\ UNCHANGED <<preserved, writeProtection>>
------------------------------------------------------------------------------
(* AppModel.load() gets its answer.                                        *)
ApplyLoad ==
    /\ startup.step \in {"writable", "reset", "recovery", "newer"}
    /\ projects' = startup.answer
    /\ configurationStoreState' =
          IF startup.step = "reset" THEN "writable" ELSE startup.step
    /\ startup' = IF startup.step = "writable" /\ startup.answer # Empty
                  THEN [Launched EXCEPT !.step = "refresh", !.left = DOMAIN startup.answer]
                  ELSE [Launched EXCEPT !.step = "finish"]
    /\ UNCHANGED <<storeVars, userVars, launches>>

(* The coordinator's refreshAccess(): what the store has of the project;   *)
(* the bookmark; access to the folder; the result.                         *)
Snapshot(p) ==
    /\ startup.step = "refresh" /\ p \in startup.left
    /\ startup' = IF Loaded /\ p \in DOMAIN envelope
                  THEN [startup EXCEPT !.step = "resolve", !.left = @ \ {p},
                                       !.seen = [q \in {p} |-> envelope[q]]]
                  ELSE [startup EXCEPT !.left = @ \ {p}]
    /\ UNCHANGED <<storeVars, modelVars, userVars, launches>>

Seen(p) == startup.seen[p]
NextProject == startup' = [startup EXCEPT !.step = "refresh", !.seen = Empty,
                                          !.verdict = "available"]
Judge(verdict) == startup' = [startup EXCEPT !.step = "write", !.verdict = verdict]

Resolve ==
    /\ startup.step = "resolve"
    /\ \/ startup' = [startup EXCEPT !.step = "beginAccess"]
       \/ \E f \in Failures : Judge(f)
    /\ UNCHANGED <<storeVars, modelVars, userVars, launches>>

BeginAccess(p) ==
    /\ startup.step = "beginAccess" /\ p \in DOMAIN startup.seen
    /\ \/ \E f \in {"needsRepair", "denied"} : Judge(f)
       \/ IF Seen(p).access = "available" THEN NextProject ELSE Judge("available")
    /\ UNCHANGED <<storeVars, modelVars, userVars, launches>>

(* setAccessState(), or replaceFolderAccess() with the reference resolved. *)
Judged(p) ==
    IF startup.verdict = "available"
    THEN [envelope EXCEPT ![p].access = "available", ![p].folder = Seen(p).folder]
    ELSE [envelope EXCEPT ![p].access = startup.verdict]

WriteAccess(p) ==
    /\ startup.step = "write" /\ p \in DOMAIN startup.seen
    /\ \/ writeProtection = "none" /\ p \in DOMAIN envelope /\ Persist(Judged(p))
       \/ UNCHANGED storeVars
    /\ NextProject
    /\ UNCHANGED <<modelVars, userVars, launches>>

(* ReadBack, when the list of the beginning is kept.                       *)
KeepList ==
    /\ startup.step = "refresh" /\ startup.left = {}
    /\ startup' = [startup EXCEPT !.step = "shown", !.answer = projects]
    /\ UNCHANGED <<storeVars, modelVars, userVars, launches>>

(* The end of refreshRestoredAccess(): a snapshot, and it is shown.        *)
ReadBack ==
    /\ startup.step = "refresh" /\ startup.left = {}
    /\ startup' = [startup EXCEPT !.step = "shown", !.answer = envelope]
    /\ UNCHANGED <<storeVars, modelVars, userVars, launches>>

ShowSnapshot ==
    /\ startup.step = "shown"
    /\ projects' = startup.answer
    /\ startup' = [Launched EXCEPT !.step = "finish"]
    /\ UNCHANGED <<storeVars, configurationStoreState, userVars, launches>>

(* isLoading becomes false.                                                *)
FinishLoading ==
    /\ startup.step = "finish"
    /\ startup' = [startup EXCEPT !.step = "done"]
    /\ UNCHANGED <<storeVars, modelVars, userVars, launches>>
------------------------------------------------------------------------------
(* MayMutate, when what the views and the menu say is forgotten.           *)
MayMutateWhileLoading == configurationStoreState = "writable"

(* canMutateProjects, and no view or menu offers a mutation while loading. *)
MayMutate == configurationStoreState = "writable" /\ startup.step = "done"

Begin(call) ==
    /\ asked < MaxOperations /\ asked' = asked + 1
    /\ MayMutate
    /\ calls' = calls \cup {call}
    /\ UNCHANGED <<storeVars, modelVars, startup, answers, launches>>

(* addProject(): one at a time; a folder is chosen, and a new identifier.  *)
AddProject(p, folder) ==
    /\ p \notin used /\ used' = used \cup {p}
    /\ \A c \in calls : c.kind # "add"
    /\ Begin([kind |-> "add", project |-> p, folder |-> folder, step |-> "provider"])

(* A mutation of a project on the screen; its gate admits one at a time.   *)
BeginMutation(p, kind, folder) ==
    /\ p \in DOMAIN projects /\ UNCHANGED used
    /\ \A c \in calls : c.kind # "add" => c.project # p
    /\ Begin([kind |-> kind, project |-> p, folder |-> folder,
              step |-> IF kind = "repair" THEN "provider" ELSE "store"])

(* createReference(), repair(): a reference for the folder, or an error.   *)
Provide(c) ==
    /\ c.step = "provider"
    /\ \/ calls' = (calls \ {c}) \cup {[c EXCEPT !.step = "store"]}
       \/ calls' = calls \ {c}
    /\ UNCHANGED <<storeVars, modelVars, startup, answers, used, asked, launches>>

Candidate(c) ==
    LET p == c.project IN
    CASE c.kind = "add" ->
             [q \in DOMAIN envelope \cup {p} |->
                 IF q = p THEN [name |-> "original", enabled |-> TRUE, folder |-> c.folder,
                                access |-> "available"]
                          ELSE envelope[q]]
      [] c.kind = "remove" -> [q \in DOMAIN envelope \ {p} |-> envelope[q]]
      [] c.kind = "rename" -> [envelope EXCEPT ![p].name = "renamed"]
      [] c.kind = "repair" -> [envelope EXCEPT ![p].folder = c.folder, ![p].access = "available"]
      [] OTHER -> [envelope EXCEPT ![p].enabled = (c.kind = "enable")]

Reply(c, succeeded) ==
    /\ answers' = Append(answers, [call |-> [c EXCEPT !.step = "answered"],
                                   succeeded |-> succeeded, projects |-> envelope'])
    /\ calls' = (calls \ {c}) \cup {[c EXCEPT !.step = "answered"]}

(* A mutation in the store; whatever fails, everything stays as it was.    *)
Serve(c) ==
    /\ c.step = "store"
    /\ \/ /\ Loaded /\ writeProtection = "none"
          /\ c.kind = "add" \/ c.project \in DOMAIN envelope
          /\ Persist(Candidate(c)) /\ Reply(c, TRUE)
       \/ UNCHANGED storeVars /\ Reply(c, FALSE)
    /\ UNCHANGED <<modelVars, startup, used, asked, launches>>

(* The answer is back on the main actor: the list is replaced, or an error *)
(* presented.                                                              *)
Apply ==
    /\ answers # <<>>
    /\ projects' = IF Head(answers).succeeded THEN Head(answers).projects ELSE projects
    /\ answers' = Tail(answers) /\ calls' = calls \ {Head(answers).call}
    /\ UNCHANGED <<storeVars, configurationStoreState, startup, used, asked, launches>>
------------------------------------------------------------------------------
Starting ==
    \/ Load \/ ApplyLoad \/ Resolve \/ ReadBack \/ ShowSnapshot \/ FinishLoading
    \/ \E p \in Projects : Snapshot(p) \/ BeginAccess(p) \/ WriteAccess(p)

Working == Apply \/ \E c \in calls : Provide(c) \/ Serve(c)

Asking ==
    \E p \in Projects :
        \/ \E f \in Folders : AddProject(p, f) \/ BeginMutation(p, "repair", f)
        \/ \E kind \in Kinds \ {"add", "repair"} :
              p \in DOMAIN projects /\ BeginMutation(p, kind, projects[p].folder)

Next == Starting \/ Working \/ Asking \/ Relaunch

Spec == Init /\ [][Next]_vars
------------------------------------------------------------------------------
TypeOK ==
    /\ file \in Files /\ preserved \in Nat
    /\ envelope \in Configurations /\ writeProtection \in {"none", "newer", "source"}
    /\ projects \in Configurations
    /\ configurationStoreState \in {"writable", "recovery", "newer"}
    /\ startup \in [step : Steps, answer : Configurations, left : SUBSET Projects,
                    seen : Configurations, verdict : Access]
    /\ calls \subseteq Calls
    /\ answers \in Seq([call : Calls, succeeded : BOOLEAN, projects : Configurations])
    /\ used \subseteq Projects /\ launches \in 1 .. MaxLaunches /\ asked \in 0 .. MaxOperations

(* No two projects have the same folder, in memory or in the file that a   *)
(* launch would load ("Duplicate detection compares provider-normalized    *)
(* folder identity, not display names").                                   *)
FoldersAreUnique ==
    \A c \in {envelope, file.projects} : \A p, q \in DOMAIN c :
        c[p].folder = c[q].folder => p = q

(* Killed at any moment, the application would find at its next launch     *)
(* what the store holds now, whichever writes have failed.                 *)
RelaunchLosesNothing ==
    Loaded /\ writeProtection = "none" =>
        /\ file.kind = "missing" \/ (file.kind = "valid" /\ file.readable)
        /\ file.projects = envelope

(* The types; folders are unique; nothing confirmed is lost by a crash.    *)
StoreInv == TypeOK /\ FoldersAreUnique /\ RelaunchLosesNothing

(* The application replaces a file only by changes to what it has read in  *)
(* it; one it could not read, or of a newer version, stays, and a corrupt  *)
(* one is moved away first ("never downgraded or overwritten").            *)
SourceNotOverwritten ==
    [][file' # file /\ launches' = launches =>
           \/ /\ file.kind = "missing" \/ (file.kind = "valid" /\ file.readable)
              /\ file'.kind = "valid" /\ file.projects = envelope
           \/ file.kind = "corrupt" /\ file' = NoFile /\ preserved' = preserved + 1]_vars

(* While the coordinator checks a project's access, over three awaits, the *)
(* store's record of it stays the one it has read: what it then writes is  *)
(* about the folder the project has, and undoes no repair or removal.      *)
VerdictIsCurrent ==
    \A p \in DOMAIN startup.seen : p \in DOMAIN envelope /\ envelope[p] = Seen(p)

(* When nothing is under way the screen lists what the store holds: no     *)
(* answer, failure, refresh or recovery leaves it with an older list.      *)
ScreenMatchesStore ==
    startup.step = "done" /\ calls = {} => projects = envelope
==============================================================================
