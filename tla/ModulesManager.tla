--------------------------- MODULE ModulesManager ---------------------------
(***************************************************************************)
(* Activation and deactivation of modules (kadu-core/modules.cpp): the     *)
(* recursive activation of dependencies, conflicts, usage counters, the    *)
(* lists kept in the configuration, start-up, the modules window and the   *)
(* unloading at exit.  The recursion of activateModule is an explicit      *)
(* stack, so that every call of a module's init routine is a step.         *)
(***************************************************************************)
EXTENDS Integers, Sequences, FiniteSets, SequencesExt

CONSTANTS
    Module,          \* names of modules
    Position,        \* their places in the order of QMap keys and of QDir entries
    Depends,         \* Depends[m]: the sequence of modules m needs
    Conflicts,       \* Conflicts[m]: names of modules and features
    Provides,        \* Provides[m]: features
    Replaces,        \* Replaces[m]: modules of older versions
    LoadByDefault,   \* modules whose description says so
    StaticModules,   \* compiled in
    Protocols,       \* modules whose name ends in "_protocol"
    EnsuredModules,  \* arguments of ensureLoadedAtLeastOnce
    DialogModule,    \* "sms", whose open dialogs count as users
    Releases,        \* sets of libraries that come with a version of Kadu
    Upgrades,        \* pairs of releases of which the second can follow the first
    Rank,            \* a number of each module, higher than those it depends on
    MaxDialogs,      \* bound on the dialogs
    MaxStarts        \* bound on the starts of the program

ASSUME ModulesAssumption ==
    /\ IsFiniteSet(Module)
    /\ Depends \in [Module -> Seq(Module)]
    /\ Rank \in [Module -> Nat]
    /\ \A m \in Module : \A d \in Range(Depends[m]) : Rank[d] < Rank[m]
    /\ \A m \in Module : IsInjective(Depends[m])
    /\ Position \in [Module -> Nat] /\ IsInjective(Position)
    /\ LoadByDefault \cup StaticModules \cup Protocols \cup EnsuredModules \subseteq Module
    /\ DialogModule \in Module
    /\ Releases \subseteq SUBSET (Module \ StaticModules)
    /\ MaxDialogs \in Nat /\ MaxStarts \in Nat

\* What module m needs, directly or through what it depends on.
Needs(m, n) ==
    \A S \in SUBSET Module :
        Range(Depends[m]) \subseteq S /\ (\A k \in S : Range(Depends[k]) \subseteq S) => n \in S

\* m names n, or a feature of n, among its conflicts.
Excludes(m, n) == n \in Conflicts[m] \/ Conflicts[m] \cap Provides[n] # {}

\* The .desc files of the repository are such that a module does not exclude what
\* it needs, nor the other way round, and that two modules that exclude each other
\* by a feature of only one of them also do so by name: conflictsWithLoaded does not
\* look for the features of the new module among the conflicts of those loaded.
ASSUME ConflictsAssumption ==
    \A m, n \in Module :
        /\ Needs(m, n) => ~Excludes(m, n) /\ ~Excludes(n, m)
        /\ m # n /\ Conflicts[m] \cap Provides[n] # {} =>
                n \in Conflicts[m] \/ Excludes(n, m)

VARIABLES
    phase,       \* what the program is doing
    installed,   \* libraries in the directory of modules
    config,      \* LoadedModules and UnloadedModules in the configuration
    everLoaded,  \* modules initialised once, as far as anyone asks
    lists,       \* loaded_list and unloaded_list, made of them by the constructor
    modules,     \* Modules: a function from names to entries
    dialogs,     \* SMS dialogs open
    stack,       \* calls of activateModule not finished, outermost first
    todo,        \* modules the current loop has still to visit
    saveList,    \* saveList of loadAllModules
    deactivated, \* the flag of the loop of unloadAllModules
    failed,      \* modules that could not be loaded or initialised since the start
    starts

vars == <<phase, installed, config, everLoaded, lists, modules, dialogs, stack, todo,
          saveList, deactivated, failed, starts>>

fixed == <<installed, lists, starts>>   \* changed by Start and Upgrade only
flags == <<saveList, deactivated>>
inUse == <<modules, dialogs>>

StartupPhases == <<"protocols", "static", "dynamic", "replaced">>
Phases == ToSet(StartupPhases) \cup {"off", "running", "loading", "unloading", "killing"}

-----------------------------------------------------------------------------
(* Queries *)

Active == DOMAIN modules

\* An entry made by operator[] for a module that is not there has no library
\* and no description.
Ghosts == {m \in Active : modules[m].ghost}

Available == installed \cup StaticModules
LoadedModules == (Active \ Ghosts) \ StaticModules
UnloadedModules == installed \ LoadedModules

\* The description of a module that is not there is empty.
DependsOf(m) == IF m \in Available THEN Depends[m] ELSE <<>>
ConflictsOf(m) == IF m \in Available THEN Conflicts[m] ELSE {}

\* Mutant: features are not looked at.
ConflictsByNameOnly(m) ==
    \/ ConflictsOf(m) \cap Active # {}
    \/ \E k \in Active \ Ghosts : m \in Conflicts[k]

ConflictsWithLoaded(m) ==
    \/ ConflictsOf(m) \cap Active # {}
    \/ \E k \in Active \ Ghosts : \/ ConflictsOf(m) \cap Provides[k] # {}
                                  \/ m \in Conflicts[k]

\* The module of todo the current loop comes to next.  The list of protocols
\* begins with those that are compiled in.
IsNext(m) ==
    /\ m \in todo
    /\ \A n \in todo :
          IF phase = "protocols" /\ (m \in StaticModules) # (n \in StaticModules)
          THEN m \in StaticModules
          ELSE Position[m] <= Position[n]

\* Mutant: an entry is made anew instead of changed.
AddUsageAnew(table, S, n) ==
    [m \in DOMAIN table \cup S |-> IF m \in S THEN [usage |-> n, ghost |-> TRUE] ELSE table[m]]

\* Modules[m].usage_counter += n, where operator[] inserts a missing entry.
AddUsage(table, S, n) ==
    [m \in DOMAIN table \cup S |->
        LET entry == IF m \in DOMAIN table THEN table[m] ELSE [usage |-> 0, ghost |-> TRUE]
        IN  IF m \in S THEN [entry EXCEPT !.usage = @ + n] ELSE entry]

\* Mutant: the dependencies are not told.
RemovedOnly(m) == [k \in Active \ {m} |-> modules[k]]

\* deactivateModule past its checks: the dependencies lose a user.
Removed(m) ==
    LET table == AddUsage(modules, Range(DependsOf(m)), -1)
    IN  [k \in DOMAIN table \ {m} |-> table[k]]

\* activateModule at its end: the dependencies gain a user.
Inserted(m) ==
    LET table == AddUsage(modules, Range(DependsOf(m)), 1)
    IN  [k \in DOMAIN table \cup {m} |->
            IF k = m THEN [usage |-> 0, ghost |-> FALSE] ELSE table[k]]

\* saveLoadedModules, given the table of modules.
Saved(table) ==
    LET loaded == {m \in DOMAIN table : ~table[m].ghost} \ StaticModules
    IN  [loaded |-> loaded, unloaded |-> installed \ loaded]

Init ==
    /\ phase = "off"
    /\ installed \in Releases
    /\ config = [loaded |-> {}, unloaded |-> {}]
    /\ everLoaded = {}
    /\ lists = config
    /\ modules = <<>>
    /\ dialogs = 0
    /\ stack = <<>> /\ todo = {}
    /\ saveList = FALSE /\ deactivated = FALSE
    /\ failed = {}
    /\ starts = 0

-----------------------------------------------------------------------------
(* activateModule                                                          *)

\* The outermost call is over: what its caller does with the result.
Returned(ok, table) ==
    /\ stack' = <<>>
    /\ saveList' = (saveList \/ (phase = "dynamic" /\ ~ok) \/ (phase = "replaced" /\ ok))
    /\ phase' = IF phase = "loading" THEN "running" ELSE phase
    /\ config' = IF phase = "loading" THEN Saved(table) ELSE config

\* A call that fails makes every call it was made from fail.
Fails == Returned(FALSE, modules)

\* The beginning of activateModule, up to satisfyModuleDependencies.
Call(m) ==
    IF m \in Active \/ ConflictsWithLoaded(m)
    THEN Fails
    ELSE /\ stack' = Append(stack, [module |-> m, left |-> DependsOf(m)])
         /\ UNCHANGED <<saveList, phase, config>>

Top == Last(stack)

\* satisfyModuleDependencies looks at its next dependency.
SatisfyDependency ==
    /\ stack # <<>> /\ Top.left # <<>>
    /\ LET d == Head(Top.left) IN
       \/ /\ d \in Active
          /\ stack' = [stack EXCEPT ![Len(stack)].left = Tail(@)]
          /\ UNCHANGED <<saveList, phase, config, failed>>
       \/ /\ d \notin Active /\ d \in Available
          /\ Call(d)
          /\ UNCHANGED failed
       \/ /\ d \notin Active /\ d \notin Available
          /\ Fails
          /\ failed' = failed \cup {f.module : f \in Range(stack)}
    /\ UNCHANGED <<fixed, inUse, everLoaded, todo, deactivated>>

\* The library cannot be loaded or lacks its functions.
LibraryFails ==
    /\ stack # <<>> /\ Top.left = <<>>
    /\ Top.module \notin StaticModules
    /\ Fails
    /\ failed' = failed \cup {f.module : f \in Range(stack)}
    /\ UNCHANGED <<fixed, inUse, everLoaded, todo, deactivated>>

\* The init routine reports a failure.
InitFails ==
    /\ stack # <<>> /\ Top.left = <<>>
    /\ Top.module \in Available
    /\ everLoaded' = everLoaded \cup ({Top.module} \cap EnsuredModules)
    /\ Fails
    /\ failed' = failed \cup {f.module : f \in Range(stack)}
    /\ UNCHANGED <<fixed, inUse, todo, deactivated>>

InitSucceeds ==
    /\ stack # <<>> /\ Top.left = <<>>
    /\ Top.module \in Available
    /\ everLoaded' = everLoaded \cup ({Top.module} \cap EnsuredModules)
    /\ modules' = Inserted(Top.module)
    /\ IF Len(stack) = 1
       THEN Returned(TRUE, modules')
       ELSE /\ stack' = Front(stack)
            /\ UNCHANGED <<saveList, phase, config>>
    /\ UNCHANGED <<fixed, dialogs, todo, deactivated, failed>>

-----------------------------------------------------------------------------
(* Start-up: the constructor, loadProtocolModules and loadAllModules.      *)

Start ==
    /\ phase = "off" /\ starts < MaxStarts
    /\ starts' = starts + 1
    /\ LET ensured == {m \in EnsuredModules \ (everLoaded \cup config.loaded) :
                            m \in config.unloaded}
       IN  lists' = [loaded |-> config.loaded \cup ensured,
                     unloaded |-> config.unloaded \ ensured]
    /\ phase' = "protocols"
    /\ todo' = Protocols \cap Available
    /\ UNCHANGED <<flags, inUse, installed, config, everLoaded, stack, failed>>

\* Mutant of Wanted: what the user has unloaded is forgotten.
WantedLoadedOrDefault(m) == m \in lists.loaded \cup StaticModules \cup LoadByDefault

Wanted(m) ==
    \/ m \in lists.loaded
    \/ m \notin lists.unloaded /\ m \in StaticModules \cup LoadByDefault

\* The conditions of the loops, in the order of StartupPhases, and of the
\* modules window, which tries whatever the user asks for.
ShouldActivate(m) ==
    CASE phase = "protocols" -> m \notin Active /\ Wanted(m)
      [] phase = "static"    -> m \notin Active
      [] phase = "dynamic"   -> m \notin Active /\ m \notin Protocols /\ Wanted(m)
      [] phase = "replaced"  -> m \notin Active /\ \E k \in installed : m \in Replaces[k]
      [] phase = "loading"   -> TRUE

Visit(m) ==
    /\ phase \in ToSet(StartupPhases) \cup {"loading"}
    /\ stack = <<>> /\ IsNext(m)
    /\ todo' = todo \ {m}
    /\ IF ShouldActivate(m)
       THEN Call(m)
       ELSE UNCHANGED <<stack, saveList, phase, config>>
    /\ UNCHANGED <<fixed, inUse, everLoaded, deactivated, failed>>

NextLoop ==
    /\ stack = <<>> /\ todo = {}
    /\ \/ phase = "protocols" /\ phase' = "static" /\ todo' = StaticModules
       \/ phase = "static" /\ phase' = "dynamic" /\ todo' = installed
       \/ phase = "dynamic" /\ phase' = "replaced" /\ todo' = lists.loaded
    /\ UNCHANGED <<fixed, flags, inUse, config, everLoaded, stack, failed>>

StartupEnds ==
    /\ phase = "replaced" /\ stack = <<>> /\ todo = {}
    /\ phase' = "running"
    /\ config' = IF saveList THEN Saved(modules) ELSE config
    /\ saveList' = FALSE
    /\ UNCHANGED <<fixed, inUse, everLoaded, stack, todo, deactivated, failed>>

-----------------------------------------------------------------------------
(* The modules window and the SMS dialogs.                                 *)

UserLoads(m) ==
    /\ phase = "running" /\ m \in UnloadedModules
    /\ phase' = "loading" /\ todo' = {m}
    /\ UNCHANGED <<fixed, flags, inUse, config, everLoaded, stack, failed>>

\* Mutant: a module in use is unloaded, too.
UserUnloadsUsed(m) ==
    /\ phase = "running" /\ m \in LoadedModules
    /\ modules' = Removed(m)
    /\ config' = Saved(modules')
    /\ UNCHANGED <<fixed, flags, phase, everLoaded, dialogs, stack, todo, failed>>

UserUnloads(m) ==
    /\ phase = "running" /\ m \in LoadedModules
    /\ modules' = IF modules[m].usage > 0 THEN modules ELSE Removed(m)
    /\ config' = Saved(modules')
    /\ UNCHANGED <<fixed, flags, phase, everLoaded, dialogs, stack, todo, failed>>

OpenDialog ==
    /\ phase = "running" /\ DialogModule \in Active /\ dialogs < MaxDialogs
    /\ dialogs' = dialogs + 1
    /\ modules' = AddUsage(modules, {DialogModule}, 1)
    /\ UNCHANGED <<fixed, flags, phase, config, everLoaded, stack, todo, failed>>

CloseDialog ==
    /\ phase = "running" /\ dialogs > 0
    /\ dialogs' = dialogs - 1
    /\ modules' = AddUsage(modules, {DialogModule}, -1)
    /\ UNCHANGED <<fixed, flags, phase, config, everLoaded, stack, todo, failed>>

-----------------------------------------------------------------------------
(* unloadAllModules, and what happens between two runs.                    *)

Quit ==
    /\ phase = "running"
    /\ phase' = "unloading"
    /\ config' = Saved(modules)
    /\ todo' = Active
    /\ deactivated' = FALSE
    /\ UNCHANGED <<fixed, inUse, everLoaded, stack, saveList, failed>>

UnloadUnused(m) ==
    /\ phase = "unloading" /\ IsNext(m)
    /\ todo' = todo \ {m}
    /\ IF modules[m].usage = 0
       THEN modules' = Removed(m) /\ deactivated' = TRUE
       ELSE UNCHANGED <<modules, deactivated>>
    /\ UNCHANGED <<fixed, phase, config, everLoaded, dialogs, stack, saveList, failed>>

\* Mutants: one pass only; the flag is not reset.
UnloadOnce ==
    /\ phase = "unloading" /\ todo = {}
    /\ todo' = Active /\ phase' = "killing"
    /\ deactivated' = FALSE
    /\ UNCHANGED <<fixed, inUse, config, everLoaded, stack, saveList, failed>>

UnloadAgainAndAgain ==
    /\ phase = "unloading" /\ todo = {}
    /\ todo' = Active
    /\ phase' = IF deactivated THEN phase ELSE "killing"
    /\ UNCHANGED <<fixed, flags, inUse, config, everLoaded, stack, failed>>

UnloadAgain ==
    /\ phase = "unloading" /\ todo = {}
    /\ todo' = Active
    /\ phase' = IF deactivated THEN phase ELSE "killing"
    /\ deactivated' = FALSE
    /\ UNCHANGED <<fixed, inUse, config, everLoaded, stack, saveList, failed>>

Kill(m) ==
    /\ phase = "killing" /\ IsNext(m)
    /\ todo' = todo \ {m}
    /\ modules' = Removed(m)
    /\ UNCHANGED <<fixed, flags, phase, config, everLoaded, dialogs, stack, failed>>

\* The process is gone, at its end or by a crash.
Ends ==
    /\ phase' = "off"
    /\ modules' = <<>>
    /\ dialogs' = 0
    /\ stack' = <<>> /\ todo' = {}
    /\ saveList' = FALSE /\ deactivated' = FALSE
    /\ failed' = {}
    /\ UNCHANGED <<fixed, config, everLoaded>>

Exit == phase = "killing" /\ todo = {} /\ Ends

Crash == phase # "off" /\ Ends

Upgrade ==
    /\ phase = "off"
    /\ installed' \in Releases /\ <<installed, installed'>> \in Upgrades
    /\ UNCHANGED <<flags, inUse, phase, config, everLoaded, lists, stack, todo, failed, starts>>

Activation == SatisfyDependency \/ LibraryFails \/ InitFails \/ InitSucceeds
Startup == (\E m \in todo : Visit(m)) \/ NextLoop \/ StartupEnds
Unloading == (\E m \in todo : UnloadUnused(m) \/ Kill(m)) \/ UnloadAgain \/ Exit
User ==
    \/ \E m \in Module : UserLoads(m) \/ UserUnloads(m)
    \/ OpenDialog \/ CloseDialog \/ Quit

Next == Start \/ Startup \/ Activation \/ User \/ Unloading \/ Crash \/ Upgrade

Spec == Init /\ [][Next]_vars

\* The main thread goes on with a loop it is in.
FairSpec == Spec /\ WF_vars(Startup \/ Activation) /\ WF_vars(Unloading)

-----------------------------------------------------------------------------
(* Properties.                                                             *)

Frame == [module : Module, left : Seq(Module)]

TypeOK ==
    /\ phase \in Phases
    /\ installed \in Releases
    /\ config \in [loaded : SUBSET Module, unloaded : SUBSET Module]
    /\ everLoaded \subseteq EnsuredModules
    /\ lists \in [loaded : SUBSET Module, unloaded : SUBSET Module]
    /\ Active \subseteq Module
    /\ modules \in [Active -> [usage : Int, ghost : BOOLEAN]]
    /\ dialogs \in 0..MaxDialogs
    /\ stack \in Seq(Frame) /\ todo \subseteq Module
    /\ saveList \in BOOLEAN /\ deactivated \in BOOLEAN
    /\ failed \subseteq Module
    /\ starts \in 0..MaxStarts
    /\ phase # "killing" => Ghosts = {}

Users(m) == {n \in Active : m \in Range(DependsOf(n))}

\* modules.h: the counter of a module says how much it is used: once by every
\* active module that depends on it, and once by every open SMS dialog.
UsageCountsUsers ==
    phase # "killing" =>
        \A m \in Active :
            modules[m].usage = Cardinality(Users(m)) + (IF m = DialogModule THEN dialogs ELSE 0)

\* Whatever is loaded, fails and is unloaded, the modules an active module
\* depends on are active, until what is left at exit is killed.
DependenciesActive ==
    phase # "killing" => \A m \in Active : Range(DependsOf(m)) \subseteq Active

InConflict(m, n) ==
    \/ n \in ConflictsOf(m) \/ ConflictsOf(m) \cap Provides[n] # {}
    \/ m \in ConflictsOf(n) \/ ConflictsOf(n) \cap Provides[m] # {}

\* Modules that conflict with each other are never active together, although a
\* conflict is looked for before the dependencies are activated.
NoConflictActive == \A m, n \in Active \ Ghosts : m # n => ~InConflict(m, n)

\* At exit the modules can be unloaded "in normal way", one after the last of
\* its users; only an open SMS dialog leaves some to be killed.
KilledOnlyForDialogs == phase = "killing" /\ dialogs = 0 => Active = {}

\* m needs a module that is in conflict with what is loaded.
Blocked(m) == \E d \in Module \ Active : Needs(m, d) /\ ConflictsWithLoaded(d)

\* A module that was loaded when the configuration was saved last is loaded
\* again by the next start, unless it or something it depends on cannot be.
ChosenModulesLoaded ==
    \A m \in lists.loaded \cap installed :
        m \in Active \cup failed \/ ConflictsWithLoaded(m) \/ Blocked(m)

\* A module the user has unloaded stays unloaded at the next start, unless a
\* module depends on it that is loaded, or that could not be after all.
UnloadedStaysUnloaded ==
    \A m \in LoadedModules \cap lists.unloaded :
        \E n \in Module : m \in Range(DependsOf(n)) /\ (n \in Active \cup failed \/ Blocked(n))

\* When a start ends, what is loaded and what is not follow the choices of the
\* last run, although libraries fail, conflict and come and go with upgrades.
StartFollowsChoices ==
    [][StartupEnds => ChosenModulesLoaded /\ UnloadedStaysUnloaded]_vars

\* qt4_docking.desc: "Replaces=x11_docking".  A module of this version is loaded
\* for the one of an older version that it replaces.
ReplacementLoaded ==
    [][StartupEnds =>
          \A k \in installed :
              Replaces[k] \cap lists.loaded # {} =>
                  k \in Active \cup failed \/ ConflictsWithLoaded(k)]_vars

\* A start and an exit come to their end.
LoopsTerminate ==
    /\ phase = "protocols" ~> phase \in {"running", "off"}
    /\ phase = "unloading" ~> phase = "off"
=============================================================================
