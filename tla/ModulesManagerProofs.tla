----------------------- MODULE ModulesManagerProofs -----------------------
(***************************************************************************)
(* Proofs about ModulesManager, for every set of modules whose dependencies*)
(* have no cycle, every release and every bound.                           *)
(*                                                                         *)
(* That dependencies are active and counters count users is inductive only *)
(* with a fact about the calls of activateModule under way: a dependency   *)
(* of a call is active or still left to it, and ranks fall along the stack,*)
(* so that the module a call is about is not activated behind its back.    *)
(* On this rest what exit leaves to kill, what conflicts exclude, and what *)
(* a start makes of the choices of the last run.                           *)
(***************************************************************************)
EXTENDS ModulesManager, FiniteSetTheorems, SequenceTheorems, TLAPS

Entry == [usage : Int, ghost : BOOLEAN]

DependencyOK(frame) ==
    /\ frame.module \notin Active
    /\ Range(frame.left) \subseteq Range(DependsOf(frame.module))
    /\ Range(DependsOf(frame.module)) \subseteq Active \cup Range(frame.left)

\* The calls of activateModule under way.
CallsOK ==
    /\ \A i \in 1..Len(stack) : DependencyOK(stack[i])
    /\ \A i, j \in 1..Len(stack) : i < j => Rank[stack[j].module] < Rank[stack[i].module]

\* What each phase leaves of the others.
PhaseOK ==
    /\ phase \in {"off", "running", "unloading", "killing"} => stack = <<>>
    /\ phase = "off" => Active = {} /\ dialogs = 0
    /\ phase \in {"unloading", "killing"} => todo \subseteq Active
    /\ phase # "killing" /\ dialogs > 0 => DialogModule \in Active

IInv == TypeOK /\ UsageCountsUsers /\ DependenciesActive /\ CallsOK /\ PhaseOK

-----------------------------------------------------------------------------
(* Dependencies and tables.                                                *)

\* The dependencies of a module are modules of a lower rank.
LEMMA Dependencies ==
    ASSUME NEW m \in Module
    PROVE  /\ DependsOf(m) \in Seq(Module)
           /\ Range(DependsOf(m)) \subseteq Module
           /\ \A d \in Range(DependsOf(m)) : Rank[d] < Rank[m] /\ d # m
<1>1. DependsOf(m) \in Seq(Module)
    BY EmptySeq, ModulesAssumption DEF DependsOf, ModulesAssumption
<1>2. Range(DependsOf(m)) \subseteq Module
    BY <1>1, RangeOfSeq
<1>3. ASSUME NEW d \in Range(DependsOf(m)) PROVE Rank[d] < Rank[m] /\ d # m
    <2>1. CASE m \in Available
        BY <2>1, <1>2, ModulesAssumption DEF DependsOf, ModulesAssumption
    <2>2. CASE m \notin Available
        BY <2>2 DEF DependsOf, Range
    <2> QED BY <2>1, <2>2
<1> QED BY <1>1, <1>2, <1>3

\* Counting n more or fewer users of the active modules in S.
LEMMA Usage ==
    ASSUME modules \in [Active -> Entry], NEW S \in SUBSET Active, NEW n \in Int
    PROVE  /\ AddUsage(modules, S, n) \in [Active -> Entry]
           /\ \A k \in Active :
                /\ AddUsage(modules, S, n)[k].ghost = modules[k].ghost
                /\ AddUsage(modules, S, n)[k].usage = modules[k].usage + (IF k \in S THEN n ELSE 0)
<1>1. ASSUME NEW k \in Active
      PROVE  /\ [modules[k] EXCEPT !.usage = @ + n] \in Entry
             /\ [modules[k] EXCEPT !.usage = @ + n].usage = modules[k].usage + n
             /\ [modules[k] EXCEPT !.usage = @ + n].ghost = modules[k].ghost
             /\ modules[k] \in Entry /\ modules[k].usage \in Int
    BY DEF Entry
<1>2. AddUsage(modules, S, n) =
        [k \in Active |-> IF k \in S THEN [modules[k] EXCEPT !.usage = @ + n] ELSE modules[k]]
    <2>1. DOMAIN modules = Active /\ Active \cup S = Active
        OBVIOUS
    <2> QED BY <2>1 DEF AddUsage
<1>3. AddUsage(modules, S, n) \in [Active -> Entry]
    BY <1>1, <1>2
<1>4. ASSUME NEW k \in Active
      PROVE  /\ AddUsage(modules, S, n)[k].ghost = modules[k].ghost
             /\ AddUsage(modules, S, n)[k].usage = modules[k].usage + (IF k \in S THEN n ELSE 0)
    <2>1. AddUsage(modules, S, n)[k] =
            IF k \in S THEN [modules[k] EXCEPT !.usage = @ + n] ELSE modules[k]
        BY <1>2
    <2> QED BY <2>1, <1>1
<1> QED BY <1>3, <1>4

-----------------------------------------------------------------------------
(* One module more, or one less.                                           *)

Table == modules \in [Active -> Entry] /\ Active \subseteq Module /\ Ghosts = {}

LEMMA TableOfTypeOK == TypeOK /\ phase # "killing" => Table
BY DEF TypeOK, Table, Entry

\* The set of users of a module is finite.
LEMMA UsersFinite ==
    ASSUME Active \subseteq Module, NEW k
    PROVE  IsFiniteSet(Users(k)) /\ Cardinality(Users(k)) \in Nat
<1>1. Users(k) \in SUBSET Module
    BY DEF Users
<1>2. IsFiniteSet(Module)
    BY ModulesAssumption DEF ModulesAssumption
<1>3. IsFiniteSet(Users(k))
    BY <1>1, <1>2, FS_Subset
<1> QED BY <1>3, FS_CardinalityType

\* What is installed does not change, so dependencies do not.
LEMMA SameDependencies ==
    ASSUME installed' = installed
    PROVE  \A k : DependsOf(k)' = DependsOf(k)
BY DEF DependsOf, Available

\* activateModule at its end keeps the counters right and dependencies active.
LEMMA InsertModule ==
    ASSUME Table, UsageCountsUsers, DependenciesActive, phase # "killing",
           NEW m \in Module, m \notin Active, Range(DependsOf(m)) \subseteq Active,
           m = DialogModule => dialogs = 0, dialogs \in Nat,
           modules' = Inserted(m), installed' = installed, dialogs' = dialogs
    PROVE  /\ Active' = Active \cup {m} /\ Table'
           /\ UsageCountsUsers' /\ DependenciesActive'
<1> DEFINE D == Range(DependsOf(m))
           table == AddUsage(modules, D, 1)
<1>1. /\ table \in [Active -> Entry]
      /\ \A k \in Active :
            /\ table[k].ghost = modules[k].ghost
            /\ table[k].usage = modules[k].usage + (IF k \in D THEN 1 ELSE 0)
    <2>1. D \in SUBSET Active /\ modules \in [Active -> Entry] /\ 1 \in Int
        BY DEF Table
    <2> HIDE DEF D
    <2> QED BY <2>1, Usage
<1>3. modules' = [k \in Active \cup {m} |->
                    IF k = m THEN [usage |-> 0, ghost |-> FALSE] ELSE table[k]]
    <2> HIDE DEF table
    <2>1. DOMAIN table = Active
        BY <1>1
    <2> QED BY <2>1 DEF Inserted, table
<1> HIDE DEF table
<1>4. Active' = Active \cup {m}
    BY <1>3 DEF Active
<1>5. Table'
    <2>1. modules' \in [Active' -> Entry]
        BY <1>1, <1>3, <1>4 DEF Entry
    <2>2. \A k \in Active' : ~(modules'[k].ghost)
        <3>1. \A k \in Active : ~(modules[k].ghost)
            BY DEF Table, Ghosts
        <3>2. \A k \in Active : k # m => modules'[k] = table[k]
            BY <1>3, <1>4
        <3> QED BY <1>1, <1>3, <1>4, <3>1, <3>2
    <2>3. Ghosts' = {}
        BY <2>2 DEF Ghosts
    <2> QED BY <2>1, <2>3, <1>4 DEF Table
<1>6. \A k : DependsOf(k)' = DependsOf(k)
    BY SameDependencies
<1>7. ASSUME NEW n \in Active' PROVE Range(DependsOf(n)) \subseteq Active'
    BY <1>4 DEF DependenciesActive
<1>8. DependenciesActive'
    BY <1>6, <1>7 DEF DependenciesActive
<1>9. ASSUME NEW k \in Active
      PROVE  modules'[k].usage = Cardinality(Users(k)')
                                    + (IF k = DialogModule THEN dialogs ELSE 0)
    <2>1. modules'[k].usage = modules[k].usage + (IF k \in D THEN 1 ELSE 0)
        BY <1>1, <1>3
    <2>2. modules[k].usage = Cardinality(Users(k)) + (IF k = DialogModule THEN dialogs ELSE 0)
        BY DEF UsageCountsUsers
    <2>3. Users(k)' = {n \in Active \cup {m} : k \in Range(DependsOf(n))}
        BY <1>4, <1>6 DEF Users
    <2>4. m \notin Users(k)
        BY DEF Users
    <2>5. IsFiniteSet(Users(k)) /\ Cardinality(Users(k)) \in Nat
        BY UsersFinite DEF Table
    <2>6. CASE k \in D
        <3>1. Users(k)' = Users(k) \cup {m}
            BY <2>3, <2>6 DEF Users
        <3>2. Cardinality(Users(k)') = Cardinality(Users(k)) + 1
            BY <3>1, <2>4, <2>5, FS_AddElement
        <3> QED BY <2>1, <2>2, <2>5, <2>6, <3>2
    <2>7. CASE k \notin D
        <3>1. Users(k)' = Users(k)
            BY <2>3, <2>7 DEF Users
        <3> QED BY <2>1, <2>2, <2>5, <2>7, <3>1
    <2> QED BY <2>6, <2>7
<1>10. modules'[m].usage = Cardinality(Users(m)') + (IF m = DialogModule THEN dialogs ELSE 0)
    <2>1. m \notin D
        BY Dependencies
    <2>2. Users(m)' = {}
        BY <1>4, <1>6, <2>1 DEF Users, DependenciesActive
    <2>3. Cardinality(Users(m)') = 0
        BY <2>2, FS_EmptySet
    <2>4. modules'[m].usage = 0
        BY <1>3
    <2> QED BY <2>3, <2>4
<1>11. UsageCountsUsers'
    BY <1>4, <1>9, <1>10 DEF UsageCountsUsers
<1> QED BY <1>4, <1>5, <1>8, <1>11

\* deactivateModule of an unused module does so, too.
LEMMA RemoveModule ==
    ASSUME Table, UsageCountsUsers, DependenciesActive, phase # "killing",
           NEW m \in Active, ~(modules[m].usage > 0), dialogs \in Nat,
           modules' = Removed(m), installed' = installed, dialogs' = dialogs
    PROVE  /\ Active' = Active \ {m} /\ Table'
           /\ UsageCountsUsers' /\ DependenciesActive'
           /\ m = DialogModule => dialogs = 0
<1> DEFINE D == Range(DependsOf(m))
           table == AddUsage(modules, D, -1)
<1>0. D \subseteq Active /\ m \in Module
    BY DEF DependenciesActive, Table
<1>1. /\ table \in [Active -> Entry]
      /\ \A k \in Active :
            /\ table[k].ghost = modules[k].ghost
            /\ table[k].usage = modules[k].usage + (IF k \in D THEN -1 ELSE 0)
    <2>1. D \in SUBSET Active /\ modules \in [Active -> Entry] /\ -1 \in Int
        BY <1>0 DEF Table
    <2> HIDE DEF D
    <2> QED BY <2>1, Usage
<1>3. modules' = [k \in Active \ {m} |-> table[k]]
    <2> HIDE DEF table
    <2>1. DOMAIN table = Active
        BY <1>1
    <2> QED BY <2>1 DEF Removed, table
<1> HIDE DEF table
<1>4. Active' = Active \ {m}
    BY <1>3 DEF Active
<1>5. Table'
    <2>1. modules' \in [Active' -> Entry]
        BY <1>1, <1>3, <1>4
    <2>2. \A k \in Active' : ~(modules'[k].ghost)
        <3>1. \A k \in Active : ~(modules[k].ghost)
            BY DEF Table, Ghosts
        <3>2. \A k \in Active : k # m => modules'[k] = table[k]
            BY <1>3, <1>4
        <3> QED BY <1>1, <1>3, <1>4, <3>1, <3>2
    <2>3. Ghosts' = {}
        BY <2>2 DEF Ghosts
    <2> QED BY <2>1, <2>3, <1>4 DEF Table
<1>6. \A k : DependsOf(k)' = DependsOf(k)
    BY SameDependencies
<1>7. Users(m) = {} /\ (m = DialogModule => dialogs = 0)
    <2>1. modules[m].usage = Cardinality(Users(m)) + (IF m = DialogModule THEN dialogs ELSE 0)
        BY DEF UsageCountsUsers
    <2>2. IsFiniteSet(Users(m)) /\ Cardinality(Users(m)) \in Nat
        BY UsersFinite DEF Table
    <2>3. Cardinality(Users(m)) = 0 /\ (m = DialogModule => dialogs = 0)
        BY <2>1, <2>2
    <2> QED BY <2>2, <2>3, FS_EmptySet
<1>8. DependenciesActive'
    <2>1. ASSUME NEW n \in Active' PROVE Range(DependsOf(n)) \subseteq Active'
        BY <1>4, <1>7 DEF DependenciesActive, Users
    <2> QED BY <1>6, <2>1 DEF DependenciesActive
<1>9. ASSUME NEW k \in Active'
      PROVE  modules'[k].usage = Cardinality(Users(k)')
                                    + (IF k = DialogModule THEN dialogs ELSE 0)
    <2>0. k \in Active /\ k # m
        BY <1>4
    <2>1. modules'[k].usage = modules[k].usage + (IF k \in D THEN -1 ELSE 0)
        BY <1>1, <1>3, <2>0
    <2>2. modules[k].usage = Cardinality(Users(k)) + (IF k = DialogModule THEN dialogs ELSE 0)
        BY <2>0 DEF UsageCountsUsers
    <2>3. Users(k)' = {n \in Active \ {m} : k \in Range(DependsOf(n))}
        BY <1>4, <1>6 DEF Users
    <2>5. IsFiniteSet(Users(k)) /\ Cardinality(Users(k)) \in Nat
        BY UsersFinite DEF Table
    <2>6. Users(k)' = Users(k) \ {m}
        BY <2>3 DEF Users
    <2>7. Cardinality(Users(k)') = Cardinality(Users(k)) + (IF k \in D THEN -1 ELSE 0)
        <3>1. m \in Users(k) <=> k \in D
            BY DEF Users
        <3>2. Cardinality(Users(k)') =
                IF m \in Users(k) THEN Cardinality(Users(k)) - 1 ELSE Cardinality(Users(k))
            BY <2>5, <2>6, FS_RemoveElement
        <3> QED BY <3>1, <3>2, <2>5
    <2> QED BY <2>1, <2>2, <2>5, <2>7
<1>10. UsageCountsUsers'
    BY <1>9 DEF UsageCountsUsers
<1> QED BY <1>4, <1>5, <1>7, <1>8, <1>10

-----------------------------------------------------------------------------
(* The counters of dialogs, and steps that leave the table alone.          *)

\* A dialog that opens or closes changes the counter of its module.
LEMMA DialogModuleUsage ==
    ASSUME Table, UsageCountsUsers, DependenciesActive, phase # "killing",
           DialogModule \in Active, NEW n \in Int, dialogs \in Nat, dialogs' = dialogs + n,
           modules' = AddUsage(modules, {DialogModule}, n), installed' = installed
    PROVE  /\ Active' = Active /\ Table'
           /\ UsageCountsUsers' /\ DependenciesActive'
<1>1. /\ modules' \in [Active -> Entry]
      /\ \A k \in Active :
            /\ modules'[k].ghost = modules[k].ghost
            /\ modules'[k].usage = modules[k].usage + (IF k \in {DialogModule} THEN n ELSE 0)
    <2>1. modules \in [Active -> Entry] /\ {DialogModule} \in SUBSET Active
        BY DEF Table
    <2> DEFINE S == {DialogModule}
    <2> HIDE DEF S
    <2>2. S \in SUBSET Active
        BY <2>1 DEF S
    <2>3. /\ AddUsage(modules, S, n) \in [Active -> Entry]
          /\ \A k \in Active :
                /\ AddUsage(modules, S, n)[k].ghost = modules[k].ghost
                /\ AddUsage(modules, S, n)[k].usage = modules[k].usage + (IF k \in S THEN n ELSE 0)
        BY <2>1, <2>2, Usage
    <2>4. modules' = AddUsage(modules, S, n)
        BY DEF S
    <2> QED BY <2>3, <2>4 DEF S
<1>2. Active' = Active
    BY <1>1 DEF Active
<1>3. \A k : DependsOf(k)' = DependsOf(k)
    BY SameDependencies
<1>4. Table'
    BY <1>1, <1>2 DEF Table, Ghosts
<1>5. DependenciesActive'
    BY <1>2, <1>3 DEF DependenciesActive
<1>6. ASSUME NEW k \in Active
      PROVE  modules'[k].usage = Cardinality(Users(k)')
                                    + (IF k = DialogModule THEN dialogs' ELSE 0)
    <2>1. Users(k)' = Users(k)
        BY <1>2, <1>3 DEF Users
    <2>2. Cardinality(Users(k)) \in Nat
        BY UsersFinite DEF Table
    <2>3. modules[k].usage = Cardinality(Users(k)) + (IF k = DialogModule THEN dialogs ELSE 0)
        BY DEF UsageCountsUsers
    <2>4. modules'[k].usage = modules[k].usage + (IF k = DialogModule THEN n ELSE 0)
        BY <1>1
    <2> QED BY <2>1, <2>2, <2>3, <2>4
<1>7. UsageCountsUsers'
    BY <1>2, <1>6 DEF UsageCountsUsers
<1> QED BY <1>2, <1>4, <1>5, <1>7

\* A step that leaves the table and the dialogs alone, and does not end killing.
LEMMA SameTable ==
    ASSUME UsageCountsUsers, DependenciesActive, inUse' = inUse, installed' = installed,
           phase' # "killing" => phase # "killing"
    PROVE  Active' = Active /\ Ghosts' = Ghosts /\ UsageCountsUsers' /\ DependenciesActive'
<1>1. \A k : DependsOf(k)' = DependsOf(k)
    BY SameDependencies
<1>2. Active' = Active /\ Ghosts' = Ghosts /\ modules' = modules /\ dialogs' = dialogs
    BY DEF inUse, Active, Ghosts
<1>3. \A k : Users(k)' = Users(k)
    BY <1>1, <1>2 DEF Users
<1> QED BY <1>1, <1>2, <1>3 DEF UsageCountsUsers, DependenciesActive

-----------------------------------------------------------------------------
(* The stack of calls.                                                     *)

\* The innermost call.
LEMMA TopFrame ==
    ASSUME stack \in Seq(Frame), stack # <<>>
    PROVE  /\ Len(stack) \in Nat \ {0} /\ Top = stack[Len(stack)] /\ Top \in Frame
           /\ \A f \in Range(stack) : f \in Frame
           /\ Front(stack) \in Seq(Frame) /\ Len(Front(stack)) = Len(stack) - 1
           /\ \A i \in 1..(Len(stack) - 1) : Front(stack)[i] = stack[i]
<1>1. Len(stack) \in Nat \ {0}
    BY EmptySeq, LenProperties
<1>2. Top = stack[Len(stack)] /\ Top \in Frame
    BY <1>1, ElementOfSeq DEF Top, Last
<1>3. \A f \in Range(stack) : f \in Frame
    BY RangeOfSeq
<1>4. /\ Front(stack) \in Seq(Frame) /\ Len(Front(stack)) = Len(stack) - 1
      /\ \A i \in 1..(Len(stack) - 1) : Front(stack)[i] = stack[i]
    <2> DEFINE n == Len(stack) - 1
    <2>1. n \in Nat /\ n \in Int /\ 1 \in Int /\ \A i \in 1..n : stack[i] \in Frame
        BY <1>1, ElementOfSeq
    <2> HIDE DEF n
    <2>2. /\ SubSeq(stack, 1, n) \in Seq(Frame)
          /\ Len(SubSeq(stack, 1, n)) = IF 1 <= n THEN n - 1 + 1 ELSE 0
          /\ \A i \in 1..(n - 1 + 1) : SubSeq(stack, 1, n)[i] = stack[1 + i - 1]
        BY <2>1, SubSeqProperties
    <2>3. Front(stack) = SubSeq(stack, 1, n)
        BY DEF Front, n
    <2>4. Len(Front(stack)) = n
        <3>1. (IF 1 <= n THEN n - 1 + 1 ELSE 0) = n
            BY <2>1
        <3> QED BY <2>2, <2>3, <3>1, Zenon
    <2>5. ASSUME NEW i \in 1..n PROVE Front(stack)[i] = stack[i]
        <3>1. i \in 1..(n - 1 + 1) /\ 1 + i - 1 = i
            BY <2>1
        <3> QED BY <2>2, <2>3, <3>1
    <2> QED BY <2>2, <2>3, <2>4, <2>5 DEF n
<1> QED BY <1>1, <1>2, <1>3, <1>4

\* Without calls there is nothing to say of them.
LEMMA NoCalls == stack' = <<>> => CallsOK'
<1>1. ASSUME stack' = <<>> PROVE CallsOK'
    <2>1. 1..Len(stack') = {}
        BY <1>1
    <2> QED BY <2>1 DEF CallsOK
<1> QED BY <1>1

\* Calls that go on while the table is left alone.
LEMMA SameCalls ==
    ASSUME CallsOK, stack' = stack, Active' = Active, installed' = installed
    PROVE  CallsOK'
<1>1. \A k : DependsOf(k)' = DependsOf(k)
    BY SameDependencies
<1> QED BY <1>1 DEF CallsOK, DependencyOK

-----------------------------------------------------------------------------
(* What activateModule does to the rest of the state.                      *)

\* A loop that activates modules is under way.
Busy == phase \in {"protocols", "static", "dynamic", "replaced", "loading"}

LEMMA PhaseNames ==
    /\ ToSet(StartupPhases) = {"protocols", "static", "dynamic", "replaced"}
    /\ Phases = {"protocols", "static", "dynamic", "replaced",
                 "off", "running", "loading", "unloading", "killing"}
<1>1. ToSet(StartupPhases) = {StartupPhases[i] : i \in 1..4}
    BY DEF ToSet, StartupPhases
<1>2. 1..4 = {1, 2, 3, 4}
    OBVIOUS
<1>3. ToSet(StartupPhases) = {"protocols", "static", "dynamic", "replaced"}
    BY <1>1, <1>2 DEF StartupPhases
<1> QED BY <1>3 DEF Phases

\* There are calls only in such a loop.
LEMMA CallsAreBusy == TypeOK /\ PhaseOK /\ stack # <<>> => Busy
BY PhaseNames DEF TypeOK, PhaseOK, Busy

LEMMA InstalledModules ==
    TypeOK => /\ installed \subseteq Module /\ Available \subseteq Module
              /\ StaticModules \subseteq Module /\ Protocols \subseteq Module
              /\ EnsuredModules \subseteq Module /\ Ghosts \subseteq Active
BY ModulesAssumption DEF TypeOK, ModulesAssumption, Available, Ghosts

\* What is saved are modules.
LEMMA SavedType ==
    ASSUME TypeOK, NEW table, DOMAIN table \subseteq Module
    PROVE  Saved(table) \in [loaded : SUBSET Module, unloaded : SUBSET Module]
BY InstalledModules DEF Saved

\* The end of the outermost call.
LEMMA ReturnedType ==
    ASSUME TypeOK, Busy, NEW ok \in BOOLEAN, NEW table, DOMAIN table \subseteq Module,
           Returned(ok, table)
    PROVE  /\ stack' = <<>> /\ saveList' \in BOOLEAN
           /\ phase' \in {"protocols", "static", "dynamic", "replaced", "running"}
           /\ config' \in [loaded : SUBSET Module, unloaded : SUBSET Module]
<1>1. Saved(table) \in [loaded : SUBSET Module, unloaded : SUBSET Module]
    BY SavedType
<1> QED BY <1>1 DEF Returned, Busy, TypeOK

\* A call that fails, and with it all the others.
LEMMA FailsKeeps ==
    ASSUME IInv, Busy, Fails, UNCHANGED <<fixed, inUse, deactivated>>,
           everLoaded' \subseteq EnsuredModules, todo' \subseteq Module, failed' \subseteq Module
    PROVE  IInv'
<1>1. /\ stack' = <<>> /\ saveList' \in BOOLEAN
      /\ phase' \in {"protocols", "static", "dynamic", "replaced", "running"}
      /\ config' \in [loaded : SUBSET Module, unloaded : SUBSET Module]
    <2>1. DOMAIN modules \subseteq Module
        BY DEF IInv, TypeOK, Active
    <2> QED BY <2>1, ReturnedType DEF Fails, IInv
<1>2. Active' = Active /\ Ghosts' = Ghosts /\ UsageCountsUsers' /\ DependenciesActive'
    BY <1>1, SameTable DEF IInv, fixed, Busy
<1>3. CallsOK'
    BY <1>1, NoCalls
<1>4. PhaseOK'
    BY <1>1, <1>2 DEF IInv, PhaseOK, inUse, Busy
<1>5. TypeOK'
    <2>1. stack' \in Seq(Frame)
        BY <1>1, EmptySeq
    <2>2. phase' \in Phases
        BY <1>1, PhaseNames
    <2> QED BY <1>1, <1>2, <2>1, <2>2 DEF IInv, TypeOK, fixed, inUse, Busy
<1> QED BY <1>2, <1>3, <1>4, <1>5 DEF IInv

\* A call of activateModule, made by a loop or for a dependency.
LEMMA CallKeeps ==
    ASSUME IInv, Busy, NEW m \in Module, Call(m),
           stack # <<>> => Rank[m] < Rank[Top.module],
           UNCHANGED <<fixed, inUse, everLoaded, deactivated, failed>>, todo' \subseteq Module
    PROVE  IInv'
<1>1. CASE m \in Active \/ ConflictsWithLoaded(m)
    <2>1. Fails
        BY <1>1 DEF Call
    <2>2. everLoaded' \subseteq EnsuredModules /\ failed' \subseteq Module
        BY DEF IInv, TypeOK
    <2> QED BY <2>1, <2>2, FailsKeeps
<1>2. CASE ~(m \in Active \/ ConflictsWithLoaded(m))
    <2> DEFINE frame == [module |-> m, left |-> DependsOf(m)]
    <2>1. m \notin Active /\ stack' = Append(stack, frame) /\ UNCHANGED <<saveList, phase, config>>
        BY <1>2 DEF Call
    <2>2. frame \in Frame /\ stack \in Seq(Frame)
        BY Dependencies DEF Frame, IInv, TypeOK
    <2>3. Active' = Active /\ Ghosts' = Ghosts /\ UsageCountsUsers' /\ DependenciesActive'
        BY <2>1, SameTable DEF IInv, fixed
    <2>4. \A f : DependencyOK(f)' <=> DependencyOK(f)
        <3>1. \A k : DependsOf(k)' = DependsOf(k)
            BY SameDependencies DEF fixed
        <3> QED BY <2>3, <3>1 DEF DependencyOK
    <2>5. DependencyOK(frame) /\ frame.module = m
        BY <2>1 DEF DependencyOK
    <2> HIDE DEF frame
    <2>6. /\ stack' \in Seq(Frame) /\ Len(stack) \in Nat /\ Len(stack') = Len(stack) + 1
          /\ \A i \in 1..Len(stack) : stack'[i] = stack[i] /\ stack[i] \in Frame
          /\ stack'[Len(stack) + 1] = frame
        BY <2>1, <2>2, AppendProperties, LenProperties, ElementOfSeq
    <2>7. ASSUME NEW i \in 1..Len(stack') PROVE DependencyOK(stack'[i])
        <3>1. CASE i = Len(stack) + 1
            BY <2>5, <2>6, <3>1
        <3>2. CASE i # Len(stack) + 1
            BY <2>6, <3>2 DEF IInv, CallsOK
        <3> QED BY <3>1, <3>2
    <2>8. ASSUME NEW i \in 1..Len(stack) PROVE Rank[m] < Rank[stack[i].module]
        <3>1. /\ stack # <<>> /\ Len(stack) \in 1..Len(stack)
              /\ Top = stack[Len(stack)] /\ Top \in Frame
            <4>1. stack # <<>>
                BY <2>6, EmptySeq
            <4> QED BY <2>2, <4>1, TopFrame
        <3>2. /\ Rank[m] \in Nat /\ Rank[Top.module] \in Nat /\ Rank[stack[i].module] \in Nat
              /\ Rank[m] < Rank[Top.module]
            BY <2>6, <3>1, ModulesAssumption DEF ModulesAssumption, Frame
        <3>3. CASE i = Len(stack)
            BY <3>1, <3>2, <3>3
        <3>4. CASE i # Len(stack)
            <4>1. i < Len(stack)
                BY <2>6, <3>4
            <4>2. Rank[Top.module] < Rank[stack[i].module]
                BY <3>1, <4>1 DEF IInv, CallsOK
            <4> QED BY <3>2, <4>2
        <3> QED BY <3>3, <3>4
    <2>9. ASSUME NEW i \in 1..Len(stack'), NEW j \in 1..Len(stack'), i < j
          PROVE  Rank[stack'[j].module] < Rank[stack'[i].module]
        <3>1. CASE j = Len(stack) + 1
            BY <2>5, <2>6, <2>8, <2>9, <3>1
        <3>2. CASE j # Len(stack) + 1
            BY <2>6, <2>9, <3>2 DEF IInv, CallsOK
        <3> QED BY <3>1, <3>2
    <2>10. CallsOK'
        BY <2>4, <2>7, <2>9 DEF CallsOK
    <2>11. PhaseOK'
        BY <2>1, <2>3 DEF IInv, PhaseOK, inUse, Busy
    <2>12. TypeOK'
        BY <2>1, <2>3, <2>6 DEF IInv, TypeOK, fixed, inUse
    <2> QED BY <2>3, <2>10, <2>11, <2>12 DEF IInv
<1> QED BY <1>1, <1>2

-----------------------------------------------------------------------------
(* The steps of activateModule.                                            *)

\* What is known of the innermost call.
LEMMA TopCall ==
    ASSUME IInv, stack # <<>>
    PROVE  /\ Busy /\ Top.module \in Module /\ Top.module \notin Active
           /\ Top.left \in Seq(Module)
           /\ Range(Top.left) \subseteq Range(DependsOf(Top.module))
           /\ Range(DependsOf(Top.module)) \subseteq Active \cup Range(Top.left)
           /\ {f.module : f \in Range(stack)} \subseteq Module
<1>1. stack \in Seq(Frame)
    BY DEF IInv, TypeOK
<1>2. /\ Len(stack) \in Nat \ {0} /\ Top = stack[Len(stack)] /\ Top \in Frame
      /\ \A f \in Range(stack) : f \in Frame
    BY <1>1, TopFrame
<1>3. DependencyOK(Top)
    BY <1>2 DEF IInv, CallsOK
<1>4. Busy
    BY CallsAreBusy DEF IInv
<1> QED BY <1>2, <1>3, <1>4 DEF DependencyOK, Frame

\* The dependency that satisfyModuleDependencies looks at.
LEMMA NextDependency ==
    ASSUME IInv, stack # <<>>, Top.left # <<>>
    PROVE  /\ Head(Top.left) \in Module /\ Head(Top.left) \in Range(DependsOf(Top.module))
           /\ Tail(Top.left) \in Seq(Module)
<1> DEFINE s == Top.left
<1>1. s \in Seq(Module) /\ s # <<>> /\ Range(s) \subseteq Range(DependsOf(Top.module))
    BY TopCall
<1> HIDE DEF s
<1>2. /\ Head(s) \in Module /\ Head(s) = s[1] /\ 1 \in 1..Len(s) /\ Tail(s) \in Seq(Module)
    BY <1>1, HeadTailProperties, LenProperties, EmptySeq
<1>3. Head(s) \in Range(s)
    BY <1>1, <1>2, RangeEquality
<1> QED BY <1>1, <1>2, <1>3 DEF s

LEMMA SatisfyDependencyKeeps == ASSUME IInv, SatisfyDependency PROVE IInv'
<1> DEFINE d == Head(Top.left)
<1>0. stack # <<>> /\ Top.left # <<>> /\ UNCHANGED <<fixed, inUse, everLoaded, todo, deactivated>>
    BY DEF SatisfyDependency
<1>1. /\ Busy /\ Top.module \in Module /\ Top.left \in Seq(Module)
      /\ Range(Top.left) \subseteq Range(DependsOf(Top.module))
      /\ {f.module : f \in Range(stack)} \subseteq Module
    BY <1>0, TopCall
<1>2. /\ d \in Module /\ d \in Range(Top.left)
      /\ Tail(Top.left) \in Seq(Module)
      /\ Range(Top.left) \subseteq {d} \cup Range(Tail(Top.left))
      /\ Range(Tail(Top.left)) \subseteq Range(Top.left)
    <2> DEFINE s == Top.left
    <2>0. s \in Seq(Module) /\ s # <<>>
        BY <1>0, <1>1
    <2> HIDE DEF s
    <2>1. /\ Head(s) \in Module /\ Tail(s) \in Seq(Module) /\ Len(Tail(s)) = Len(s) - 1
          /\ \A i \in 1..Len(Tail(s)) : Tail(s)[i] = s[i + 1]
        BY <2>0, HeadTailProperties
    <2>2. Len(s) \in Nat \ {0} /\ Head(s) = s[1]
        BY <2>0, LenProperties, EmptySeq
    <2>3. /\ Range(s) = {s[i] : i \in 1..Len(s)}
          /\ Range(Tail(s)) = {Tail(s)[i] : i \in 1..Len(Tail(s))}
        BY <2>0, <2>1, RangeEquality
    <2>4. Head(s) \in Range(s)
        BY <2>2, <2>3
    <2>5. Range(Tail(s)) \subseteq Range(s)
        BY <2>1, <2>2, <2>3
    <2>6. ASSUME NEW i \in 1..Len(s) PROVE s[i] \in {Head(s)} \cup Range(Tail(s))
        <3>1. CASE i = 1
            BY <2>2, <3>1
        <3>2. CASE i # 1
            <4>1. i - 1 \in 1..Len(Tail(s)) /\ (i - 1) + 1 = i
                BY <2>1, <2>2, <3>2
            <4>2. Tail(s)[i - 1] = s[i]
                BY <2>1, <4>1
            <4> QED BY <2>3, <4>1, <4>2
        <3> QED BY <3>1, <3>2
    <2> QED BY <2>1, <2>3, <2>4, <2>5, <2>6 DEF s
<1>3. CASE d \in Active
    <2>1. /\ stack' = [stack EXCEPT ![Len(stack)].left = Tail(@)]
          /\ UNCHANGED <<saveList, phase, config, failed>>
        BY <1>0, <1>3 DEF SatisfyDependency
    <2>2. stack \in Seq(Frame)
        BY DEF IInv, TypeOK
    <2>3. /\ Len(stack) \in Nat \ {0} /\ Top = stack[Len(stack)] /\ Top \in Frame
        BY <1>0, <2>2, TopFrame
    <2> DEFINE frame == [Top EXCEPT !.left = Tail(@)]
    <2>4. frame \in Frame /\ frame.module = Top.module /\ frame.left = Tail(Top.left)
        BY <1>2, <2>3 DEF Frame
    <2>5. stack' = [stack EXCEPT ![Len(stack)] = frame]
        BY <2>1, <2>3
    <2> HIDE DEF frame
    <2>6. /\ stack' \in Seq(Frame) /\ Len(stack') = Len(stack)
          /\ \A i \in 1..Len(stack) : stack'[i] = IF i = Len(stack) THEN frame ELSE stack[i]
        BY <2>2, <2>3, <2>4, <2>5, ExceptSeq
    <2>7. Active' = Active /\ Ghosts' = Ghosts /\ UsageCountsUsers' /\ DependenciesActive'
        BY <1>0, <2>1, SameTable DEF IInv, fixed
    <2>8. \A f : DependencyOK(f)' <=> DependencyOK(f)
        <3>1. \A k : DependsOf(k)' = DependsOf(k)
            BY <1>0, SameDependencies DEF fixed
        <3> QED BY <2>7, <3>1 DEF DependencyOK
    <2>9. DependencyOK(frame)
        BY <1>0, <1>1, <1>2, <1>3, <2>4, TopCall DEF DependencyOK
    <2>10. \A i \in 1..Len(stack) : stack'[i].module = stack[i].module /\ DependencyOK(stack'[i])
        BY <2>3, <2>4, <2>6, <2>9 DEF IInv, CallsOK
    <2>11. CallsOK'
        BY <2>6, <2>8, <2>10 DEF IInv, CallsOK
    <2>12. PhaseOK'
        BY <1>0, <1>1, <2>1, <2>7 DEF IInv, PhaseOK, inUse, Busy
    <2>13. TypeOK'
        BY <1>0, <2>1, <2>6, <2>7 DEF IInv, TypeOK, fixed, inUse
    <2> QED BY <2>7, <2>11, <2>12, <2>13 DEF IInv
<1>4. CASE d \notin Active /\ d \in Available
    <2>1. Call(d) /\ failed' = failed
        BY <1>0, <1>4 DEF SatisfyDependency
    <2>2. Rank[d] < Rank[Top.module]
        BY <1>1, <1>2, Dependencies
    <2>3. todo' \subseteq Module
        BY <1>0 DEF IInv, TypeOK
    <2> QED BY <1>0, <1>1, <1>2, <2>1, <2>2, <2>3, CallKeeps
<1>5. CASE d \notin Active /\ d \notin Available
    <2>1. Fails /\ failed' = failed \cup {f.module : f \in Range(stack)}
        BY <1>0, <1>5 DEF SatisfyDependency
    <2>2. everLoaded' \subseteq EnsuredModules /\ todo' \subseteq Module /\ failed' \subseteq Module
        BY <1>0, <1>1, <2>1 DEF IInv, TypeOK
    <2> QED BY <1>0, <1>1, <2>1, <2>2, FailsKeeps
<1> QED BY <1>3, <1>4, <1>5

LEMMA FailuresKeep == ASSUME IInv, LibraryFails \/ InitFails PROVE IInv'
<1>1. stack # <<>> /\ Fails /\ UNCHANGED <<fixed, inUse, todo, deactivated>>
    BY DEF LibraryFails, InitFails
<1>2. Busy
    BY <1>1, TopCall
<1>3. everLoaded' \subseteq EnsuredModules /\ todo' \subseteq Module /\ failed' \subseteq Module
    BY <1>1, TopCall DEF IInv, TypeOK, LibraryFails, InitFails
<1> QED BY <1>1, <1>2, <1>3, FailsKeeps

LEMMA InitSucceedsKeeps == ASSUME IInv, InitSucceeds PROVE IInv'
<1> DEFINE m == Top.module
<1>0. /\ stack # <<>> /\ Top.left = <<>> /\ modules' = Inserted(m)
      /\ UNCHANGED <<fixed, dialogs, todo, deactivated, failed>>
      /\ everLoaded' \subseteq EnsuredModules
    BY DEF InitSucceeds, IInv, TypeOK
<1>1. /\ Busy /\ m \in Module /\ m \notin Active /\ Range(DependsOf(m)) \subseteq Active
    <2>1. Range(Top.left) = {}
        BY <1>0 DEF Range
    <2> QED BY <1>0, <2>1, TopCall
<1>2. stack \in Seq(Frame)
    BY DEF IInv, TypeOK
<1>3. /\ Active' = Active \cup {m} /\ Table'
      /\ UsageCountsUsers' /\ DependenciesActive'
    <2>1. Table /\ phase # "killing" /\ dialogs \in Nat
        BY <1>1, TableOfTypeOK, ModulesAssumption DEF IInv, TypeOK, Busy, ModulesAssumption
    <2>2. m = DialogModule => dialogs = 0
        BY <1>1, <2>1 DEF IInv, PhaseOK
    <2> HIDE DEF m
    <2> QED BY <1>0, <1>1, <2>1, <2>2, InsertModule DEF IInv, fixed
<1>4. CASE Len(stack) = 1
    <2>1. Returned(TRUE, modules')
        BY <1>4 DEF InitSucceeds
    <2>2. /\ stack' = <<>> /\ saveList' \in BOOLEAN
          /\ phase' \in {"protocols", "static", "dynamic", "replaced", "running"}
          /\ config' \in [loaded : SUBSET Module, unloaded : SUBSET Module]
        <3>1. DOMAIN modules' \subseteq Module
            BY <1>3 DEF Table, Active
        <3> QED BY <1>1, <2>1, <3>1, ReturnedType DEF IInv
    <2>3. stack' \in Seq(Frame) /\ phase' \in Phases /\ CallsOK'
        BY <2>2, EmptySeq, PhaseNames, NoCalls
    <2>4. PhaseOK'
        BY <1>0, <1>3, <2>2, <1>1 DEF IInv, PhaseOK, Busy
    <2>5. TypeOK'
        BY <1>0, <1>3, <2>2, <2>3 DEF IInv, TypeOK, Table, Entry, fixed
    <2> QED BY <1>3, <2>3, <2>4, <2>5 DEF IInv
<1>5. CASE Len(stack) # 1
    <2>1. stack' = Front(stack) /\ UNCHANGED <<saveList, phase, config>>
        BY <1>5 DEF InitSucceeds
    <2>2. /\ Len(stack) \in Nat \ {0} /\ Top = stack[Len(stack)] /\ Top \in Frame
          /\ stack' \in Seq(Frame) /\ Len(stack') = Len(stack) - 1
          /\ \A i \in 1..(Len(stack) - 1) : stack'[i] = stack[i]
        BY <1>0, <1>2, <2>1, TopFrame
    <2>3. \A k : DependsOf(k)' = DependsOf(k)
        BY <1>0, SameDependencies DEF fixed
    <2>4. ASSUME NEW i \in 1..Len(stack') PROVE DependencyOK(stack[i])'
        <3>1. i \in 1..Len(stack) /\ i < Len(stack) /\ Len(stack) \in 1..Len(stack)
            BY <2>2
        <3>2. DependencyOK(stack[i]) /\ Rank[m] < Rank[stack[i].module]
            BY <2>2, <3>1 DEF IInv, CallsOK
        <3>3. Rank[m] \in Nat
            BY <1>1, ModulesAssumption DEF ModulesAssumption
        <3>4. stack[i].module # m
            BY <3>2, <3>3
        <3>5. stack'[i] = stack[i]
            BY <2>2, <3>1
        <3> QED BY <1>3, <2>3, <3>2, <3>4, <3>5 DEF DependencyOK
    <2>5. CallsOK'
        <3>1. \A i \in 1..Len(stack') : i \in 1..Len(stack) /\ stack'[i] = stack[i]
            BY <2>2
        <3>2. \A i, j \in 1..Len(stack') :
                i < j => Rank[stack'[j].module] < Rank[stack'[i].module]
            BY <3>1 DEF IInv, CallsOK
        <3> QED BY <2>4, <3>2 DEF CallsOK
    <2>6. PhaseOK'
        BY <1>0, <1>1, <1>3, <2>1 DEF IInv, PhaseOK, Busy
    <2>7. TypeOK'
        BY <1>0, <1>3, <2>1, <2>2 DEF IInv, TypeOK, Table, Entry, fixed
    <2> QED BY <1>3, <2>5, <2>6, <2>7 DEF IInv
<1> QED BY <1>4, <1>5

-----------------------------------------------------------------------------
(* The loops of start-up, and the steps that change no entry.              *)

\* Between calls, a step that leaves the table alone keeps most of IInv.
LEMMA QuietStep ==
    ASSUME IInv, UNCHANGED <<inUse, installed, stack>>, stack = <<>>,
           phase' # "killing" => phase # "killing"
    PROVE  /\ Active' = Active /\ Ghosts' = Ghosts
           /\ UsageCountsUsers' /\ DependenciesActive' /\ CallsOK'
BY SameTable, NoCalls DEF IInv

LEMMA VisitKeeps == ASSUME IInv, NEW m \in todo, Visit(m) PROVE IInv'
<1>0. /\ stack = <<>> /\ todo' = todo \ {m} /\ m \in Module
      /\ UNCHANGED <<fixed, inUse, everLoaded, deactivated, failed>>
    BY DEF Visit, IInv, TypeOK
<1>1. Busy
    BY PhaseNames DEF Visit, Busy
<1>2. todo' \subseteq Module
    BY <1>0 DEF IInv, TypeOK
<1>3. CASE Call(m)
    BY <1>0, <1>1, <1>2, <1>3, CallKeeps
<1>4. CASE UNCHANGED <<stack, saveList, phase, config>>
    <2>1. Active' = Active /\ Ghosts' = Ghosts /\ UsageCountsUsers' /\ DependenciesActive' /\ CallsOK'
        BY <1>0, <1>4, QuietStep DEF fixed
    <2>2. PhaseOK'
        BY <1>0, <1>1, <1>4, <2>1 DEF IInv, PhaseOK, inUse, Busy
    <2>3. TypeOK'
        BY <1>0, <1>2, <1>4, <2>1 DEF IInv, TypeOK, fixed, inUse
    <2> QED BY <2>1, <2>2, <2>3 DEF IInv
<1> QED BY <1>3, <1>4 DEF Visit

LEMMA NextLoopKeeps == ASSUME IInv, NextLoop PROVE IInv'
<1>1. Active' = Active /\ Ghosts' = Ghosts /\ UsageCountsUsers' /\ DependenciesActive' /\ CallsOK'
    BY QuietStep DEF NextLoop, fixed
<1>2. phase \in Phases /\ phase # "killing" /\ phase' \in Phases /\ phase' \in {"static", "dynamic", "replaced"}
    BY PhaseNames DEF NextLoop
<1>3. todo' \subseteq Module
    BY InstalledModules DEF NextLoop, IInv, TypeOK
<1>4. PhaseOK'
    BY <1>1, <1>2 DEF NextLoop, IInv, PhaseOK, inUse
<1>5. TypeOK'
    BY <1>1, <1>2, <1>3 DEF NextLoop, IInv, TypeOK, fixed, flags, inUse
<1> QED BY <1>1, <1>4, <1>5 DEF IInv

LEMMA StartupEndsKeeps == ASSUME IInv, StartupEnds PROVE IInv'
<1>1. Active' = Active /\ Ghosts' = Ghosts /\ UsageCountsUsers' /\ DependenciesActive' /\ CallsOK'
    BY QuietStep DEF StartupEnds, fixed
<1>2. phase' \in Phases
    BY PhaseNames DEF StartupEnds
<1>3. config' \in [loaded : SUBSET Module, unloaded : SUBSET Module]
    <2>1. DOMAIN modules \subseteq Module
        BY DEF IInv, TypeOK, Active
    <2>2. Saved(modules) \in [loaded : SUBSET Module, unloaded : SUBSET Module]
        BY <2>1, SavedType DEF IInv
    <2> QED BY <2>2 DEF StartupEnds, IInv, TypeOK
<1>4. PhaseOK'
    BY <1>1 DEF StartupEnds, IInv, PhaseOK, inUse
<1>5. TypeOK'
    BY <1>1, <1>2, <1>3 DEF StartupEnds, IInv, TypeOK, fixed, inUse
<1> QED BY <1>1, <1>4, <1>5 DEF IInv

LEMMA StartKeeps == ASSUME IInv, Start PROVE IInv'
<1>0. stack = <<>>
    BY DEF Start, IInv, PhaseOK
<1>1. Active' = Active /\ Ghosts' = Ghosts /\ UsageCountsUsers' /\ DependenciesActive' /\ CallsOK'
    BY <1>0, QuietStep DEF Start
<1>2. phase' \in Phases
    BY PhaseNames DEF Start
<1>3. /\ lists' \in [loaded : SUBSET Module, unloaded : SUBSET Module]
      /\ todo' \subseteq Module /\ starts' \in 0..MaxStarts
    BY InstalledModules, ModulesAssumption DEF Start, IInv, TypeOK, ModulesAssumption
<1>4. PhaseOK'
    BY <1>1 DEF Start, IInv, PhaseOK, inUse
<1>5. TypeOK'
    BY <1>1, <1>2, <1>3 DEF Start, IInv, TypeOK, flags, inUse
<1> QED BY <1>1, <1>4, <1>5 DEF IInv

LEMMA UserLoadsKeeps == ASSUME IInv, NEW m \in Module, UserLoads(m) PROVE IInv'
<1>0. stack = <<>>
    BY DEF UserLoads, IInv, PhaseOK
<1>1. Active' = Active /\ Ghosts' = Ghosts /\ UsageCountsUsers' /\ DependenciesActive' /\ CallsOK'
    BY <1>0, QuietStep DEF UserLoads, fixed
<1>2. phase' \in Phases
    BY PhaseNames DEF UserLoads
<1>3. PhaseOK'
    BY <1>1 DEF UserLoads, IInv, PhaseOK, inUse
<1>4. TypeOK'
    BY <1>1, <1>2 DEF UserLoads, IInv, TypeOK, fixed, flags, inUse
<1> QED BY <1>1, <1>3, <1>4 DEF IInv

LEMMA QuitKeeps == ASSUME IInv, Quit PROVE IInv'
<1>0. stack = <<>>
    BY DEF Quit, IInv, PhaseOK
<1>1. Active' = Active /\ Ghosts' = Ghosts /\ UsageCountsUsers' /\ DependenciesActive' /\ CallsOK'
    BY <1>0, QuietStep DEF Quit, fixed
<1>2. phase' \in Phases
    BY PhaseNames DEF Quit
<1>3. config' \in [loaded : SUBSET Module, unloaded : SUBSET Module]
    <2>1. DOMAIN modules \subseteq Module
        BY DEF IInv, TypeOK, Active
    <2> QED BY <2>1, SavedType DEF Quit, IInv
<1>4. PhaseOK'
    BY <1>1 DEF Quit, IInv, PhaseOK, inUse
<1>5. TypeOK'
    BY <1>1, <1>2, <1>3 DEF Quit, IInv, TypeOK, fixed, inUse
<1> QED BY <1>1, <1>4, <1>5 DEF IInv

LEMMA UnloadAgainKeeps == ASSUME IInv, UnloadAgain PROVE IInv'
<1>0. stack = <<>>
    BY DEF UnloadAgain, IInv, PhaseOK
<1>1. Active' = Active /\ Ghosts' = Ghosts /\ UsageCountsUsers' /\ DependenciesActive' /\ CallsOK'
    BY <1>0, QuietStep DEF UnloadAgain, fixed
<1>2. phase' \in Phases /\ phase' \in {"unloading", "killing"}
    BY PhaseNames DEF UnloadAgain
<1>3. PhaseOK'
    BY <1>1, <1>2 DEF UnloadAgain, IInv, PhaseOK, inUse
<1>4. TypeOK'
    BY <1>1, <1>2 DEF UnloadAgain, IInv, TypeOK, fixed, inUse
<1> QED BY <1>1, <1>3, <1>4 DEF IInv

-----------------------------------------------------------------------------
(* Steps that change the table, and the end of the process.                *)

LEMMA UserUnloadsKeeps == ASSUME IInv, NEW m \in Module, UserUnloads(m) PROVE IInv'
<1>0. /\ phase = "running" /\ m \in Active /\ stack = <<>>
      /\ modules' = IF modules[m].usage > 0 THEN modules ELSE Removed(m)
      /\ UNCHANGED <<fixed, flags, phase, everLoaded, dialogs, stack, todo, failed>>
    BY DEF UserUnloads, LoadedModules, IInv, PhaseOK
<1>1. /\ Active' \subseteq Active /\ Table' /\ UsageCountsUsers' /\ DependenciesActive'
      /\ dialogs > 0 => DialogModule \in Active'
    <2>0. Table /\ dialogs \in Nat
        BY <1>0, TableOfTypeOK, ModulesAssumption DEF IInv, TypeOK, ModulesAssumption
    <2>1. CASE modules[m].usage > 0
        <3>1. inUse' = inUse
            BY <1>0, <2>1 DEF inUse
        <3>2. Active' = Active /\ Ghosts' = Ghosts /\ UsageCountsUsers' /\ DependenciesActive'
            BY <1>0, <3>1, SameTable DEF IInv, fixed
        <3> QED BY <1>0, <2>0, <3>1, <3>2 DEF Table, inUse, IInv, PhaseOK
    <2>2. CASE ~(modules[m].usage > 0)
        <3>1. /\ Active' = Active \ {m} /\ Table' /\ UsageCountsUsers' /\ DependenciesActive'
              /\ m = DialogModule => dialogs = 0
            BY <1>0, <2>0, <2>2, RemoveModule DEF IInv, fixed
        <3> QED BY <1>0, <2>0, <3>1 DEF IInv, PhaseOK
    <2> QED BY <2>1, <2>2
<1>2. CallsOK'
    BY <1>0, NoCalls
<1>3. config' \in [loaded : SUBSET Module, unloaded : SUBSET Module]
    <2>1. DOMAIN modules' \subseteq Module
        BY <1>1 DEF Table, Active
    <2> QED BY <2>1, SavedType DEF UserUnloads, IInv
<1>4. PhaseOK'
    BY <1>0, <1>1 DEF PhaseOK
<1>5. TypeOK'
    BY <1>0, <1>1, <1>3 DEF IInv, TypeOK, Table, Entry, fixed, flags
<1> QED BY <1>1, <1>2, <1>4, <1>5 DEF IInv

LEMMA DialogsKeep == ASSUME IInv, OpenDialog \/ CloseDialog PROVE IInv'
<1>0. /\ phase = "running" /\ stack = <<>> /\ DialogModule \in Active
      /\ UNCHANGED <<fixed, flags, phase, config, everLoaded, stack, todo, failed>>
    BY DEF OpenDialog, CloseDialog, IInv, PhaseOK
<1>1. /\ dialogs \in Nat /\ dialogs' \in 0..MaxDialogs
    BY ModulesAssumption DEF OpenDialog, CloseDialog, IInv, TypeOK, ModulesAssumption
<1>2. Active' = Active /\ Table' /\ UsageCountsUsers' /\ DependenciesActive'
    <2>1. Table
        BY <1>0, TableOfTypeOK DEF IInv
    <2>2. CASE OpenDialog
        BY <1>0, <1>1, <2>1, <2>2, DialogModuleUsage DEF OpenDialog, IInv, fixed
    <2>3. CASE CloseDialog
        <3>1. dialogs' = dialogs + (-1) /\ -1 \in Int
            BY <1>1, <2>3 DEF CloseDialog
        <3> QED BY <1>0, <1>1, <2>1, <2>3, <3>1, DialogModuleUsage DEF CloseDialog, IInv, fixed
    <2> QED BY <2>2, <2>3
<1>3. CallsOK'
    BY <1>0, NoCalls
<1>4. PhaseOK'
    BY <1>0, <1>2 DEF IInv, PhaseOK
<1>5. TypeOK'
    BY <1>0, <1>1, <1>2 DEF IInv, TypeOK, Table, Entry, fixed, flags
<1> QED BY <1>2, <1>3, <1>4, <1>5 DEF IInv

LEMMA UnloadUnusedKeeps == ASSUME IInv, NEW m \in todo, UnloadUnused(m) PROVE IInv'
<1>0. /\ phase = "unloading" /\ m \in Active /\ m \in Module /\ stack = <<>>
      /\ todo' = todo \ {m} /\ todo \subseteq Active
      /\ UNCHANGED <<fixed, phase, config, everLoaded, dialogs, stack, saveList, failed>>
    BY DEF UnloadUnused, IInv, PhaseOK, TypeOK
<1>1. /\ todo' \subseteq Active' /\ Table' /\ UsageCountsUsers' /\ DependenciesActive'
      /\ dialogs > 0 => DialogModule \in Active'
      /\ deactivated' \in BOOLEAN
    <2>0. Table /\ dialogs \in Nat
        BY <1>0, TableOfTypeOK, ModulesAssumption DEF IInv, TypeOK, ModulesAssumption
    <2>1. CASE modules[m].usage # 0
        <3>1. inUse' = inUse /\ deactivated' = deactivated
            BY <1>0, <2>1 DEF UnloadUnused, inUse
        <3>2. Active' = Active /\ Ghosts' = Ghosts /\ UsageCountsUsers' /\ DependenciesActive'
            BY <1>0, <3>1, SameTable DEF IInv, fixed
        <3> QED BY <1>0, <2>0, <3>1, <3>2 DEF Table, inUse, IInv, PhaseOK, TypeOK
    <2>2. CASE modules[m].usage = 0
        <3>1. modules' = Removed(m) /\ deactivated' = TRUE /\ ~(modules[m].usage > 0)
            BY <2>2 DEF UnloadUnused
        <3>2. /\ Active' = Active \ {m} /\ Table' /\ UsageCountsUsers' /\ DependenciesActive'
              /\ m = DialogModule => dialogs = 0
            BY <1>0, <2>0, <3>1, RemoveModule DEF IInv, fixed
        <3> QED BY <1>0, <2>0, <3>1, <3>2 DEF IInv, PhaseOK
    <2> QED BY <2>1, <2>2
<1>2. CallsOK'
    BY <1>0, NoCalls
<1>3. PhaseOK'
    BY <1>0, <1>1 DEF PhaseOK
<1>4. TypeOK'
    BY <1>0, <1>1 DEF IInv, TypeOK, Table, Entry, fixed
<1> QED BY <1>1, <1>2, <1>3, <1>4 DEF IInv

\* Killing removes the module and may leave entries of others behind.
LEMMA KillKeeps == ASSUME IInv, NEW m \in todo, Kill(m) PROVE IInv'
<1>0. /\ phase = "killing" /\ m \in Active /\ m \in Module /\ stack = <<>>
      /\ todo' = todo \ {m} /\ todo \subseteq Active /\ modules' = Removed(m)
      /\ UNCHANGED <<fixed, flags, phase, config, everLoaded, dialogs, stack, failed>>
    BY DEF Kill, IInv, PhaseOK, TypeOK
<1> DEFINE D == Range(DependsOf(m))
           entry(k) == IF k \in Active THEN modules[k] ELSE [usage |-> 0, ghost |-> TRUE]
<1>1. D \subseteq Module
    BY <1>0, Dependencies
<1>2. ASSUME NEW k \in Active \cup D
      PROVE  entry(k) \in Entry /\ [entry(k) EXCEPT !.usage = @ + (-1)] \in Entry
    <2>1. entry(k) \in Entry
        BY DEF Entry, IInv, TypeOK
    <2> HIDE DEF entry
    <2> QED BY <2>1 DEF Entry
<1>3. AddUsage(modules, D, -1) =
        [k \in Active \cup D |-> IF k \in D THEN [entry(k) EXCEPT !.usage = @ + (-1)] ELSE entry(k)]
    BY DEF AddUsage, Active
<1>4. AddUsage(modules, D, -1) \in [Active \cup D -> Entry]
    <2> HIDE DEF entry
    <2> QED BY <1>2, <1>3
<1>5. modules' \in [(Active \cup D) \ {m} -> Entry] /\ Active' = (Active \cup D) \ {m}
    BY <1>0, <1>4 DEF Removed, Active
<1>6. UsageCountsUsers' /\ DependenciesActive' /\ CallsOK'
    BY <1>0, NoCalls DEF UsageCountsUsers, DependenciesActive
<1>7. PhaseOK'
    BY <1>0, <1>5 DEF IInv, PhaseOK
<1>8. TypeOK'
    BY <1>0, <1>1, <1>5 DEF IInv, TypeOK, Entry, fixed, flags
<1> QED BY <1>6, <1>7, <1>8 DEF IInv

\* With an empty table there is nothing to count.
LEMMA EndsKeeps == ASSUME IInv, Ends PROVE IInv'
<1>1. Active' = {} /\ Ghosts' = {} /\ modules' \in [Active' -> [usage : Int, ghost : BOOLEAN]]
    BY DEF Ends, Active, Ghosts
<1>2. UsageCountsUsers' /\ DependenciesActive'
    BY <1>1 DEF UsageCountsUsers, DependenciesActive
<1>3. CallsOK' /\ stack' \in Seq(Frame) /\ phase' \in Phases
    BY NoCalls, EmptySeq, PhaseNames DEF Ends
<1>4. PhaseOK'
    BY <1>1 DEF Ends, PhaseOK
<1>5. TypeOK'
    <2>1. /\ UNCHANGED <<fixed, config, everLoaded>>
          /\ todo' = {} /\ failed' = {} /\ saveList' = FALSE /\ deactivated' = FALSE
        BY DEF Ends
    <2>2. dialogs' \in 0..MaxDialogs
        BY ModulesAssumption DEF Ends, ModulesAssumption
    <2> QED BY <1>1, <1>3, <2>1, <2>2 DEF IInv, TypeOK, fixed
<1> QED BY <1>2, <1>3, <1>4, <1>5 DEF IInv

\* Another release is installed while nothing is active.
LEMMA UpgradeKeeps == ASSUME IInv, Upgrade PROVE IInv'
<1>1. /\ Active = {} /\ Active' = {} /\ Ghosts' = {} /\ stack' = <<>> /\ stack = <<>>
    BY DEF Upgrade, IInv, PhaseOK, inUse, Active, Ghosts
<1>2. UsageCountsUsers' /\ DependenciesActive' /\ CallsOK'
    BY <1>1, NoCalls DEF UsageCountsUsers, DependenciesActive
<1>3. PhaseOK'
    BY <1>1 DEF Upgrade, IInv, PhaseOK, inUse
<1>4. TypeOK'
    BY <1>1 DEF Upgrade, IInv, TypeOK, flags, inUse
<1> QED BY <1>2, <1>3, <1>4 DEF IInv

-----------------------------------------------------------------------------
(* The theorems.                                                           *)

LEMMA InitIInv == Init => IInv
<1> SUFFICES ASSUME Init PROVE IInv
    OBVIOUS
<1>1. Active = {} /\ Ghosts = {} /\ modules \in [Active -> [usage : Int, ghost : BOOLEAN]]
    BY DEF Init, Active, Ghosts
<1>2. 1..Len(stack) = {} /\ stack \in Seq(Frame) /\ phase \in Phases
    BY EmptySeq, PhaseNames DEF Init
<1>3. TypeOK
    <2>1. /\ installed \in Releases
          /\ config \in [loaded : SUBSET Module, unloaded : SUBSET Module] /\ lists = config
          /\ everLoaded = {} /\ todo = {} /\ failed = {}
          /\ saveList = FALSE /\ deactivated = FALSE
        BY DEF Init
    <2>2. dialogs \in 0..MaxDialogs /\ starts \in 0..MaxStarts
        BY ModulesAssumption DEF Init, ModulesAssumption
    <2> QED BY <1>1, <1>2, <2>1, <2>2 DEF TypeOK
<1>4. UsageCountsUsers /\ DependenciesActive
    BY <1>1 DEF UsageCountsUsers, DependenciesActive
<1>5. CallsOK /\ PhaseOK
    BY <1>1, <1>2 DEF Init, CallsOK, PhaseOK
<1> QED BY <1>3, <1>4, <1>5 DEF IInv

LEMMA StutterKeeps == ASSUME IInv, UNCHANGED vars PROVE IInv'
<1>1. Active' = Active /\ Ghosts' = Ghosts /\ UsageCountsUsers' /\ DependenciesActive'
    BY SameTable DEF IInv, vars, inUse
<1>2. CallsOK'
    BY <1>1, SameCalls DEF IInv, vars
<1>3. PhaseOK'
    BY <1>1 DEF IInv, PhaseOK, vars
<1>4. TypeOK'
    BY <1>1 DEF IInv, TypeOK, vars
<1> QED BY <1>1, <1>2, <1>3, <1>4 DEF IInv

LEMMA NextIInv == IInv /\ [Next]_vars => IInv'
<1> SUFFICES ASSUME IInv, [Next]_vars PROVE IInv'
    OBVIOUS
<1>1. CASE Start \/ Upgrade \/ Crash
    BY <1>1, StartKeeps, UpgradeKeeps, EndsKeeps DEF Crash
<1>2. CASE Startup
    BY <1>2, VisitKeeps, NextLoopKeeps, StartupEndsKeeps DEF Startup
<1>3. CASE Activation
    BY <1>3, SatisfyDependencyKeeps, FailuresKeep, InitSucceedsKeeps DEF Activation
<1>4. CASE User
    BY <1>4, UserLoadsKeeps, UserUnloadsKeeps, DialogsKeep, QuitKeeps DEF User
<1>5. CASE Unloading
    BY <1>5, UnloadUnusedKeeps, KillKeeps, UnloadAgainKeeps, EndsKeeps DEF Unloading, Exit
<1>6. CASE UNCHANGED vars
    BY <1>6, StutterKeeps
<1> QED BY <1>1, <1>2, <1>3, <1>4, <1>5, <1>6 DEF Next

\* Whatever is loaded, fails, is unloaded, upgraded or killed, in any order.
THEOREM ModulesInvariance == Spec => []IInv
BY InitIInv, NextIInv, PTL DEF Spec

\* The variables keep their types; there is an entry without a library only
\* when unloading has given up and kills.
THEOREM ModulesTypeCorrect == Spec => []TypeOK
BY ModulesInvariance, PTL DEF IInv

\* activateModule and deactivateModule add and take away one use of each
\* dependency, so the counter of a module always is the number of its users.
THEOREM CountersAreRight == Spec => []UsageCountsUsers
BY ModulesInvariance, PTL DEF IInv

\* A module is not unloaded under the modules that need it.
THEOREM NoDependencyMissing == Spec => []DependenciesActive
BY ModulesInvariance, PTL DEF IInv

-----------------------------------------------------------------------------
(* Unloading at exit: what the last pass of unloadAllModules leaves.       *)

\* In a pass that has unloaded nothing yet, what was passed over is in use.
PassedAreUsed ==
    phase = "unloading" /\ ~deactivated => \A m \in Active \ todo : modules[m].usage # 0

ExitInv == PassedAreUsed /\ KilledOnlyForDialogs

\* Of some modules one has the highest rank.
LEMMA Highest ==
    ASSUME NEW S \in SUBSET Module, S # {}
    PROVE  \E m \in S : \A n \in S : ~(Rank[m] < Rank[n])
<1> DEFINE Above(m) == {n \in S : Rank[m] < Rank[n]}
           W == {Above(m) : m \in S}
<1>1. IsWellFoundedOn(StrictSubsetOrdering(Module), FiniteSubsetsOf(Module))
    BY FS_StrictSubsetOrderingWellFounded
<1>2. W \subseteq FiniteSubsetsOf(Module) /\ W # {}
    <2>1. \A T \in SUBSET Module : IsFiniteSet(T)
        BY FS_Subset, ModulesAssumption DEF ModulesAssumption
    <2> QED BY <2>1 DEF FiniteSubsetsOf
<1>3. PICK w \in W : \A v \in W : <<v, w>> \notin StrictSubsetOrdering(Module)
    <2> HIDE DEF W
    <2> QED BY <1>1, <1>2, WFMin
<1>4. PICK m \in S : w = Above(m)
    OBVIOUS
<1>5. ASSUME NEW n \in S, Rank[m] < Rank[n] PROVE FALSE
    <2>1. \A k \in S : Rank[k] \in Nat
        BY ModulesAssumption DEF ModulesAssumption
    <2>2. Above(n) \subseteq Above(m) /\ n \in Above(m) /\ n \notin Above(n)
        BY <1>5, <2>1
    <2>3. Above(n) # Above(m)
        BY <2>2
    <2>4. <<Above(n), Above(m)>> \in StrictSubsetOrdering(Module)
        BY <2>2, <2>3 DEF StrictSubsetOrdering
    <2>5. Above(n) \in W
        OBVIOUS
    <2> QED BY <1>3, <1>4, <2>4, <2>5
<1> QED BY <1>5

\* Where no dialog is open, some active module is not in use.
LEMMA SomeUnused ==
    ASSUME IInv, phase # "killing", dialogs = 0, Active # {}
    PROVE  \E m \in Active : modules[m].usage = 0
<1>1. Active \in SUBSET Module
    BY DEF IInv, TypeOK
<1>2. PICK m \in Active : \A n \in Active : ~(Rank[m] < Rank[n])
    BY <1>1, Highest
<1>3. Users(m) = {}
    <2>1. ASSUME NEW n \in Users(m) PROVE FALSE
        <3>1. n \in Active /\ n \in Module /\ m \in Range(DependsOf(n))
            BY <1>1, <2>1 DEF Users
        <3>2. Rank[m] < Rank[n]
            BY <3>1, Dependencies
        <3> QED BY <1>2, <3>1, <3>2
    <2> QED BY <2>1
<1>4. Cardinality(Users(m)) = 0
    BY <1>3, FS_EmptySet
<1>5. modules[m].usage = 0 + 0
    BY <1>4 DEF IInv, UsageCountsUsers
<1> QED BY <1>5

LEMMA NextExitInv == IInv /\ IInv' /\ ExitInv /\ [Next]_vars => ExitInv'
<1> SUFFICES ASSUME IInv, IInv', ExitInv, [Next]_vars PROVE ExitInv'
    OBVIOUS
<1>1. CASE phase' \notin {"unloading", "killing"}
    BY <1>1 DEF ExitInv, PassedAreUsed, KilledOnlyForDialogs
<1>2. CASE Quit
    BY <1>2 DEF Quit, ExitInv, PassedAreUsed, KilledOnlyForDialogs, inUse, Active
<1>3. CASE UnloadAgain
    <2>1. KilledOnlyForDialogs'
        <3>1. ASSUME phase' = "killing", dialogs' = 0, Active' # {} PROVE FALSE
            <4>1. /\ phase = "unloading" /\ todo = {} /\ ~deactivated /\ modules' = modules
                  /\ dialogs = 0 /\ Active # {}
                BY <1>3, <3>1 DEF UnloadAgain, inUse, Active
            <4>2. PICK m \in Active : modules[m].usage = 0
                BY <4>1, SomeUnused
            <4> QED BY <4>1, <4>2 DEF ExitInv, PassedAreUsed
        <3> QED BY <3>1 DEF KilledOnlyForDialogs
    <2>2. PassedAreUsed'
        BY <1>3 DEF UnloadAgain, inUse, PassedAreUsed, Active
    <2> QED BY <2>1, <2>2 DEF ExitInv
<1>4. ASSUME NEW m \in todo, UnloadUnused(m) PROVE ExitInv'
    <2>1. phase = "unloading" /\ phase' = phase /\ todo' = todo \ {m}
        BY <1>4 DEF UnloadUnused
    <2>2. CASE modules[m].usage = 0
        BY <2>1, <2>2, <1>4 DEF UnloadUnused, ExitInv, PassedAreUsed, KilledOnlyForDialogs
    <2>3. CASE modules[m].usage # 0
        <3>1. modules' = modules /\ deactivated' = deactivated
            BY <1>4, <2>3 DEF UnloadUnused
        <3> QED BY <2>1, <2>3, <3>1
                DEF ExitInv, PassedAreUsed, KilledOnlyForDialogs, Active
    <2> QED BY <2>2, <2>3
<1>5. ASSUME NEW m \in todo, Kill(m) PROVE ExitInv'
    <2>1. phase = "killing" /\ phase' = phase /\ dialogs' = dialogs /\ m \in Active
        BY <1>5 DEF Kill, IInv, PhaseOK
    <2> QED BY <2>1 DEF ExitInv, PassedAreUsed, KilledOnlyForDialogs
<1>6. CASE UNCHANGED vars
    BY <1>6 DEF vars, ExitInv, PassedAreUsed, KilledOnlyForDialogs, Active
<1>7. CASE Start \/ Startup \/ Upgrade \/ Ends
    <2>1. phase' \notin {"unloading", "killing"}
        <3>1. CASE Start
            BY <3>1 DEF Start
        <3>2. ASSUME NEW m \in todo, Visit(m) PROVE phase' \notin {"unloading", "killing"}
            <4>1. Busy
                BY <3>2, PhaseNames DEF Visit, Busy
            <4> QED BY <3>2, <4>1 DEF Visit, Call, Fails, Returned, Busy
        <3>3. CASE NextLoop \/ StartupEnds
            BY <3>3 DEF NextLoop, StartupEnds
        <3>4. CASE Upgrade \/ Ends
            BY <3>4 DEF Upgrade, Ends
        <3> QED BY <1>7, <3>1, <3>2, <3>3, <3>4 DEF Startup
    <2> QED BY <2>1, <1>1
<1>8. CASE Activation
    <2>1. stack # <<>>
        BY <1>8 DEF Activation, SatisfyDependency, LibraryFails, InitFails, InitSucceeds
    <2>2. Busy
        BY <2>1, CallsAreBusy DEF IInv
    <2>3. phase' \in {phase, "running"}
        BY <1>8 DEF Activation, SatisfyDependency, LibraryFails, InitFails, InitSucceeds,
                    Call, Fails, Returned
    <2> QED BY <2>2, <2>3, <1>1 DEF Busy
<1>9. CASE OpenDialog \/ CloseDialog \/ \E m \in Module : UserLoads(m) \/ UserUnloads(m)
    <2>1. phase' \in {"running", "loading"}
        BY <1>9 DEF OpenDialog, CloseDialog, UserLoads, UserUnloads, flags
    <2> QED BY <2>1, <1>1
<1> QED BY <1>2, <1>3, <1>4, <1>5, <1>6, <1>7, <1>8, <1>9
        DEF Next, User, Unloading, Exit, Crash

\* unloadAllModules repeats its pass until one unloads nothing.  As dependencies
\* have no cycle, only the users of the dialog module can keep anything loaded.
THEOREM NothingKilledWithoutDialogs == Spec => []KilledOnlyForDialogs
<1>1. Init => ExitInv
    BY DEF Init, ExitInv, PassedAreUsed, KilledOnlyForDialogs
<1>2. ExitInv => KilledOnlyForDialogs
    BY DEF ExitInv
<1> QED BY <1>1, <1>2, NextExitInv, ModulesInvariance, PTL DEF Spec

-----------------------------------------------------------------------------
(* Conflicts.  activateModule looks for them before it activates the       *)
(* dependencies, so that what it found has to be carried along the stack.  *)

Clash(m, n) == Excludes(m, n) \/ Excludes(n, m)

\* The module of a call is in conflict with no active one.  (A call for a module
\* that is not there cannot succeed.)
CallFits(frame) == frame.module \in Available => \A k \in Active : ~InConflict(frame.module, k)

\* The calls were made for what the calls before them need.
CallsFit ==
    /\ \A i \in 1..Len(stack) : CallFits(stack[i])
    /\ \A i, j \in 1..Len(stack) : i < j => Needs(stack[i].module, stack[j].module)

ConflictInv == NoConflictActive /\ CallsFit

LEMMA InConflictIsClash ==
    ASSUME NEW m, NEW n
    PROVE  InConflict(m, n) => Clash(m, n)
BY DEF InConflict, ConflictsOf, Clash, Excludes

LEMMA InConflictSymmetric ==
    ASSUME NEW m, NEW n
    PROVE  InConflict(m, n) <=> InConflict(n, m)
BY DEF InConflict

LEMMA NeedsNoClash ==
    ASSUME NEW m \in Module, NEW n \in Module, Needs(m, n)
    PROVE  ~Clash(m, n) /\ ~Clash(n, m)
BY ConflictsAssumption DEF ConflictsAssumption, Clash

\* What a module depends on is needed by it and by all that need it.
LEMMA NeedsDependency ==
    ASSUME NEW m \in Module, NEW d \in Range(DependsOf(m))
    PROVE  /\ Needs(m, d)
           /\ \A k : Needs(k, m) => Needs(k, d)
<1>1. d \in Range(Depends[m])
    <2>1. CASE m \in Available
        BY <2>1 DEF DependsOf
    <2>2. CASE m \notin Available
        BY <2>2 DEF DependsOf, Range
    <2> QED BY <2>1, <2>2
<1> QED BY <1>1 DEF Needs

\* A module that has passed conflictsWithLoaded is in conflict with no active one.
LEMMA ChecksConflicts ==
    ASSUME IInv, phase # "killing", NEW m \in Module, m \in Available, m \notin Active,
           ~ConflictsWithLoaded(m)
    PROVE  \A k \in Active : ~InConflict(m, k)
<1>1. SUFFICES ASSUME NEW k \in Active, InConflict(m, k) PROVE FALSE
    OBVIOUS
<1>2. k \in Active \ Ghosts /\ k \in Module /\ k # m
    BY DEF IInv, TypeOK
<1>3. ConflictsOf(m) = Conflicts[m]
    BY DEF ConflictsOf
<1>4. k \notin Conflicts[m] /\ Conflicts[m] \cap Provides[k] = {} /\ m \notin Conflicts[k]
    BY <1>2, <1>3 DEF ConflictsWithLoaded
<1>5. Conflicts[k] \cap Provides[m] # {}
    BY <1>1, <1>3, <1>4 DEF InConflict, ConflictsOf
<1>6. m \in Conflicts[k] \/ Excludes(m, k)
    BY <1>2, <1>5, ConflictsAssumption DEF ConflictsAssumption
<1> QED BY <1>4, <1>6 DEF Excludes

LEMMA SameConflicts ==
    ASSUME installed' = installed
    PROVE  /\ Available' = Available
           /\ \A m, n : InConflict(m, n)' <=> InConflict(m, n)
BY DEF InConflict, ConflictsOf, Available

LEMMA NoCallsFit == stack' = <<>> => CallsFit'
<1>1. ASSUME stack' = <<>> PROVE CallsFit'
    <2>1. 1..Len(stack') = {}
        BY <1>1
    <2> QED BY <2>1 DEF CallsFit
<1> QED BY <1>1

\* A step that makes no module active.
LEMMA FewerActive ==
    ASSUME NoConflictActive, installed' = installed, Active' \ Ghosts' \subseteq Active \ Ghosts
    PROVE  NoConflictActive'
BY SameConflicts DEF NoConflictActive

LEMMA SameActive ==
    ASSUME modules' = modules
    PROVE  Active' = Active /\ Ghosts' = Ghosts
BY DEF Active, Ghosts

\* Counting users makes no module active, either.
LEMMA UsageKeepsGhosts ==
    ASSUME modules \in [Active -> Entry], NEW S, NEW n \in Int,
           NEW k \in DOMAIN AddUsage(modules, S, n), ~AddUsage(modules, S, n)[k].ghost
    PROVE  k \in Active \ Ghosts
<1> DEFINE entry == IF k \in DOMAIN modules THEN modules[k] ELSE [usage |-> 0, ghost |-> TRUE]
<1>1. k \in DOMAIN modules \cup S
    BY DEF AddUsage
<1>2. AddUsage(modules, S, n)[k] = IF k \in S THEN [entry EXCEPT !.usage = @ + n] ELSE entry
    BY <1>1 DEF AddUsage
<1>3. entry \in Entry
    BY DEF Entry
<1>4. AddUsage(modules, S, n)[k].ghost = entry.ghost
    <2> HIDE DEF entry
    <2> QED BY <1>2, <1>3 DEF Entry
<1>5. ~entry.ghost
    BY <1>4
<1>6. k \in DOMAIN modules
    BY <1>5
<1> QED BY <1>5, <1>6 DEF Active, Ghosts

LEMMA RemovedActive ==
    ASSUME modules \in [Active -> Entry], NEW m, modules' = Removed(m)
    PROVE  Active' \ Ghosts' \subseteq Active \ Ghosts
<1> DEFINE D == Range(DependsOf(m))
           table == AddUsage(modules, D, -1)
<1> HIDE DEF D
<1>1. ASSUME NEW k \in Active', k \notin Ghosts' PROVE k \in Active \ Ghosts
    <2>1. modules' = [i \in DOMAIN table \ {m} |-> table[i]]
        BY DEF Removed, D
    <2> HIDE DEF table
    <2>2. k \in DOMAIN table \ {m} /\ modules'[k] = table[k]
        BY <1>1, <2>1 DEF Active
    <2>3. ~table[k].ghost
        BY <1>1, <2>2 DEF Ghosts
    <2>4. k \in DOMAIN AddUsage(modules, D, -1) /\ ~AddUsage(modules, D, -1)[k].ghost
        BY <2>2, <2>3 DEF table
    <2> QED BY <2>4, UsageKeepsGhosts
<1> QED BY <1>1

LEMMA TableIsTyped == TypeOK => modules \in [Active -> Entry]
BY DEF TypeOK, Entry

LEMMA CallKeepsConflicts ==
    ASSUME IInv, ConflictInv, Busy, NEW m \in Module, Call(m),
           stack # <<>> => m \in Range(DependsOf(Top.module)),
           UNCHANGED <<installed, inUse>>
    PROVE  ConflictInv'
<1>0. Active' = Active /\ Ghosts' = Ghosts
    BY SameActive DEF inUse
<1>1. NoConflictActive'
    BY <1>0, FewerActive DEF ConflictInv
<1>2. CASE m \in Active \/ ConflictsWithLoaded(m)
    BY <1>1, <1>2, NoCallsFit DEF Call, Fails, Returned, ConflictInv
<1>3. CASE ~(m \in Active \/ ConflictsWithLoaded(m))
    <2> DEFINE frame == [module |-> m, left |-> DependsOf(m)]
    <2>1. stack' = Append(stack, frame)
        BY <1>3 DEF Call
    <2>2. frame \in Frame /\ stack \in Seq(Frame) /\ frame.module = m
        BY Dependencies DEF Frame, IInv, TypeOK
    <2> HIDE DEF frame
    <2>3. /\ Len(stack) \in Nat /\ Len(stack') = Len(stack) + 1
          /\ \A i \in 1..Len(stack) : stack'[i] = stack[i] /\ stack[i] \in Frame
          /\ stack'[Len(stack) + 1] = frame
        BY <2>1, <2>2, AppendProperties, LenProperties, ElementOfSeq
    <2>4. \A f : CallFits(f)' <=> CallFits(f)
        BY <1>0, SameConflicts DEF CallFits
    <2>5. CallFits(frame)
        BY <1>3, <2>2, ChecksConflicts DEF CallFits, Busy
    <2>6. ASSUME NEW i \in 1..Len(stack') PROVE CallFits(stack'[i])
        <3>1. CASE i = Len(stack) + 1
            BY <2>3, <2>5, <3>1
        <3>2. CASE i # Len(stack) + 1
            BY <2>3, <3>2 DEF ConflictInv, CallsFit
        <3> QED BY <3>1, <3>2
    <2>7. ASSUME NEW i \in 1..Len(stack) PROVE Needs(stack[i].module, m)
        <3>1. stack # <<>>
            BY <2>3, EmptySeq
        <3>2. /\ Len(stack) \in 1..Len(stack) /\ Top = stack[Len(stack)] /\ Top.module \in Module
            BY <2>2, <2>3, <3>1, TopFrame DEF Frame
        <3>3. Needs(Top.module, m) /\ \A k : Needs(k, Top.module) => Needs(k, m)
            BY <3>1, <3>2, NeedsDependency
        <3>4. CASE i = Len(stack)
            BY <3>2, <3>3, <3>4
        <3>5. CASE i # Len(stack)
            <4>1. Needs(stack[i].module, Top.module)
                BY <2>3, <3>2, <3>5 DEF ConflictInv, CallsFit
            <4> QED BY <3>3, <4>1
        <3> QED BY <3>4, <3>5
    <2>8. ASSUME NEW i \in 1..Len(stack'), NEW j \in 1..Len(stack'), i < j
          PROVE  Needs(stack'[i].module, stack'[j].module)
        <3>1. CASE j = Len(stack) + 1
            BY <2>2, <2>3, <2>7, <2>8, <3>1
        <3>2. CASE j # Len(stack) + 1
            BY <2>3, <2>8, <3>2 DEF ConflictInv, CallsFit
        <3> QED BY <3>1, <3>2
    <2>9. CallsFit'
        <3>1. ASSUME NEW i \in 1..Len(stack') PROVE CallFits(stack[i])'
            BY <2>4, <2>6
        <3>2. \A m1, n1 : Needs(m1, n1)' <=> Needs(m1, n1)
            BY DEF Needs
        <3> QED BY <2>8, <3>1, <3>2 DEF CallsFit
    <2> QED BY <1>1, <2>9 DEF ConflictInv
<1> QED BY <1>2, <1>3

\* satisfyModuleDependencies calls activateModule for a dependency of the innermost call.
LEMMA SatisfyDependencyKeepsConflicts ==
    ASSUME IInv, ConflictInv, SatisfyDependency PROVE ConflictInv'
<1> DEFINE d == Head(Top.left)
<1>0. /\ stack # <<>> /\ Top.left # <<>> /\ UNCHANGED <<installed, inUse>>
      /\ Active' = Active /\ Ghosts' = Ghosts
    BY SameActive DEF SatisfyDependency, fixed, inUse
<1>1. NoConflictActive'
    BY <1>0, FewerActive DEF ConflictInv
<1>2. /\ Busy /\ Top.left \in Seq(Module)
      /\ Range(Top.left) \subseteq Range(DependsOf(Top.module))
    BY <1>0, TopCall
<1>3. d \in Module /\ d \in Range(DependsOf(Top.module))
    BY <1>0, NextDependency
<1>4. CASE d \in Active
    <2>1. stack' = [stack EXCEPT ![Len(stack)].left = Tail(@)]
        BY <1>0, <1>4 DEF SatisfyDependency
    <2>2. stack \in Seq(Frame)
        BY DEF IInv, TypeOK
    <2>3. /\ Len(stack) \in Nat \ {0} /\ Top = stack[Len(stack)] /\ Top \in Frame
          /\ Tail(Top.left) \in Seq(Module)
        BY <1>0, <1>2, <2>2, TopFrame, HeadTailProperties
    <2> DEFINE frame == [Top EXCEPT !.left = Tail(@)]
    <2>4. frame \in Frame /\ frame.module = Top.module
        BY <2>3 DEF Frame
    <2>5. stack' = [stack EXCEPT ![Len(stack)] = frame]
        BY <2>1, <2>3
    <2> HIDE DEF frame
    <2>6. /\ Len(stack') = Len(stack)
          /\ \A i \in 1..Len(stack) : stack'[i] = IF i = Len(stack) THEN frame ELSE stack[i]
        BY <2>2, <2>3, <2>4, <2>5, ExceptSeq
    <2>7. \A i \in 1..Len(stack) : stack'[i].module = stack[i].module
        BY <2>3, <2>4, <2>6
    <2>8. ASSUME NEW i \in 1..Len(stack') PROVE CallFits(stack[i])'
        <3>1. CallFits(stack[i])
            BY <2>6 DEF ConflictInv, CallsFit
        <3>2. stack'[i].module = stack[i].module
            BY <2>6, <2>7
        <3> QED BY <1>0, <3>1, <3>2, SameConflicts DEF CallFits
    <2>9. \A i, j \in 1..Len(stack') : i < j => Needs(stack'[i].module, stack'[j].module)
        BY <2>6, <2>7 DEF ConflictInv, CallsFit
    <2>10. \A m1, n1 : Needs(m1, n1)' <=> Needs(m1, n1)
        BY DEF Needs
    <2> QED BY <1>1, <2>8, <2>9, <2>10 DEF CallsFit, ConflictInv
<1>5. CASE d \notin Active /\ d \in Available
    <2>1. Call(d)
        BY <1>0, <1>5 DEF SatisfyDependency
    <2> QED BY <1>0, <1>2, <1>3, <2>1, CallKeepsConflicts
<1>6. CASE d \notin Active /\ d \notin Available
    BY <1>0, <1>1, <1>6, NoCallsFit DEF SatisfyDependency, Fails, Returned, ConflictInv
<1> QED BY <1>4, <1>5, <1>6

\* Of the calls that go on none is about a module that is in conflict with the one
\* activated for it.
LEMMA InitSucceedsKeepsConflicts ==
    ASSUME IInv, IInv', ConflictInv, InitSucceeds PROVE ConflictInv'
<1> DEFINE m == Top.module
<1>0. /\ stack # <<>> /\ Top.left = <<>> /\ m \in Available /\ modules' = Inserted(m)
      /\ installed' = installed
    BY DEF InitSucceeds, fixed
<1>1. /\ Busy /\ m \in Module /\ m \notin Active /\ Range(DependsOf(m)) \subseteq Active
    <2>1. Range(Top.left) = {}
        BY <1>0 DEF Range
    <2> QED BY <1>0, <2>1, TopCall
<1>2. /\ stack \in Seq(Frame) /\ Len(stack) \in Nat \ {0}
      /\ Top = stack[Len(stack)] /\ Top \in Frame
    BY <1>0, TopFrame DEF IInv, TypeOK
<1>3. Active' = Active \cup {m}
    <2>1. Table /\ phase # "killing" /\ dialogs \in Nat
        BY <1>1, TableOfTypeOK, ModulesAssumption DEF IInv, TypeOK, Busy, ModulesAssumption
    <2>2. m = DialogModule => dialogs = 0
        BY <1>1, <2>1 DEF IInv, PhaseOK
    <2>3. dialogs' = dialogs
        BY DEF InitSucceeds
    <2> HIDE DEF m
    <2> QED BY <1>0, <1>1, <2>1, <2>2, <2>3, InsertModule DEF IInv
<1>4. \A k \in Active : ~InConflict(m, k)
    <2>1. CallFits(Top)
        BY <1>2 DEF ConflictInv, CallsFit
    <2> QED BY <1>0, <2>1 DEF CallFits
<1>5. NoConflictActive'
    <2>1. \A k \in Active : k \in Active \ Ghosts
        BY <1>1 DEF IInv, TypeOK, Busy
    <2>2. ASSUME NEW k \in Active', NEW n \in Active', k # n PROVE ~InConflict(k, n)
        <3>1. CASE k = m
            BY <1>3, <1>4, <2>2, <3>1
        <3>2. CASE n = m
            BY <1>3, <1>4, <2>2, <3>2, InConflictSymmetric
        <3>3. CASE k # m /\ n # m
            BY <1>3, <2>1, <2>2, <3>3 DEF ConflictInv, NoConflictActive
        <3> QED BY <3>1, <3>2, <3>3
    <2>3. \A k, n : InConflict(k, n)' <=> InConflict(k, n)
        BY <1>0, SameConflicts
    <2> HIDE DEF m
    <2> QED BY <2>2, <2>3 DEF NoConflictActive
<1>6. CASE Len(stack) = 1
    BY <1>5, <1>6, NoCallsFit DEF InitSucceeds, Returned, ConflictInv
<1>7. CASE Len(stack) # 1
    <2>1. stack' = Front(stack)
        BY <1>7 DEF InitSucceeds
    <2>2. /\ Len(stack') = Len(stack) - 1
          /\ \A i \in 1..(Len(stack) - 1) : stack'[i] = stack[i]
        BY <1>0, <1>2, <2>1, TopFrame
    <2>3. ASSUME NEW i \in 1..Len(stack') PROVE CallFits(stack[i])'
        <3>1. i \in 1..Len(stack) /\ i < Len(stack) /\ Len(stack) \in 1..Len(stack)
            BY <1>2, <2>2
        <3>2. stack'[i] = stack[i] /\ stack[i].module \in Module
            <4>1. stack[i] \in Frame
                BY <1>2, <3>1, ElementOfSeq
            <4> QED BY <1>2, <2>2, <3>1, <4>1 DEF Frame
        <3>3. Needs(stack[i].module, m) /\ CallFits(stack[i])
            BY <1>2, <3>1 DEF ConflictInv, CallsFit
        <3>4. ~InConflict(stack[i].module, m)
            BY <1>1, <3>2, <3>3, NeedsNoClash, InConflictIsClash
        <3> QED BY <1>0, <1>3, <3>2, <3>3, <3>4, SameConflicts DEF CallFits
    <2>4. \A i \in 1..Len(stack') : i \in 1..Len(stack) /\ stack'[i] = stack[i]
        BY <1>2, <2>2
    <2>5. \A i, j \in 1..Len(stack') : i < j => Needs(stack'[i].module, stack'[j].module)
        BY <2>4 DEF ConflictInv, CallsFit
    <2>6. \A m1, n1 : Needs(m1, n1)' <=> Needs(m1, n1)
        BY DEF Needs
    <2> QED BY <1>5, <2>3, <2>5, <2>6 DEF CallsFit, ConflictInv
<1> QED BY <1>6, <1>7

\* All other steps leave no call behind and make no module active.
LEMMA OthersKeepConflicts ==
    ASSUME ConflictInv, stack' = <<>>, installed' = installed,
           Active' \ Ghosts' \subseteq Active \ Ghosts
    PROVE  ConflictInv'
BY FewerActive, NoCallsFit DEF ConflictInv

LEMMA NextConflictInv == IInv /\ IInv' /\ ConflictInv /\ [Next]_vars => ConflictInv'
<1> SUFFICES ASSUME IInv, IInv', ConflictInv, [Next]_vars PROVE ConflictInv'
    OBVIOUS
<1>0. modules \in [Active -> Entry]
    BY TableIsTyped DEF IInv
<1>1. CASE SatisfyDependency \/ InitSucceeds
    BY <1>1, SatisfyDependencyKeepsConflicts, InitSucceedsKeepsConflicts
<1>2. CASE LibraryFails \/ InitFails
    <2>1. stack' = <<>> /\ installed' = installed /\ modules' = modules
        BY <1>2 DEF LibraryFails, InitFails, Fails, Returned, fixed, inUse
    <2> QED BY <2>1, SameActive, OthersKeepConflicts
<1>3. ASSUME NEW m \in todo, Visit(m) PROVE ConflictInv'
    <2>1. stack = <<>> /\ installed' = installed /\ modules' = modules /\ UNCHANGED inUse
        BY <1>3 DEF Visit, fixed, inUse
    <2>2. Busy /\ m \in Module
        BY <1>3, PhaseNames DEF Visit, Busy, IInv, TypeOK
    <2>3. CASE Call(m)
        BY <2>1, <2>2, <2>3, CallKeepsConflicts
    <2>4. CASE stack' = stack
        BY <2>1, <2>4, SameActive, OthersKeepConflicts
    <2> QED BY <1>3, <2>3, <2>4 DEF Visit
<1>4. CASE NextLoop \/ StartupEnds \/ Start \/ Quit \/ UnloadAgain \/ \E m \in Module : UserLoads(m)
    <2>1. stack = <<>>
        BY <1>4 DEF NextLoop, StartupEnds, Start, Quit, UnloadAgain, UserLoads, IInv, PhaseOK
    <2>2. stack' = stack /\ installed' = installed /\ modules' = modules
        BY <1>4 DEF NextLoop, StartupEnds, Start, Quit, UnloadAgain, UserLoads, fixed, inUse
    <2> QED BY <2>1, <2>2, SameActive, OthersKeepConflicts
<1>5. ASSUME NEW m \in Module, UserUnloads(m) PROVE ConflictInv'
    <2>1. /\ stack = <<>> /\ stack' = stack /\ installed' = installed
          /\ modules' = modules \/ modules' = Removed(m)
        BY <1>5 DEF UserUnloads, fixed, IInv, PhaseOK
    <2>2. Active' \ Ghosts' \subseteq Active \ Ghosts
        BY <1>0, <2>1, SameActive, RemovedActive
    <2> QED BY <2>1, <2>2, OthersKeepConflicts
<1>6. ASSUME NEW m \in todo, UnloadUnused(m) \/ Kill(m) PROVE ConflictInv'
    <2>1. /\ stack = <<>> /\ stack' = stack /\ installed' = installed
          /\ modules' = modules \/ modules' = Removed(m)
        BY <1>6 DEF UnloadUnused, Kill, fixed, IInv, PhaseOK
    <2>2. Active' \ Ghosts' \subseteq Active \ Ghosts
        BY <1>0, <2>1, SameActive, RemovedActive
    <2> QED BY <2>1, <2>2, OthersKeepConflicts
<1>7. CASE OpenDialog \/ CloseDialog
    <2>1. /\ stack = <<>> /\ stack' = stack /\ installed' = installed
          /\ \E n \in {1, -1} : modules' = AddUsage(modules, {DialogModule}, n)
        BY <1>7 DEF OpenDialog, CloseDialog, fixed, IInv, PhaseOK
    <2>2. PICK n \in {1, -1} : modules' = AddUsage(modules, {DialogModule}, n)
        BY <2>1
    <2>3. ASSUME NEW k \in Active', k \notin Ghosts' PROVE k \in Active \ Ghosts
        <3> DEFINE S == {DialogModule}
        <3>1. modules' = AddUsage(modules, S, n) /\ n \in Int
            BY <2>2
        <3> HIDE DEF S
        <3>2. k \in DOMAIN AddUsage(modules, S, n) /\ ~AddUsage(modules, S, n)[k].ghost
            BY <2>3, <3>1 DEF Active, Ghosts
        <3> QED BY <1>0, <3>1, <3>2, UsageKeepsGhosts
    <2> QED BY <2>1, <2>3, OthersKeepConflicts
<1>8. CASE Ends
    <2>1. stack' = <<>> /\ installed' = installed /\ Active' = {}
        BY <1>8 DEF Ends, fixed, Active
    <2> QED BY <2>1, OthersKeepConflicts
<1>9. CASE Upgrade
    <2>1. stack' = <<>> /\ Active' = {}
        BY <1>9 DEF Upgrade, IInv, PhaseOK, inUse, Active
    <2> QED BY <2>1, NoCallsFit DEF ConflictInv, NoConflictActive
<1>10. CASE UNCHANGED vars
    <2>1. stack' = stack /\ installed' = installed /\ modules' = modules
        BY <1>10 DEF vars
    <2>2. Active' = Active /\ Ghosts' = Ghosts /\ \A m, n : InConflict(m, n)' <=> InConflict(m, n)
        BY <2>1, SameActive, SameConflicts
    <2>3. NoConflictActive'
        BY <2>1, <2>2, FewerActive DEF ConflictInv
    <2>4. ASSUME NEW i \in 1..Len(stack') PROVE CallFits(stack[i])'
        BY <2>1, <2>2, SameConflicts DEF CallFits, ConflictInv, CallsFit
    <2>5. \A i, j \in 1..Len(stack') : i < j => Needs(stack'[i].module, stack'[j].module)
        BY <2>1 DEF ConflictInv, CallsFit
    <2>6. \A m1, n1 : Needs(m1, n1)' <=> Needs(m1, n1)
        BY DEF Needs
    <2> QED BY <2>3, <2>4, <2>5, <2>6 DEF ConflictInv, CallsFit
<1> QED BY <1>1, <1>2, <1>3, <1>4, <1>5, <1>6, <1>7, <1>8, <1>9, <1>10
        DEF Next, Startup, Activation, User, Unloading, Exit, Crash

LEMMA InitConflictInv == Init => ConflictInv
<1> SUFFICES ASSUME Init PROVE ConflictInv
    OBVIOUS
<1>1. Active = {} /\ 1..Len(stack) = {}
    BY DEF Init, Active
<1> QED BY <1>1 DEF ConflictInv, NoConflictActive, CallsFit

\* As long as no module excludes what it needs, the check before the dependencies
\* are activated is as good as one after it: no two modules that are in conflict
\* are ever active together.
THEOREM ConflictsAreExcluded == Spec => []NoConflictActive
<1>1. ConflictInv => NoConflictActive
    BY DEF ConflictInv
<1> QED BY <1>1, InitConflictInv, NextConflictInv, ModulesInvariance, PTL DEF Spec

-----------------------------------------------------------------------------
(* Start-up.  What the loops have come to is loaded, has failed or cannot  *)
(* be loaded any more; and whatever a choice did not ask for was loaded    *)
(* for a module that depends on it.                                        *)

Starting == phase \in {"protocols", "static", "dynamic", "replaced"}

\* The module cannot be loaded, now or later in this start.
Hopeless(m) == ConflictsWithLoaded(m) \/ Blocked(m)

Settled(m) == m \in Active \cup failed \/ Hopeless(m)

\* The modules of the calls under way, the first of which a loop has made.
OnStack(m) == \E i \in 1..Len(stack) : stack[i].module = m
Called(m) == 1 \in 1..Len(stack) /\ stack[1].module = m

\* The loops that could load m have come to it.
Visited(m) ==
    \/ phase = "protocols" /\ m \in Protocols \ todo
    \/ phase = "static" /\ m \in Protocols
    \/ phase = "dynamic" /\ (m \in Protocols \/ m \notin todo)
    \/ phase = "replaced"

\* m depends on n, and was loaded, failed or could not be loaded, or is being
\* loaded.
Reason(n, m) ==
    m \in Range(DependsOf(n)) /\ (n \in Active \cup failed \/ Blocked(n) \/ OnStack(n))

ActiveThere == Active \ Ghosts \subseteq Available
ListsDiffer == config.loaded \cap config.unloaded = {} /\ lists.loaded \cap lists.unloaded = {}

\* Each call was made for a dependency of the one before it.
CallsChain ==
    \A i, j \in 1..Len(stack) :
        j = i + 1 => stack[j].module \in Range(DependsOf(stack[i].module))

TodoFits ==
    /\ phase = "static" => todo \subseteq StaticModules
    /\ phase = "replaced" => todo \subseteq lists.loaded

\* No loop asks for what the user has unloaded.
CalledIsAskedFor ==
    Starting => \A m \in lists.unloaded \ StaticModules : ~Called(m)

ChosenAreSettled ==
    \A m \in lists.loaded \cap installed : Visited(m) => Settled(m) \/ Called(m)

OthersHaveReasons ==
    Starting => \A m \in (Active \ StaticModules) \cap lists.unloaded :
                    \E n \in Module : Reason(n, m)

StartInv ==
    /\ ActiveThere /\ ListsDiffer /\ CallsChain /\ TodoFits
    /\ CalledIsAskedFor /\ ChosenAreSettled /\ OthersHaveReasons

LEMMA StartingIsBusy == Starting => Busy /\ phase # "killing"
BY DEF Starting, Busy

\* A step that makes modules active only if nothing active is in conflict with
\* them: what is in conflict, or blocked, stays so.
Grows ==
    /\ installed' = installed /\ failed \subseteq failed'
    /\ Active \subseteq Active' /\ Active \ Ghosts \subseteq Active' \ Ghosts'
    /\ \A d \in Active' \ Active : ~ConflictsWithLoaded(d)

LEMMA GrowsKeeps ==
    ASSUME Grows
    PROVE  /\ \A m : DependsOf(m)' = DependsOf(m)
           /\ \A m : ConflictsWithLoaded(m) => ConflictsWithLoaded(m)'
           /\ \A m : Blocked(m) => Blocked(m)'
           /\ \A m : Settled(m) => Settled(m)'
<1>1. \A m : ConflictsOf(m)' = ConflictsOf(m)
    BY DEF ConflictsOf, Available, Grows
<1>2. ASSUME NEW m, ConflictsWithLoaded(m) PROVE ConflictsWithLoaded(m)'
    <2>1. CASE ConflictsOf(m) \cap Active # {}
        BY <1>1, <2>1 DEF ConflictsWithLoaded, Grows
    <2>2. CASE ~(ConflictsOf(m) \cap Active # {})
        <3>1. PICK k \in Active \ Ghosts :
                    ConflictsOf(m) \cap Provides[k] # {} \/ m \in Conflicts[k]
            BY <1>2, <2>2 DEF ConflictsWithLoaded
        <3>2. k \in Active' \ Ghosts'
            BY <3>1 DEF Grows
        <3> QED BY <1>1, <3>1, <3>2 DEF ConflictsWithLoaded
    <2> QED BY <2>1, <2>2
<1>3. ASSUME NEW m, Blocked(m) PROVE Blocked(m)'
    <2>1. PICK d \in Module \ Active : Needs(m, d) /\ ConflictsWithLoaded(d)
        BY <1>3 DEF Blocked
    <2>2. d \in Module \ Active'
        BY <2>1 DEF Grows
    <2>3. ConflictsWithLoaded(d)'
        BY <1>2, <2>1
    <2>4. \A m1, n1 : Needs(m1, n1)' <=> Needs(m1, n1)
        BY DEF Needs
    <2> QED BY <2>1, <2>2, <2>3, <2>4 DEF Blocked
<1>4. \A m : Settled(m) => Settled(m)'
    BY <1>2, <1>3 DEF Settled, Hopeless, Grows
<1>5. \A m : DependsOf(m)' = DependsOf(m)
    BY SameDependencies DEF Grows
<1> QED BY <1>2, <1>3, <1>4, <1>5

\* A step that leaves the table alone.
LEMMA SameTableGrows ==
    ASSUME modules' = modules, installed' = installed, failed \subseteq failed'
    PROVE  Grows /\ (ActiveThere => ActiveThere')
<1>1. Active' = Active /\ Ghosts' = Ghosts /\ Available' = Available
    BY SameActive DEF Available
<1> QED BY <1>1 DEF Grows, ActiveThere

LEMMA SavedDiffer ==
    ASSUME NEW table
    PROVE  Saved(table).loaded \cap Saved(table).unloaded = {}
BY DEF Saved

\* Outside of a start there is little to keep.
LEMMA NotStartingKeeps ==
    ASSUME IInv', StartInv, ~Starting', stack' = <<>>, lists' = lists,
           config' = config \/ \E table : config' = Saved(table), ActiveThere'
    PROVE  StartInv'
<1>1. 1..Len(stack') = {}
    OBVIOUS
<1>2. CallsChain'
    BY <1>1 DEF CallsChain
<1>3. ListsDiffer'
    BY SavedDiffer DEF ListsDiffer, StartInv
<1>4. TodoFits' /\ CalledIsAskedFor' /\ ChosenAreSettled' /\ OthersHaveReasons'
    BY DEF TodoFits, CalledIsAskedFor, ChosenAreSettled, OthersHaveReasons, Starting, Visited
<1> QED BY <1>2, <1>3, <1>4 DEF StartInv

\* What is called is on the stack.
LEMMA StackFacts ==
    ASSUME IInv
    PROVE  /\ Len(stack) \in Nat /\ (stack # <<>> => Len(stack) >= 1)
           /\ \A i \in 1..Len(stack) : stack[i].module \in Module
           /\ \A m : Called(m) => OnStack(m)
<1>1. stack \in Seq(Frame)
    BY DEF IInv, TypeOK
<1>2. \A i \in 1..Len(stack) : stack[i] \in Frame
    BY <1>1, ElementOfSeq
<1>3. Len(stack) \in Nat /\ (stack # <<>> => Len(stack) >= 1)
    BY <1>1, EmptySeq, LenProperties
<1> QED BY <1>2, <1>3 DEF Frame, Called, OnStack

\* When all calls fail, the modules they are about are settled.
LEMMA AllFail ==
    ASSUME IInv, StartInv, Fails, UNCHANGED <<fixed, inUse, todo>>, failed \subseteq failed',
           IInv', Busy, \A m : OnStack(m) => m \in failed' \/ Blocked(m)
    PROVE  StartInv'
<1>1. /\ stack' = <<>> /\ lists' = lists /\ installed' = installed /\ todo' = todo
      /\ modules' = modules
      /\ phase' = IF phase = "loading" THEN "running" ELSE phase
      /\ config' = config \/ config' = Saved(modules)
    BY DEF Fails, Returned, fixed, inUse
<1>2. Grows /\ ActiveThere'
    BY <1>1, SameTableGrows DEF StartInv
<1>3. CASE phase = "loading"
    BY <1>1, <1>2, <1>3, NotStartingKeeps DEF Starting
<1>4. CASE phase # "loading"
    <2>1. phase' = phase /\ Starting /\ Starting'
        BY <1>1, <1>4 DEF Starting, Busy
    <2>2. 1..Len(stack') = {}
        BY <1>1
    <2>3. CallsChain' /\ CalledIsAskedFor' /\ ~(1 \in 1..Len(stack'))
        BY <2>2 DEF CallsChain, CalledIsAskedFor, Called
    <2>4. ListsDiffer' /\ TodoFits'
        BY <1>1, <2>1, SavedDiffer DEF ListsDiffer, TodoFits, StartInv
    <2>5. /\ \A m : Settled(m) => Settled(m)'
          /\ \A m : Blocked(m) => Blocked(m)'
        BY <1>2, GrowsKeeps
    <2>6. ASSUME NEW m \in lists.loaded \cap installed, Visited(m) PROVE Settled(m)'
        <3>1. CASE Settled(m)
            BY <2>5, <3>1
        <3>2. CASE Called(m)
            <4>1. m \in failed' \/ Blocked(m)
                BY <3>2, StackFacts
            <4> QED BY <2>5, <4>1 DEF Settled, Hopeless
        <3> QED BY <2>6, <3>1, <3>2 DEF StartInv, ChosenAreSettled
    <2>7. ChosenAreSettled'
        <3>1. \A m : Visited(m)' <=> Visited(m)
            BY <1>1, <2>1 DEF Visited
        <3> QED BY <1>1, <2>6, <3>1 DEF ChosenAreSettled
    <2>8. ASSUME NEW m \in (Active \ StaticModules) \cap lists.unloaded
          PROVE  \E n \in Module : Reason(n, m)'
        <3>1. PICK n \in Module : Reason(n, m)
            BY <2>1, <2>8 DEF StartInv, OthersHaveReasons
        <3>2. m \in Range(DependsOf(n))' /\ (n \in Active' \cup failed' \/ Blocked(n)')
            BY <1>2, <2>5, <3>1, GrowsKeeps DEF Reason, Grows
        <3> QED BY <3>2 DEF Reason
    <2>9. OthersHaveReasons'
        <3>1. Active' = Active
            BY <1>1, SameActive
        <3> QED BY <1>1, <2>8, <3>1 DEF OthersHaveReasons
    <2> QED BY <1>2, <2>3, <2>4, <2>7, <2>9 DEF StartInv
<1> QED BY <1>3, <1>4

\* One call more, for a dependency of the innermost one or made by a loop.
LEMMA PushCall ==
    ASSUME IInv, CallsChain, NEW m \in Module, installed' = installed,
           stack' = Append(stack, [module |-> m, left |-> DependsOf(m)]),
           stack # <<>> => m \in Range(DependsOf(Top.module))
    PROVE  /\ \A k : OnStack(k) => OnStack(k)'
           /\ CallsChain'
           /\ stack # <<>> => \A k : Called(k)' <=> Called(k)
           /\ stack = <<>> => \A k : Called(k)' <=> k = m
<1> DEFINE frame == [module |-> m, left |-> DependsOf(m)]
<1>1. frame \in Frame /\ stack \in Seq(Frame) /\ frame.module = m
    BY Dependencies DEF Frame, IInv, TypeOK
<1>2. stack' = Append(stack, frame)
    OBVIOUS
<1> HIDE DEF frame
<1>3. /\ Len(stack) \in Nat /\ Len(stack') = Len(stack) + 1
      /\ \A i \in 1..Len(stack) : stack'[i] = stack[i]
      /\ stack'[Len(stack) + 1] = frame
    BY <1>1, <1>2, AppendProperties, LenProperties
<1>4. \A i \in 1..Len(stack) : i \in 1..Len(stack')
    BY <1>3
<1>5. \A k : OnStack(k) => OnStack(k)'
    BY <1>3, <1>4 DEF OnStack
<1>6. CallsChain'
    <2>1. ASSUME NEW i \in 1..Len(stack'), NEW j \in 1..Len(stack'), j = i + 1
          PROVE  stack'[j].module \in Range(DependsOf(stack'[i].module))
        <3>1. CASE j = Len(stack) + 1
            <4>1. i = Len(stack) /\ i \in 1..Len(stack)
                BY <1>3, <2>1, <3>1
            <4>2. stack # <<>>
                BY <1>3, <4>1, EmptySeq
            <4>3. stack'[i] = Top
                BY <1>1, <1>3, <4>1, <4>2, TopFrame
            <4>4. stack'[j].module = m
                BY <1>1, <1>3, <3>1
            <4> QED BY <4>2, <4>3, <4>4
        <3>2. CASE j # Len(stack) + 1
            <4>1. i \in 1..Len(stack) /\ j \in 1..Len(stack)
                BY <1>3, <2>1, <3>2
            <4> QED BY <1>3, <2>1, <4>1 DEF CallsChain
        <3> QED BY <3>1, <3>2
    <2>2. \A k : DependsOf(k)' = DependsOf(k)
        BY SameDependencies
    <2> QED BY <2>1, <2>2 DEF CallsChain
<1>7. ASSUME stack # <<>> PROVE \A k : Called(k)' <=> Called(k)
    <2>1. 1 \in 1..Len(stack)
        BY <1>1, <1>3, <1>7, TopFrame
    <2>2. 1 \in 1..Len(stack') /\ stack'[1] = stack[1]
        BY <1>3, <1>4, <2>1
    <2> QED BY <2>1, <2>2 DEF Called
<1>8. ASSUME stack = <<>> PROVE \A k : Called(k)' <=> k = m
    <2>1. Len(stack) = 0
        BY <1>8
    <2>2. 1 \in 1..Len(stack') /\ stack'[1] = frame
        BY <1>3, <2>1
    <2> QED BY <1>1, <2>2 DEF Called
<1> QED BY <1>5, <1>6, <1>7, <1>8

\* Without calls none has been made.
LEMMA NoneCalled ==
    /\ stack = <<>> => \A m : ~Called(m) /\ ~OnStack(m)
    /\ stack' = <<>> => CallsChain' /\ \A m : ~Called(m)'
<1>1. ASSUME stack = <<>> PROVE \A m : ~Called(m) /\ ~OnStack(m)
    <2>1. 1..Len(stack) = {}
        BY <1>1
    <2> QED BY <2>1 DEF Called, OnStack
<1>2. ASSUME stack' = <<>> PROVE CallsChain' /\ \A m : ~Called(m)'
    <2>1. 1..Len(stack') = {}
        BY <1>2
    <2> QED BY <2>1 DEF Called, CallsChain
<1> QED BY <1>1, <1>2

\* A call that does not change the table.
LEMMA SameReasons ==
    ASSUME StartInv, modules' = modules, installed' = installed, lists' = lists,
           failed \subseteq failed', config' = config, phase' = phase,
           \A k : OnStack(k) => OnStack(k)' \/ k \in failed' \/ Blocked(k)
    PROVE  /\ ActiveThere' /\ ListsDiffer' /\ OthersHaveReasons'
           /\ \A m : Settled(m) => Settled(m)'
           /\ \A m : ConflictsWithLoaded(m) => Settled(m)'
<1>1. Grows /\ ActiveThere'
    BY SameTableGrows DEF StartInv
<1>2. /\ \A m : DependsOf(m)' = DependsOf(m)
      /\ \A m : ConflictsWithLoaded(m) => ConflictsWithLoaded(m)'
      /\ \A m : Blocked(m) => Blocked(m)'
      /\ \A m : Settled(m) => Settled(m)'
    BY <1>1, GrowsKeeps
<1>3. ListsDiffer'
    BY DEF ListsDiffer, StartInv
<1>4. Active' = Active
    BY SameActive
<1>5. ASSUME NEW n, NEW m, Reason(n, m) PROVE Reason(n, m)'
    BY <1>2, <1>4, <1>5 DEF Reason
<1>6. OthersHaveReasons'
    BY <1>4, <1>5 DEF OthersHaveReasons, StartInv, Starting
<1>7. \A m : ConflictsWithLoaded(m) => Settled(m)'
    BY <1>2 DEF Settled, Hopeless
<1> QED BY <1>1, <1>2, <1>3, <1>6, <1>7

\* The calls go on: the same loop, the same outermost call.
LEMMA CallsGoOn ==
    ASSUME StartInv, modules' = modules, installed' = installed, lists' = lists,
           failed \subseteq failed', config' = config, phase' = phase, todo' = todo,
           \A k : OnStack(k) => OnStack(k)', \A k : Called(k)' <=> Called(k), CallsChain'
    PROVE  StartInv'
<1>1. /\ ActiveThere' /\ ListsDiffer' /\ OthersHaveReasons'
      /\ \A m : Settled(m) => Settled(m)'
    BY SameReasons
<1>2. TodoFits' /\ CalledIsAskedFor'
    BY DEF TodoFits, CalledIsAskedFor, StartInv, Starting
<1>3. ChosenAreSettled'
    <2>1. \A m : Visited(m)' <=> Visited(m)
        BY DEF Visited
    <2> QED BY <1>1, <2>1 DEF ChosenAreSettled, StartInv
<1> QED BY <1>1, <1>2, <1>3 DEF StartInv

LEMMA FailedCalls ==
    ASSUME NEW m, OnStack(m)
    PROVE  m \in {f.module : f \in Range(stack)}
<1>1. PICK i \in 1..Len(stack) : stack[i].module = m
    BY DEF OnStack
<1> QED BY <1>1 DEF Range

\* What is called for the innermost call is needed by all calls.
LEMMA AllNeed ==
    ASSUME IInv, ConflictInv, stack # <<>>, NEW d \in Range(DependsOf(Top.module))
    PROVE  \A m : OnStack(m) => Needs(m, d)
<1>1. /\ stack \in Seq(Frame) /\ Len(stack) \in Nat \ {0}
      /\ Top = stack[Len(stack)] /\ Top.module \in Module
    BY TopFrame DEF IInv, TypeOK, Frame
<1>2. Needs(Top.module, d) /\ \A k : Needs(k, Top.module) => Needs(k, d)
    BY <1>1, NeedsDependency
<1>3. ASSUME NEW i \in 1..Len(stack) PROVE Needs(stack[i].module, d)
    <2>1. CASE i = Len(stack)
        BY <1>1, <1>2, <2>1
    <2>2. CASE i # Len(stack)
        <3>1. i < Len(stack) /\ Len(stack) \in 1..Len(stack)
            BY <1>1, <2>2
        <3>2. Needs(stack[i].module, Top.module)
            BY <1>1, <3>1 DEF ConflictInv, CallsFit
        <3> QED BY <1>2, <3>2
    <2> QED BY <2>1, <2>2
<1> QED BY <1>3 DEF OnStack

LEMMA SatisfyDependencyKeepsChoices ==
    ASSUME IInv, IInv', ConflictInv, StartInv, SatisfyDependency PROVE StartInv'
<1> DEFINE d == Head(Top.left)
<1>0. /\ stack # <<>> /\ Top.left # <<>> /\ UNCHANGED <<fixed, inUse, todo>>
      /\ installed' = installed /\ lists' = lists /\ modules' = modules
    BY DEF SatisfyDependency, fixed, inUse
<1>1. Busy /\ d \in Module /\ d \in Range(DependsOf(Top.module)) /\ Tail(Top.left) \in Seq(Module)
    BY <1>0, TopCall, NextDependency
<1>2. CASE d \in Active
    <2>1. /\ stack' = [stack EXCEPT ![Len(stack)].left = Tail(@)]
          /\ phase' = phase /\ config' = config /\ failed' = failed
        BY <1>0, <1>2 DEF SatisfyDependency
    <2>2. stack \in Seq(Frame)
        BY DEF IInv, TypeOK
    <2>3. Len(stack) \in Nat \ {0} /\ Top = stack[Len(stack)] /\ Top \in Frame
        BY <1>0, <2>2, TopFrame
    <2> DEFINE frame == [Top EXCEPT !.left = Tail(@)]
    <2>4. frame \in Frame /\ frame.module = Top.module
        BY <1>1, <2>3 DEF Frame
    <2>5. stack' = [stack EXCEPT ![Len(stack)] = frame]
        BY <2>1, <2>3
    <2> HIDE DEF frame
    <2>6. /\ Len(stack') = Len(stack)
          /\ \A i \in 1..Len(stack) : stack'[i] = IF i = Len(stack) THEN frame ELSE stack[i]
        BY <2>2, <2>3, <2>4, <2>5, ExceptSeq
    <2>7. \A i \in 1..Len(stack) : stack'[i].module = stack[i].module
        BY <2>3, <2>4, <2>6
    <2>8. \A k : (OnStack(k)' <=> OnStack(k)) /\ (Called(k)' <=> Called(k))
        BY <2>6, <2>7 DEF OnStack, Called
    <2>9. CallsChain'
        <3>1. \A k : DependsOf(k)' = DependsOf(k)
            BY <1>0, SameDependencies
        <3> QED BY <2>6, <2>7, <3>1 DEF CallsChain, StartInv
    <2> QED BY <1>0, <2>1, <2>8, <2>9, CallsGoOn
<1>3. CASE d \notin Active /\ d \in Available
    <2>1. Call(d) /\ failed' = failed
        BY <1>0, <1>3 DEF SatisfyDependency
    <2>2. CASE ConflictsWithLoaded(d)
        <3>1. Fails
            BY <2>1, <2>2 DEF Call
        <3>2. ASSUME NEW m, OnStack(m) PROVE Blocked(m)
            <4>1. Needs(m, d)
                BY <1>0, <1>1, <3>2, AllNeed
            <4> QED BY <1>1, <1>3, <2>2, <4>1 DEF Blocked
        <3>3. failed \subseteq failed' /\ \A m : OnStack(m) => m \in failed' \/ Blocked(m)
            BY <2>1, <3>2
        <3> QED BY <1>0, <1>1, <3>1, <3>3, AllFail
    <2>3. CASE ~ConflictsWithLoaded(d)
        <3>1. /\ stack' = Append(stack, [module |-> d, left |-> DependsOf(d)])
              /\ phase' = phase /\ config' = config
            BY <1>3, <2>1, <2>3 DEF Call
        <3> HIDE DEF d
        <3>2. /\ CallsChain'
              /\ \A k : OnStack(k) => OnStack(k)'
              /\ \A k : Called(k)' <=> Called(k)
            BY <1>0, <1>1, <3>1, PushCall DEF StartInv
        <3>3. failed \subseteq failed'
            BY <2>1
        <3> QED BY <1>0, <3>1, <3>2, <3>3, CallsGoOn
    <2> QED BY <2>2, <2>3
<1>4. CASE d \notin Active /\ d \notin Available
    <2>1. Fails /\ failed' = failed \cup {f.module : f \in Range(stack)}
        BY <1>0, <1>4 DEF SatisfyDependency
    <2>2. failed \subseteq failed' /\ \A m : OnStack(m) => m \in failed' \/ Blocked(m)
        BY <2>1, FailedCalls
    <2> QED BY <1>0, <1>1, <2>1, <2>2, AllFail
<1> QED BY <1>2, <1>3, <1>4

LEMMA FailuresKeepChoices ==
    ASSUME IInv, IInv', StartInv, LibraryFails \/ InitFails PROVE StartInv'
<1>1. /\ stack # <<>> /\ Fails /\ UNCHANGED <<fixed, inUse, todo>>
      /\ failed' = failed \cup {f.module : f \in Range(stack)}
    BY DEF LibraryFails, InitFails
<1>2. Busy
    BY <1>1, TopCall
<1>3. failed \subseteq failed' /\ \A m : OnStack(m) => m \in failed' \/ Blocked(m)
    BY <1>1, FailedCalls
<1> QED BY <1>1, <1>2, <1>3, AllFail

-----------------------------------------------------------------------------
(* A module initialised.                                                   *)

\* The module of the innermost call joins those that are active, none of which
\* is in conflict with it.
LEMMA InitSucceedsGrows ==
    ASSUME IInv, IInv', ConflictInv, StartInv, InitSucceeds
    PROVE  Grows /\ ActiveThere' /\ Active' = Active \cup {Top.module}
<1> DEFINE m == Top.module
<1>0. /\ stack # <<>> /\ Top.left = <<>> /\ m \in Available /\ modules' = Inserted(m)
      /\ installed' = installed /\ failed' = failed /\ dialogs' = dialogs
      /\ Available' = Available
    BY DEF InitSucceeds, fixed, Available
<1>1. /\ Busy /\ m \in Module /\ m \notin Active /\ Range(DependsOf(m)) \subseteq Active
    <2>1. Range(Top.left) = {}
        BY <1>0 DEF Range
    <2> QED BY <1>0, <2>1, TopCall
<1>2. Active' = Active \cup {m} /\ Ghosts' = {} /\ Ghosts = {}
    <2>1. Table /\ phase # "killing" /\ dialogs \in Nat
        BY <1>1, TableOfTypeOK, ModulesAssumption DEF IInv, TypeOK, Busy, ModulesAssumption
    <2>2. m = DialogModule => dialogs = 0
        BY <1>1, <2>1 DEF IInv, PhaseOK
    <2> HIDE DEF m
    <2> QED BY <1>0, <1>1, <2>1, <2>2, InsertModule DEF IInv, Table
<1>3. \A k \in Active : ~InConflict(m, k)
    <2>1. /\ stack \in Seq(Frame) /\ Len(stack) \in Nat \ {0} /\ Top = stack[Len(stack)]
        BY <1>0, TopFrame DEF IInv, TypeOK
    <2>2. CallFits(Top)
        BY <2>1 DEF ConflictInv, CallsFit
    <2> QED BY <1>0, <2>2 DEF CallFits
<1>4. ~ConflictsWithLoaded(m)
    <2>1. \A k \in Active : k \notin ConflictsOf(m)
        BY <1>3 DEF InConflict
    <2>2. \A k \in Active : ConflictsOf(m) \cap Provides[k] = {}
        BY <1>3 DEF InConflict
    <2>3. ASSUME NEW k \in Active \ Ghosts PROVE m \notin Conflicts[k]
        <3>1. ConflictsOf(k) = Conflicts[k]
            BY DEF ConflictsOf, StartInv, ActiveThere
        <3> QED BY <1>3, <3>1 DEF InConflict
    <2> QED BY <2>1, <2>2, <2>3 DEF ConflictsWithLoaded
<1>5. Grows
    <2> HIDE DEF m
    <2> QED BY <1>0, <1>2, <1>4 DEF Grows
<1>6. ActiveThere'
    BY <1>0, <1>2 DEF ActiveThere, StartInv
<1> QED BY <1>2, <1>5, <1>6

\* The calls of which the innermost one returns.
LEMMA PopCall ==
    ASSUME IInv, CallsChain, stack # <<>>, Len(stack) # 1, stack' = Front(stack),
           installed' = installed
    PROVE  /\ CallsChain'
           /\ \A k : Called(k)' <=> Called(k)
           /\ \A k : OnStack(k) => OnStack(k)' \/ k = Top.module
           /\ \E n \in Module : OnStack(n)' /\ Top.module \in Range(DependsOf(n))
<1>1. /\ stack \in Seq(Frame) /\ Len(stack) \in Nat \ {0} /\ Top = stack[Len(stack)]
      /\ Len(stack') = Len(stack) - 1
      /\ \A i \in 1..(Len(stack) - 1) : stack'[i] = stack[i]
      /\ \A i \in 1..Len(stack) : stack[i].module \in Module
    BY TopFrame, StackFacts DEF IInv, TypeOK
<1>2. \A i \in 1..Len(stack') : i \in 1..Len(stack) /\ stack'[i] = stack[i]
    BY <1>1
<1>3. CallsChain'
    <2>1. \A k : DependsOf(k)' = DependsOf(k)
        BY SameDependencies
    <2> QED BY <1>2, <2>1 DEF CallsChain
<1>4. \A k : Called(k)' <=> Called(k)
    <2>1. 1 \in 1..Len(stack) /\ 1 \in 1..Len(stack')
        BY <1>1
    <2> QED BY <1>2, <2>1 DEF Called
<1>5. ASSUME NEW k, OnStack(k) PROVE OnStack(k)' \/ k = Top.module
    <2>1. PICK i \in 1..Len(stack) : stack[i].module = k
        BY <1>5 DEF OnStack
    <2>2. CASE i = Len(stack)
        BY <1>1, <2>1, <2>2
    <2>3. CASE i # Len(stack)
        <3>1. i \in 1..Len(stack')
            BY <1>1, <2>3
        <3> QED BY <1>2, <2>1, <3>1 DEF OnStack
    <2> QED BY <2>2, <2>3
<1>6. \E n \in Module : OnStack(n)' /\ Top.module \in Range(DependsOf(n))
    <2> DEFINE i == Len(stack) - 1
    <2>1. i \in 1..Len(stack') /\ i \in 1..Len(stack) /\ Len(stack) \in 1..Len(stack)
          /\ Len(stack) = i + 1
        BY <1>1
    <2>2. PICK n \in Module : n = stack[i].module
        BY <1>1, <2>1
    <2>3. Top.module \in Range(DependsOf(n))
        BY <1>1, <2>1, <2>2 DEF CallsChain
    <2>4. OnStack(n)'
        BY <1>2, <2>1, <2>2 DEF OnStack
    <2> QED BY <2>3, <2>4
<1> QED BY <1>3, <1>4, <1>5, <1>6

LEMMA InitSucceedsKeepsChoices ==
    ASSUME IInv, IInv', ConflictInv, StartInv, InitSucceeds PROVE StartInv'
<1>0. /\ stack # <<>> /\ installed' = installed /\ lists' = lists /\ todo' = todo
      /\ failed' = failed /\ Busy
    BY TopCall DEF InitSucceeds, fixed
<1>m. PICK m \in Module : m = Top.module
    BY <1>0, TopCall
<1>1. Grows /\ ActiveThere' /\ Active' = Active \cup {m}
    BY <1>m, InitSucceedsGrows
<1>2. /\ \A k : Settled(k) => Settled(k)'
      /\ \A k : Blocked(k) => Blocked(k)'
      /\ \A k : DependsOf(k)' = DependsOf(k)
    BY <1>1, GrowsKeeps
<1>3. /\ stack \in Seq(Frame) /\ Len(stack) \in Nat \ {0} /\ Top = stack[Len(stack)]
    BY <1>0, TopFrame DEF IInv, TypeOK
<1>4. Settled(m)'
    BY <1>1 DEF Settled
<1>5. CASE Len(stack) = 1
    <2>1. /\ stack' = <<>> /\ phase' = IF phase = "loading" THEN "running" ELSE phase
          /\ config' = IF phase = "loading" THEN Saved(modules') ELSE config
        BY <1>5 DEF InitSucceeds, Returned
    <2>2. CallsChain' /\ \A k : ~Called(k)'
        BY <2>1, NoneCalled
    <2>3. \A k : OnStack(k) => k = m
        <3>1. \A i \in 1..Len(stack) : i = Len(stack)
            BY <1>5
        <3> QED BY <1>m, <1>3, <3>1 DEF OnStack
    <2>4. Called(m)
        <3>1. 1 \in 1..Len(stack) /\ stack[1] = Top
            BY <1>3, <1>5
        <3> QED BY <1>m, <3>1 DEF Called
    <2>5. CASE phase = "loading"
        BY <1>0, <1>1, <2>1, <2>5, NotStartingKeeps DEF Starting
    <2>6. CASE phase # "loading"
        <3>1. phase' = phase /\ config' = config /\ Starting /\ Starting'
            BY <1>0, <2>1, <2>6 DEF Starting, Busy
        <3>2. ListsDiffer' /\ TodoFits' /\ CalledIsAskedFor'
            BY <1>0, <2>2, <3>1 DEF ListsDiffer, TodoFits, CalledIsAskedFor, StartInv
        <3>3. ChosenAreSettled'
            <4>1. \A k : Visited(k)' <=> Visited(k)
                BY <1>0, <3>1 DEF Visited
            <4>2. \A k : Called(k) => k = m
                BY <2>3, StackFacts
            <4> QED BY <1>0, <1>2, <1>4, <4>1, <4>2 DEF ChosenAreSettled, StartInv
        <3>4. ASSUME NEW k \in (Active' \ StaticModules) \cap lists.unloaded
              PROVE  \E n \in Module : Reason(n, k)'
            <4>1. k # m
                BY <2>4, <3>1, <3>4 DEF StartInv, CalledIsAskedFor
            <4>2. PICK n \in Module : Reason(n, k)
                BY <1>1, <3>1, <3>4, <4>1 DEF StartInv, OthersHaveReasons
            <4>3. OnStack(n) => n \in Active'
                BY <1>1, <2>3
            <4>4. Reason(n, k)'
                BY <1>0, <1>1, <1>2, <4>2, <4>3 DEF Reason
            <4> QED BY <4>4
        <3>5. OthersHaveReasons'
            BY <1>0, <3>4 DEF OthersHaveReasons
        <3> QED BY <1>1, <2>2, <3>2, <3>3, <3>5 DEF StartInv
    <2> QED BY <2>5, <2>6
<1>6. CASE Len(stack) # 1
    <2>1. stack' = Front(stack) /\ phase' = phase /\ config' = config
        BY <1>6 DEF InitSucceeds
    <2>2. /\ CallsChain'
          /\ \A k : Called(k)' <=> Called(k)
          /\ \A k : OnStack(k) => OnStack(k)' \/ k = m
          /\ \E n \in Module : OnStack(n)' /\ m \in Range(DependsOf(n))
        BY <1>m, <1>0, <1>6, <2>1, PopCall DEF StartInv
    <2>3. ListsDiffer' /\ TodoFits' /\ CalledIsAskedFor'
        BY <1>0, <2>1, <2>2 DEF ListsDiffer, TodoFits, CalledIsAskedFor, StartInv, Starting
    <2>4. ChosenAreSettled'
        <3>1. \A k : Visited(k)' <=> Visited(k)
            BY <1>0, <2>1 DEF Visited
        <3> QED BY <1>0, <1>2, <2>2, <3>1 DEF ChosenAreSettled, StartInv
    <2>5. ASSUME Starting, NEW k \in (Active' \ StaticModules) \cap lists.unloaded
          PROVE  \E n \in Module : Reason(n, k)'
        <3>1. CASE k = m
            <4>1. PICK n \in Module : OnStack(n)' /\ m \in Range(DependsOf(n))
                BY <2>2
            <4>2. Reason(n, k)'
                BY <1>2, <3>1, <4>1 DEF Reason
            <4> QED BY <4>2
        <3>2. CASE k # m
            <4>1. PICK n \in Module : Reason(n, k)
                BY <1>1, <2>5, <3>2 DEF StartInv, OthersHaveReasons
            <4>2. OnStack(n) => OnStack(n)' \/ n \in Active'
                BY <1>1, <2>2
            <4>3. Reason(n, k)'
                BY <1>0, <1>1, <1>2, <4>1, <4>2 DEF Reason
            <4> QED BY <4>3
        <3> QED BY <3>1, <3>2
    <2>6. OthersHaveReasons'
        <3>1. Starting' <=> Starting
            BY <2>1 DEF Starting
        <3> QED BY <1>0, <2>5, <3>1 DEF OthersHaveReasons
    <2> QED BY <1>1, <2>2, <2>3, <2>4, <2>6 DEF StartInv
<1> QED BY <1>5, <1>6

-----------------------------------------------------------------------------
(* The loops.                                                              *)

\* A loop asks for what the configuration does not forbid.
LEMMA AskedFor ==
    ASSUME StartInv, Starting, NEW m \in todo, ShouldActivate(m)
    PROVE  m \notin lists.unloaded \ StaticModules /\ m \notin Active
<1>1. CASE phase = "protocols"
    BY <1>1 DEF ShouldActivate, Wanted, StartInv, ListsDiffer
<1>2. CASE phase = "static"
    BY <1>2 DEF ShouldActivate, StartInv, TodoFits
<1>3. CASE phase = "dynamic"
    BY <1>3 DEF ShouldActivate, Wanted, StartInv, ListsDiffer
<1>4. CASE phase = "replaced"
    BY <1>4 DEF ShouldActivate, StartInv, TodoFits, ListsDiffer
<1> QED BY <1>1, <1>2, <1>3, <1>4 DEF Starting

\* What a loop passes over although it was chosen is loaded, or is not its business.
LEMMA PassedOver ==
    ASSUME Starting, NEW m \in todo, m \in lists.loaded, ~ShouldActivate(m)
    PROVE  m \in Active \/ Visited(m) \/ phase = "static"
<1>1. CASE phase = "protocols"
    BY <1>1 DEF ShouldActivate, Wanted
<1>2. CASE phase = "dynamic"
    BY <1>2 DEF ShouldActivate, Wanted, Visited
<1>3. CASE phase = "replaced"
    BY <1>3 DEF Visited
<1> QED BY <1>1, <1>2, <1>3 DEF Starting

\* Of what was chosen only m has been visited since.
LEMMA OneMoreVisited ==
    ASSUME ChosenAreSettled, stack = <<>>, NEW m, todo' = todo \ {m}, phase' = phase,
           installed' = installed, lists' = lists,
           \A k : Settled(k) => Settled(k)',
           Settled(m)' \/ Called(m)' \/ m \notin lists.loaded \/ Visited(m) \/ phase = "static"
    PROVE  ChosenAreSettled'
<1>1. ASSUME NEW k \in lists.loaded \cap installed, Visited(k)'
      PROVE  Settled(k)' \/ Called(k)'
    <2>1. ~Called(k)
        BY NoneCalled
    <2>2. CASE Visited(k)
        BY <1>1, <2>1, <2>2 DEF ChosenAreSettled
    <2>3. CASE ~Visited(k)
        <3>1. k = m /\ phase # "static"
            BY <1>1, <2>3 DEF Visited
        <3> QED BY <1>1, <2>3, <3>1
    <2> QED BY <2>2, <2>3
<1> QED BY <1>1 DEF ChosenAreSettled

LEMMA VisitKeepsChoices ==
    ASSUME IInv, IInv', StartInv, NEW m \in todo, Visit(m) PROVE StartInv'
<1>0. /\ stack = <<>> /\ todo' = todo \ {m} /\ m \in Module
      /\ installed' = installed /\ lists' = lists /\ modules' = modules
      /\ failed \subseteq failed'
    BY DEF Visit, IInv, TypeOK, fixed, inUse
<1>1. Busy
    BY PhaseNames DEF Visit, Busy
<1>2. /\ \A k : ~OnStack(k) /\ ~Called(k)
      /\ Active' = Active
    BY <1>0, NoneCalled, SameActive
<1>3. ASSUME phase' = phase, config' = config
      PROVE  /\ ActiveThere' /\ ListsDiffer' /\ OthersHaveReasons' /\ TodoFits'
             /\ \A k : Settled(k) => Settled(k)'
             /\ ConflictsWithLoaded(m) => Settled(m)'
    <2>1. TodoFits'
        BY <1>0, <1>3 DEF TodoFits, StartInv
    <2>2. \A k : OnStack(k) => OnStack(k)' \/ k \in failed' \/ Blocked(k)
        BY <1>2
    <2>3. /\ ActiveThere' /\ ListsDiffer' /\ OthersHaveReasons'
          /\ \A k : Settled(k) => Settled(k)'
          /\ \A k : ConflictsWithLoaded(k) => Settled(k)'
        BY <1>0, <1>3, <2>2, SameReasons
    <2> QED BY <2>1, <2>3
<1>4. CASE ~ShouldActivate(m)
    <2>1. phase' = phase /\ config' = config /\ stack' = stack
        BY <1>4 DEF Visit
    <2>2. CallsChain' /\ \A k : ~Called(k)'
        BY <1>0, <2>1, NoneCalled
    <2>3. Starting
        BY <1>1, <1>4 DEF Busy, Starting, ShouldActivate
    <2>4. m \in Active => Settled(m)'
        BY <1>2 DEF Settled
    <2>5. Settled(m)' \/ Called(m)' \/ m \notin lists.loaded \/ Visited(m) \/ phase = "static"
        BY <1>4, <2>3, <2>4, PassedOver
    <2>6. ChosenAreSettled'
        BY <1>0, <1>3, <2>1, <2>5, OneMoreVisited DEF StartInv
    <2>7. CalledIsAskedFor'
        BY <2>2 DEF CalledIsAskedFor
    <2> QED BY <1>3, <2>1, <2>2, <2>6, <2>7 DEF StartInv
<1>5. CASE ShouldActivate(m) /\ (m \in Active \/ ConflictsWithLoaded(m))
    <2>1. /\ stack' = <<>> /\ phase' = IF phase = "loading" THEN "running" ELSE phase
          /\ config' = IF phase = "loading" THEN Saved(modules) ELSE config
        BY <1>5 DEF Visit, Call, Fails, Returned
    <2>2. CallsChain' /\ \A k : ~Called(k)'
        BY <2>1, NoneCalled
    <2>3. CASE phase = "loading"
        <3>1. ActiveThere'
            BY <1>0, SameTableGrows DEF StartInv
        <3> QED BY <1>0, <2>1, <2>3, <3>1, NotStartingKeeps DEF Starting
    <2>4. CASE phase # "loading"
        <3>1. phase' = phase /\ config' = config /\ Starting
            BY <1>1, <2>1, <2>4 DEF Busy, Starting
        <3>2. Settled(m)'
            BY <1>3, <1>5, <3>1, AskedFor
        <3>3. ChosenAreSettled'
            BY <1>0, <1>3, <3>1, <3>2, OneMoreVisited DEF StartInv
        <3>4. CalledIsAskedFor'
            BY <2>2 DEF CalledIsAskedFor
        <3> QED BY <1>3, <2>2, <3>1, <3>3, <3>4 DEF StartInv
    <2> QED BY <2>3, <2>4
<1>6. CASE ShouldActivate(m) /\ ~(m \in Active \/ ConflictsWithLoaded(m))
    <2>1. /\ stack' = Append(stack, [module |-> m, left |-> DependsOf(m)])
          /\ phase' = phase /\ config' = config
        BY <1>6 DEF Visit, Call
    <2>2. CallsChain' /\ \A k : Called(k)' <=> k = m
        BY <1>0, <2>1, PushCall DEF StartInv
    <2>3. ChosenAreSettled'
        BY <1>0, <1>3, <2>1, <2>2, OneMoreVisited DEF StartInv
    <2>4. CalledIsAskedFor'
        <3>1. ASSUME Starting PROVE m \notin lists.unloaded \ StaticModules
            BY <1>6, <3>1, AskedFor
        <3>2. Starting' <=> Starting
            BY <2>1 DEF Starting
        <3> QED BY <1>0, <2>2, <3>1, <3>2 DEF CalledIsAskedFor
    <2> QED BY <1>3, <2>1, <2>2, <2>3, <2>4 DEF StartInv
<1> QED BY <1>4, <1>5, <1>6

LEMMA NextLoopKeepsChoices ==
    ASSUME IInv, IInv', StartInv, NextLoop PROVE StartInv'
<1>1. /\ stack = <<>> /\ stack' = <<>> /\ todo = {} /\ lists' = lists /\ failed' = failed
      /\ installed' = installed /\ modules' = modules /\ config' = config
    BY DEF NextLoop, fixed, inUse
<1>2. /\ CallsChain'
      /\ \A k : ~Called(k) /\ ~OnStack(k) /\ ~Called(k)'
    BY <1>1, NoneCalled
<1>3. Grows /\ ActiveThere' /\ Active' = Active
    BY <1>1, SameTableGrows, SameActive DEF StartInv
<1>4. /\ \A k : Settled(k) => Settled(k)'
      /\ \A k : Blocked(k) => Blocked(k)'
      /\ \A k : DependsOf(k)' = DependsOf(k)
    BY <1>3, GrowsKeeps
<1>5. /\ Starting
      /\ phase' = "static" => phase = "protocols" /\ todo' = StaticModules
      /\ phase' = "dynamic" => phase = "static" /\ todo' = installed
      /\ phase' = "replaced" => phase = "dynamic" /\ todo' = lists.loaded
      /\ phase' \in {"static", "dynamic", "replaced"}
    BY DEF NextLoop, Starting
<1>6. ListsDiffer' /\ TodoFits' /\ CalledIsAskedFor'
    BY <1>1, <1>2, <1>5 DEF ListsDiffer, TodoFits, CalledIsAskedFor, StartInv
<1>7. ChosenAreSettled'
    <2>1. \A k \in installed : Visited(k)' => Visited(k)
        BY <1>1, <1>5 DEF Visited
    <2> QED BY <1>1, <1>2, <1>4, <2>1 DEF ChosenAreSettled, StartInv
<1>8. ASSUME NEW n, NEW m, Reason(n, m) PROVE Reason(n, m)'
    BY <1>1, <1>2, <1>3, <1>4, <1>8 DEF Reason
<1>9. OthersHaveReasons'
    BY <1>1, <1>3, <1>5, <1>8 DEF OthersHaveReasons, StartInv
<1> QED BY <1>2, <1>3, <1>6, <1>7, <1>9 DEF StartInv

LEMMA StartKeepsChoices ==
    ASSUME IInv, IInv', StartInv, Start PROVE StartInv'
<1>1. /\ stack' = <<>> /\ installed' = installed /\ modules' = modules /\ config' = config
      /\ phase' = "protocols" /\ todo' = Protocols \cap Available
    BY DEF Start, inUse, IInv, PhaseOK
<1>2. Active' = {}
    BY <1>1, SameActive DEF Start, IInv, PhaseOK
<1>3. ActiveThere' /\ CallsChain' /\ \A k : ~Called(k)'
    BY <1>1, <1>2, NoneCalled DEF ActiveThere
<1>4. ListsDiffer'
    <2>1. lists'.loaded \cap lists'.unloaded = {}
        BY DEF Start, StartInv, ListsDiffer
    <2> QED BY <1>1, <2>1 DEF StartInv, ListsDiffer
<1>5. TodoFits' /\ CalledIsAskedFor' /\ OthersHaveReasons'
    BY <1>1, <1>2, <1>3 DEF TodoFits, CalledIsAskedFor, OthersHaveReasons
<1>6. ChosenAreSettled'
    BY <1>1 DEF ChosenAreSettled, Visited, Available
<1> QED BY <1>3, <1>4, <1>5, <1>6 DEF StartInv

\* Outside of a start no module becomes active.
LEMMA OthersKeepChoices ==
    ASSUME IInv', StartInv, ~Starting', stack' = <<>>, lists' = lists,
           config' = config \/ \E table : config' = Saved(table),
           installed' = installed, Active' \ Ghosts' \subseteq Active \ Ghosts
    PROVE  StartInv'
<1>1. ActiveThere'
    BY DEF ActiveThere, StartInv, Available
<1> QED BY <1>1, NotStartingKeeps

LEMMA NextStartInv ==
    IInv /\ IInv' /\ ConflictInv /\ StartInv /\ [Next]_vars => StartInv'
<1> SUFFICES ASSUME IInv, IInv', ConflictInv, StartInv, [Next]_vars PROVE StartInv'
    OBVIOUS
<1>0. modules \in [Active -> Entry]
    BY TableIsTyped DEF IInv
<1>1. CASE Activation
    BY <1>1, SatisfyDependencyKeepsChoices, FailuresKeepChoices, InitSucceedsKeepsChoices
        DEF Activation
<1>2. CASE (\E m \in todo : Visit(m)) \/ NextLoop \/ Start
    BY <1>2, VisitKeepsChoices, NextLoopKeepsChoices, StartKeepsChoices
<1>3. CASE StartupEnds \/ Quit \/ UnloadAgain \/ \E m \in Module : UserLoads(m)
    <2>1. stack = <<>>
        BY <1>3 DEF StartupEnds, Quit, UnloadAgain, UserLoads, IInv, PhaseOK
    <2>2. /\ stack' = stack /\ installed' = installed /\ lists' = lists /\ modules' = modules
          /\ phase' \in {"running", "loading", "unloading", "killing"}
          /\ config' = config \/ config' = Saved(modules)
        BY <1>3 DEF StartupEnds, Quit, UnloadAgain, UserLoads, fixed, inUse
    <2> QED BY <2>1, <2>2, SameActive, OthersKeepChoices DEF Starting
<1>4. ASSUME NEW m \in Module, UserUnloads(m) PROVE StartInv'
    <2>1. /\ stack = <<>> /\ stack' = stack /\ installed' = installed /\ lists' = lists
          /\ phase' = "running" /\ config' = Saved(modules')
          /\ modules' = modules \/ modules' = Removed(m)
        BY <1>4 DEF UserUnloads, fixed, IInv, PhaseOK
    <2>2. Active' \ Ghosts' \subseteq Active \ Ghosts
        BY <1>0, <2>1, SameActive, RemovedActive
    <2> QED BY <2>1, <2>2, OthersKeepChoices DEF Starting
<1>5. ASSUME NEW m \in todo, UnloadUnused(m) \/ Kill(m) PROVE StartInv'
    <2>1. /\ stack = <<>> /\ stack' = stack /\ installed' = installed /\ lists' = lists
          /\ phase' \in {"unloading", "killing"} /\ config' = config
          /\ modules' = modules \/ modules' = Removed(m)
        BY <1>5 DEF UnloadUnused, Kill, fixed, IInv, PhaseOK
    <2>2. Active' \ Ghosts' \subseteq Active \ Ghosts
        BY <1>0, <2>1, SameActive, RemovedActive
    <2> QED BY <2>1, <2>2, OthersKeepChoices DEF Starting
<1>6. CASE OpenDialog \/ CloseDialog
    <2>1. /\ stack = <<>> /\ stack' = stack /\ installed' = installed /\ lists' = lists
          /\ phase' = "running" /\ config' = config
          /\ Active' = Active
        <3>1. DialogModule \in Active
            BY <1>6 DEF OpenDialog, CloseDialog, IInv, PhaseOK, TypeOK
        <3>2. /\ stack = <<>> /\ stack' = stack /\ UNCHANGED fixed
              /\ phase' = "running" /\ config' = config
              /\ \E n \in {1, -1} : modules' = AddUsage(modules, {DialogModule}, n)
            BY <1>6 DEF OpenDialog, CloseDialog, IInv, PhaseOK
        <3>3. Active' = Active
            BY <3>1, <3>2 DEF AddUsage, Active
        <3> QED BY <3>2, <3>3 DEF fixed
    <2>2. Ghosts' = {} /\ Active \ Ghosts = Active
        BY <1>6, <2>1 DEF IInv, TypeOK, OpenDialog, CloseDialog
    <2>3. Active' \ Ghosts' \subseteq Active \ Ghosts
        BY <2>1, <2>2
    <2> QED BY <2>1, <2>3, OthersKeepChoices DEF Starting
<1>7. CASE Ends
    <2>1. /\ stack' = <<>> /\ installed' = installed /\ lists' = lists /\ config' = config
          /\ phase' = "off" /\ Active' = {}
        BY <1>7 DEF Ends, fixed, Active
    <2> QED BY <2>1, OthersKeepChoices DEF Starting
<1>8. CASE Upgrade
    <2>1. /\ stack' = <<>> /\ lists' = lists /\ config' = config /\ phase' = "off"
          /\ Active' = {}
        BY <1>8 DEF Upgrade, IInv, PhaseOK, inUse, Active
    <2>2. ActiveThere'
        BY <2>1 DEF ActiveThere
    <2> QED BY <2>1, <2>2, NotStartingKeeps DEF Starting
<1>9. CASE UNCHANGED vars
    <2>1. /\ stack' = stack /\ installed' = installed /\ lists' = lists /\ modules' = modules
          /\ phase' = phase /\ config' = config /\ todo' = todo /\ failed' = failed
        BY <1>9 DEF vars
    <2>2. /\ CallsChain'
          /\ \A k : (OnStack(k)' <=> OnStack(k)) /\ (Called(k)' <=> Called(k))
        <3>1. \A k : DependsOf(k)' = DependsOf(k)
            BY <2>1, SameDependencies
        <3> QED BY <2>1, <3>1 DEF CallsChain, OnStack, Called, StartInv
    <2> QED BY <2>1, <2>2, CallsGoOn
<1> QED BY <1>1, <1>2, <1>3, <1>4, <1>5, <1>6, <1>7, <1>8, <1>9
        DEF Next, Startup, User, Unloading, Exit, Crash

LEMMA InitStartInv == Init => StartInv
<1> SUFFICES ASSUME Init PROVE StartInv
    OBVIOUS
<1>1. Active = {} /\ 1..Len(stack) = {}
    BY DEF Init, Active
<1>2. ActiveThere /\ CallsChain
    BY <1>1 DEF ActiveThere, CallsChain
<1>3. ListsDiffer /\ TodoFits /\ CalledIsAskedFor /\ ChosenAreSettled /\ OthersHaveReasons
    BY DEF Init, ListsDiffer, TodoFits, CalledIsAskedFor, ChosenAreSettled, OthersHaveReasons,
           Starting, Visited
<1> QED BY <1>2, <1>3 DEF StartInv

\* At the end of a start all loops have come to all modules.
LEMMA EndOfStart ==
    ASSUME StartInv, StartupEnds
    PROVE  ChosenModulesLoaded /\ UnloadedStaysUnloaded
<1>1. phase = "replaced" /\ stack = <<>> /\ \A k : ~Called(k) /\ ~OnStack(k)
    BY NoneCalled DEF StartupEnds
<1>2. ChosenModulesLoaded
    <2>1. \A m \in lists.loaded \cap installed : Settled(m)
        BY <1>1 DEF StartInv, ChosenAreSettled, Visited
    <2> QED BY <2>1 DEF ChosenModulesLoaded, Settled, Hopeless
<1>3. UnloadedStaysUnloaded
    <2>1. \A m \in LoadedModules \cap lists.unloaded : \E n \in Module : Reason(n, m)
        BY <1>1 DEF StartInv, OthersHaveReasons, Starting, LoadedModules
    <2> QED BY <1>1, <2>1 DEF UnloadedStaysUnloaded, Reason
<1> QED BY <1>2, <1>3

\* When a start ends, each module that was loaded when the configuration was saved
\* last and is still there is loaded, unless it could not be; and each one that was
\* not is loaded only for a module that depends on it.
THEOREM StartsFollowChoices == Spec => StartFollowsChoices
<1>1. Init => ConflictInv /\ StartInv
    BY InitConflictInv, InitStartInv
<1>2. IInv /\ IInv' /\ ConflictInv /\ StartInv /\ [Next]_vars => ConflictInv' /\ StartInv'
    BY NextConflictInv, NextStartInv
<1>3. StartInv => (StartupEnds => ChosenModulesLoaded /\ UnloadedStaysUnloaded)
    BY EndOfStart
<1> QED BY <1>1, <1>2, <1>3, ModulesInvariance, PTL DEF Spec, StartFollowsChoices
=============================================================================
