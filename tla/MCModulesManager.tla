-------------------------- MODULE MCModulesManager --------------------------
(***************************************************************************)
(* Constants for TLC, taken from the .desc files of the repository.  There *)
(* are two families of libraries; an installation has one of them, and an  *)
(* upgrade stays within the family.                                        *)
(***************************************************************************)
EXTENDS ModulesManager

\* The history modules: a chain of dependencies, and two users of one module.
HistoryModules == {"gadu_protocol", "history", "history_migration", "sms", "sql_history"}
HistoryReleases == {HistoryModules, HistoryModules \ {"history"}, {"history", "sms"}}
HistoryEnsured == {"gadu_protocol", "sql_history", "history_migration"}

\* Modules that exclude each other by a feature, and of which one replaces
\* another of an older version; what they depend on, "docking", is compiled in.
DockingMethods == {"qt4_docking", "x11_docking"}
DockingModules == DockingMethods \cup {"qt4_docking_notify"}
DockingReleases ==
    {DockingModules, DockingModules \ {"qt4_docking"}, DockingModules \ {"x11_docking"}}

Order ==
    <<"docking", "gadu_protocol", "history", "history_migration",
      "qt4_docking", "qt4_docking_notify", "sms", "sql_history", "x11_docking">>
AllModules == ToSet(Order)
OrderPosition == [m \in AllModules |-> CHOOSE i \in DOMAIN Order : Order[i] = m]

AllDepends ==
    [m \in AllModules |->
        CASE m = "history_migration" -> <<"gadu_protocol", "sql_history">>
          [] m \in {"sql_history", "sms"} -> <<"history">>
          [] m \in DockingMethods -> <<"docking">>
          [] m = "qt4_docking_notify" -> <<"qt4_docking">>
          [] OTHER -> <<>>]
DependsRank ==
    [m \in AllModules |->
        CASE m \in {"history_migration", "qt4_docking_notify"} -> 2
          [] m \in {"sql_history", "sms"} \cup DockingMethods -> 1
          [] OTHER -> 0]

AllProvides == [m \in AllModules |-> IF m \in DockingMethods THEN {"docking_method"} ELSE {}]
AllConflicts == AllProvides
AllReplaces == [m \in AllModules |-> IF m = "qt4_docking" THEN {"x11_docking"} ELSE {}]
Defaults == HistoryModules \cup {"qt4_docking"}

AllReleases == HistoryReleases \cup DockingReleases
Families == (HistoryReleases \X HistoryReleases) \cup (DockingReleases \X DockingReleases)
DockingUpgrades == DockingReleases \X DockingReleases
=============================================================================
