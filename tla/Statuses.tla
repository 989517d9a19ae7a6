------------------------------ MODULE Statuses ------------------------------
(***************************************************************************)
(* Status values (kadu-core/status/status.cpp) and the one status changer  *)
(* that rewrites the status the user chose while the user is idle          *)
(* (modules/autoaway).  A status is a type and a description; its group    *)
(* follows from its type.  FreeForChat and DoNotDisturb behave like Online *)
(* and Away everywhere in the modelled code and are left out.              *)
(***************************************************************************)
CONSTANTS Descriptions,  \* the descriptions a user may set
          NoDescription  \* the empty one

ASSUME DescriptionsAssumption == NoDescription \in Descriptions

StatusTypes == {"Online", "Away", "NotAvailable", "Invisible", "Offline"}

Status == [type : StatusTypes, description : Descriptions]

\* Status(): the default constructor.
OfflineStatus == [type |-> "Offline", description |-> NoDescription]

Group(s) == IF s.type = "NotAvailable" THEN "Away" ELSE s.type

IsDisconnected(s) == Group(s) = "Offline"

\* What AutoAway::changeStatusTo makes of the idle time.
IdleModes == {"NoChange", "Busy", "ExtendedAway", "Invisible", "Offline"}

IdleType == [ Busy |-> "Away", ExtendedAway |-> "NotAvailable",
              Invisible |-> "Invisible", Offline |-> "Offline" ]

\* The changer lowers a status, and only as far as the mode is beyond it:
\* an invisible user is not made away, an away user not busier.
LeftAlone(mode, s) ==
  \/ mode = "NoChange"
  \/ IsDisconnected(s)
  \/ mode # "Offline" /\ Group(s) = "Invisible"
  \/ mode \in {"Busy", "ExtendedAway"} /\ Group(s) = "Away"

\* StatusChanger::changeStatus, with the default "do not change description".
Changed(mode, s) ==
  IF LeftAlone(mode, s) THEN s ELSE [s EXCEPT !.type = IdleType[mode]]
=============================================================================
