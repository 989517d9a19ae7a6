--------------------------- MODULE AccountSession ---------------------------
(***************************************************************************)
(* What an account promises to the rest of the program about its sessions  *)
(* with the server, however its protocol goes about it: the abstract       *)
(* specification GaduConnection implements, and the environment in which   *)
(* GaduServices is checked.                                                *)
(*                                                                         *)
(* Of the user's wish and of the shown status only "online or not" is      *)
(* kept; of retries and of questions for a password only whether there are *)
(* any.                                                                    *)
(***************************************************************************)
VARIABLES link,      \* "none", "logging" in, "up"
          wanted,    \* the user, or idleness on the user's behalf, wants to be online
          shown,     \* the account is shown as online
          retry,     \* a retry is due
          question   \* the user is being asked, or about to be asked, for a password

sessionVars == <<link, wanted, shown, retry, question>>

SessionInit ==
  /\ link = "none"
  /\ wanted = FALSE /\ shown = FALSE
  /\ retry = FALSE /\ question = FALSE

\* A login begins because the user wants it, a retry is due, or the user was
\* asked for a password.
Begin ==
  /\ link = "none" /\ link' = "logging"
  /\ wanted' \/ retry \/ question
  /\ retry' => retry
  /\ UNCHANGED shown

\* A login ends with what the user wanted shown.
Succeed ==
  /\ link = "logging" /\ link' = "up"
  /\ shown' = wanted
  /\ UNCHANGED <<wanted, retry, question>>

\* A session or a login is lost.  It is not forgotten, unless the wish is.
Lose ==
  /\ link # "none" /\ link' = "none"
  /\ wanted' => wanted /\ (retry' \/ question')
  /\ shown' = FALSE

\* Someone shown online is shown so until the wish is withdrawn, which ends
\* the session at once (Lose), or the session is lost.  Meanwhile the wish may
\* come and go behind a login, and questions and retries be used up.
Carry ==
  /\ UNCHANGED <<link, shown>>
  /\ shown => wanted'
  /\ retry' => retry

SessionNext == Begin \/ Succeed \/ Lose \/ Carry

SessionSpec == SessionInit /\ [][SessionNext]_sessionVars
=============================================================================
