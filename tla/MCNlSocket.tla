----------------------------- MODULE MCNlSocket -----------------------------
(***************************************************************************)
(* Instances of NlSocket for TLC.                                          *)
(***************************************************************************)
EXTENDS NlSocket

\* Usages of the runs.
Members == {"membership"}
Abusive == {"nest", "throw", "reconfigure", "resend", "sendfail", "overrun"}
Failing == {"sendfail"}
=============================================================================
