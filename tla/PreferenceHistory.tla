-------------------------- MODULE PreferenceHistory --------------------------
(***************************************************************************)
(* A preference is a bare deadline. This module remembers how each came to *)
(* be, as the network knows it: which address really carried the verified  *)
(* connection that taught it, and when.                                    *)
(***************************************************************************)
EXTENDS MCNetworkPreference

VARIABLE lesson   \* per target, what taught the preference it has

NoLesson == [at |-> 0, through |-> {}, cancels |-> FALSE]

HistoryInit == Init /\ lesson = [t \in Targets |-> NoLesson]

Taught(c) ==
    [at      |-> readAt[c],
     through |-> Path(c, paths[c].dialed),
     cancels |-> c \in CleansUp]

\* The constructor whose connection the step remembers.
Teachers == {c \in Constructors : stage[c] = "verified" /\ stage'[c] = "none"}

HistoryNext ==
    /\ Next
    /\ lesson' = [t \in Targets |->
         IF preferences'[t] = 0 THEN NoLesson
         ELSE IF preferences'[t] > preferences[t] /\ Teachers # {}
         THEN Taught(CHOOSE c \in Teachers : TRUE)
         ELSE lesson[t]]

HistorySpec == HistoryInit /\ [][HistoryNext]_<<vars, lesson>>

-----------------------------------------------------------------------------

\* Where pgx sends no CancelRequest, a preference was taught by a connection that
\* passed every check through an address of the external network alone
\* (network_preference.go:66-69, docs/hardening.md: "a successfully verified
\* external connection teaches").
PreferencesAreVerified ==
    \A t \in Known : lesson[t].cancels \/ lesson[t].through = {"external"}

\* It ends a TTL after that connection, however often it is used meanwhile.
PreferencesEndOnTime ==
    \A t \in Known : preferences[t] = lesson[t].at + PreferenceTTL
=============================================================================
