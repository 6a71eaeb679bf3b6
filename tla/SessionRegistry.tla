--------------------------- MODULE SessionRegistry ---------------------------
(***************************************************************************)
(* What the web service promises of logins, whatever fails between a       *)
(* change in memory and its file: a session is granted once, for a login   *)
(* that nothing voided while its password was on the way, and costs no     *)
(* other session; one that ended does not come back, unless its end could  *)
(* not be written down and the service restarts; a new password ends them  *)
(* all for good.                                                           *)
(***************************************************************************)
EXTENDS Naturals

CONSTANTS
  Tokens,  \* sessions there may be
  Logins   \* logins under way at a time

VARIABLES
  owner,    \* the password in force; 0 before the first setup
  sessions, \* sessions that are accepted
  ending,   \* those refused until a restart may bring them back
  granted,  \* those ever granted
  ask       \* login: none, asked, or void

vars == <<owner, sessions, ending, granted, ask>>

Init ==
  /\ owner = 0
  /\ sessions = {} /\ ending = {} /\ granted = {}
  /\ ask = [l \in Logins |-> "none"]

Ask(l) ==
  /\ ask[l] = "none"
  /\ ask' = [ask EXCEPT ![l] = "asked"]
  /\ UNCHANGED <<owner, sessions, ending, granted>>

\* Only the first grant also sets the password.
Grant(l, t) ==
  /\ ask[l] # "void" /\ t \notin granted
  /\ granted' = granted \union {t}
  /\ sessions' = sessions \union {t}
  /\ ending' \in SUBSET ending
  /\ ask' = [ask EXCEPT ![l] = "none"]
  /\ owner' = IF owner = 0 THEN 1 ELSE owner

Refuse(l) ==
  /\ ask[l] # "none"
  /\ ask' = [ask EXCEPT ![l] = "none"]
  /\ UNCHANGED <<owner, sessions, ending, granted>>

Voided == [l \in Logins |-> IF ask[l] = "none" THEN "none" ELSE "void"]

\* A restart forgets the logins under way.
Forgotten == [l \in Logins |-> "none"]

\* Sessions expire or are revoked, which may void every login under way.
End ==
  /\ sessions' \in SUBSET sessions
  /\ ending' \in SUBSET (ending \union (sessions \ sessions'))
  /\ ask' \in {ask, Voided}
  /\ UNCHANGED <<owner, granted>>

SetPassword ==
  /\ owner' = owner + 1
  /\ sessions' = {} /\ ending' = {}
  /\ ask' \in {Voided, Forgotten}
  /\ UNCHANGED granted

Restart ==
  /\ sessions' \in SUBSET (sessions \union ending)
  /\ ending' = {}
  /\ ask' = Forgotten
  /\ UNCHANGED <<owner, granted>>

Next ==
  \/ \E l \in Logins : Ask(l) \/ Refuse(l) \/ \E t \in Tokens : Grant(l, t)
  \/ End \/ SetPassword \/ Restart

Spec == Init /\ [][Next]_vars
=============================================================================
