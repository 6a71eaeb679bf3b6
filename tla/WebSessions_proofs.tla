------------------------- MODULE WebSessions_proofs -------------------------
(***************************************************************************)
(* Proof that WebSessions implements SessionRegistry, for every number of  *)
(* sessions, passwords, failing writes, logins and streams.                *)
(*                                                                         *)
(* What it needs beyond types is that sessions.json is never ahead of      *)
(* admin.json: a password just set is one no file was saved under.         *)
(***************************************************************************)
EXTENDS WebSessions, TLAPS

\* The file of the sessions was saved under the password in force or an earlier one.
NotAhead == saved.admin <= admin

Inductive == TypeOK /\ NotAhead

Pending == [path : {"setup", "login"}, valid : BOOLEAN]
Open    == [token : 1..issued, registered : BOOLEAN]

-----------------------------------------------------------------------------
(* Lemmas about the helpers of the handlers.                               *)

\* None stands for no login and no stream, and for nothing else.
LEMMA NoneApart ==
  /\ None \notin Pending
  /\ Inductive => None \notin Open
<1>1. None \notin Pending
  BY ConstantsAssumption DEF Pending
<1>2. ASSUME Inductive PROVE Open \subseteq [token : Tokens, registered : BOOLEAN]
  BY <1>2, ConstantsAssumption DEF Inductive, TypeOK, Open, Tokens
<1> QED
  BY <1>1, <1>2, ConstantsAssumption

\* Voiding the logins under way keeps which there are, and their paths.
LEMMA VoidedTypes ==
  ASSUME begun \in [Logins -> {None} \union Pending]
  PROVE  /\ Voided \in [Logins -> {None} \union Pending]
         /\ \A l \in Logins : Voided[l] = None <=> begun[l] = None
         /\ \A l \in Logins : begun[l] # None =>
              Voided[l].path = begun[l].path /\ ~Voided[l].valid
<1> SUFFICES ASSUME NEW l \in Logins
             PROVE  /\ Voided[l] \in {None} \union Pending
                    /\ Voided[l] = None <=> begun[l] = None
                    /\ begun[l] # None =>
                         Voided[l].path = begun[l].path /\ ~Voided[l].valid
  BY DEF Voided
<1>1. CASE begun[l] = None
  BY <1>1 DEF Voided
<1>2. CASE begun[l] # None
  <2>1. begun[l] \in Pending
    BY <1>2
  <2>2. Voided[l] = [begun[l] EXCEPT !.valid = FALSE]
    BY <1>2 DEF Voided
  <2>3. Voided[l] \in Pending /\ Voided[l].path = begun[l].path /\ ~Voided[l].valid
    BY <2>1, <2>2 DEF Pending
  <2> QED
    BY <1>2, <2>3, NoneApart
<1> QED
  BY <1>1, <1>2

\* A save, which sees the new password and sessions, keeps the file's type and puts it
\* level with admin.json, or leaves it alone.
LEMMA SaveKeeps ==
  ASSUME Inductive, Save,
         admin' \in admin..MaxPasswords, live' \subseteq 1..issued',
         issued' \in issued..MaxTokens
  PROVE  /\ saved' \in [admin : 0..MaxPasswords, tokens : SUBSET (1..issued')]
         /\ faults' \in 0..MaxFaults
         /\ NotAhead'
<1>1. faults' \in 0..MaxFaults
  BY ConstantsAssumption DEF Save, Inductive, TypeOK
<1>2. CASE saved' = [admin |-> admin', tokens |-> live']
  BY <1>1, <1>2, ConstantsAssumption DEF Inductive, TypeOK, NotAhead
<1>3. CASE saved' = saved
  BY <1>1, <1>3, ConstantsAssumption DEF Inductive, TypeOK, NotAhead
<1> QED
  BY <1>2, <1>3 DEF Save

\* What a restart would load after a save has been tried: if it was written, sessions
\* in memory; if not, what it would have loaded before, and nothing under a new password.
LEMMA SaveLoads ==
  ASSUME Inductive, Save, admin' \in Nat, admin <= admin'
  PROVE  \/ Loadable' \subseteq live'
         \/ admin' = admin /\ Loadable' = Loadable
         \/ admin' # admin /\ Loadable' = {}
<1>1. CASE saved' = [admin |-> admin', tokens |-> live']
  BY <1>1 DEF Loadable
<1>2. CASE saved' = saved
  BY <1>2 DEF Loadable, Inductive, TypeOK, NotAhead
<1> QED
  BY <1>1, <1>2 DEF Save

\* A revocation keeps types and NotAhead.
LEMMA RevokeKeeps ==
  ASSUME Inductive, NEW keys, NEW invalidate \in BOOLEAN, Revoke(keys, invalidate),
         admin' \in admin..MaxPasswords, issued' = issued, change' \in BOOLEAN
  PROVE  Inductive'
<1>1. live' \subseteq 1..issued'
  BY DEF Revoke, Inductive, TypeOK
<1>2. begun' \in [Logins -> {None} \union Pending]
  BY VoidedTypes DEF Revoke, Inductive, TypeOK, Pending
<1>3. /\ saved' \in [admin : 0..MaxPasswords, tokens : SUBSET (1..issued')]
      /\ faults' \in 0..MaxFaults
      /\ NotAhead'
  <2>1. CASE live \intersect keys = {}
    BY <2>1, ConstantsAssumption DEF Revoke, Inductive, TypeOK, NotAhead
  <2>2. CASE live \intersect keys # {}
    <3>1. Save
      BY <2>2 DEF Revoke
    <3> QED
      BY <1>1, <3>1, SaveKeeps, ConstantsAssumption DEF Inductive, TypeOK
  <2> QED
    BY <2>1, <2>2
<1>4. streams' \in [Streams -> {None} \union Open]
  BY DEF Revoke, CloseRevoked, Inductive, TypeOK, Open
<1> QED
  BY <1>1, <1>2, <1>3, <1>4, ConstantsAssumption DEF Inductive, TypeOK, Pending, Open

\* A restart keeps them too.
LEMMA RestartKeeps ==
  ASSUME Inductive, Restarted, admin' \in admin..MaxPasswords
  PROVE  Inductive'
<1>1. saved' = saved /\ issued' = issued /\ faults' = faults
  BY DEF Restarted
<1>2. live' \subseteq 1..issued'
  BY <1>1 DEF Restarted, Loadable, Inductive, TypeOK
<1>3. change' \in BOOLEAN
  BY Zenon DEF Restarted
<1> QED
  BY <1>1, <1>2, <1>3, ConstantsAssumption DEF Restarted, Inductive, TypeOK, NotAhead

-----------------------------------------------------------------------------
(* The invariant.                                                          *)

LEMMA InitHolds == Init => Inductive
<1> SUFFICES ASSUME Init PROVE Inductive
  OBVIOUS
<1>1. change \in BOOLEAN
  BY Zenon DEF Init
<1> QED
  BY <1>1, ConstantsAssumption DEF Init, Inductive, TypeOK, NotAhead

LEMMA StepKeeps == Inductive /\ [Next]_vars => Inductive'
<1> SUFFICES ASSUME Inductive, [Next]_vars PROVE Inductive'
  OBVIOUS
<1> USE ConstantsAssumption
<1>1. ASSUME NEW l \in Logins, NEW path \in {"setup", "login"}, LoginBegins(l, path)
      PROVE  Inductive'
  BY <1>1 DEF LoginBegins, Inductive, TypeOK, NotAhead
<1>2. ASSUME NEW l \in Logins, LoginGrants(l) PROVE Inductive'
  <2>1. /\ issued' = issued + 1 /\ issued' \in issued..MaxTokens
        /\ admin' \in admin..MaxPasswords
        /\ live' \subseteq 1..issued'
    <3>1. issued' = issued + 1 /\ issued' \in issued..MaxTokens
      BY <1>2 DEF LoginGrants, Inductive, TypeOK
    <3>2. admin' \in admin..MaxPasswords
      BY <1>2 DEF LoginGrants, Inductive, TypeOK
    <3>3. live' = live \union {issued'} /\ live \subseteq 1..issued /\ issued \in Nat
      BY <1>2 DEF LoginGrants, Inductive, TypeOK
    <3>4. live' \subseteq 1..issued'
      BY <3>1, <3>3
    <3> QED
      BY <3>1, <3>2, <3>4
  <2>2. /\ saved' \in [admin : 0..MaxPasswords, tokens : SUBSET (1..issued')]
        /\ faults' \in 0..MaxFaults
        /\ NotAhead'
    BY <1>2, <2>1, SaveKeeps DEF LoginGrants, Inductive, TypeOK
  <2>3. begun' \in [Logins -> {None} \union Pending]
    BY <1>2 DEF LoginGrants, Inductive, TypeOK, Pending
  <2>4. streams' \in [Streams -> {None} \union Open']
    <3>1. 1..issued \subseteq 1..issued'
      BY <2>1 DEF Inductive, TypeOK
    <3>2. Open \subseteq Open'
      BY <3>1 DEF Open
    <3> QED
      BY <1>2, <3>2 DEF LoginGrants, Inductive, TypeOK, Open
  <2>5. change' \in BOOLEAN
    BY <1>2 DEF LoginGrants, Inductive, TypeOK
  <2> QED
    BY <2>1, <2>2, <2>3, <2>4, <2>5 DEF Inductive, TypeOK, Pending, Open
<1>3. ASSUME NEW l \in Logins, LoginRefuses(l) PROVE Inductive'
  BY <1>3 DEF LoginRefuses, Inductive, TypeOK, NotAhead
<1>4. ASSUME NEW t \in Tokens, EndOne(t) PROVE Inductive'
  <2>1. Revoke({t}, FALSE)
    BY <1>4 DEF EndOne
  <2>2. admin' \in admin..MaxPasswords /\ issued' = issued /\ change' \in BOOLEAN
    BY <1>4 DEF EndOne, Inductive, TypeOK
  <2> QED
    BY <2>1, <2>2, RevokeKeeps
<1>5. ASSUME NEW t \in Tokens, EndOthers(t) PROVE Inductive'
  <2>1. Revoke(live \ {t}, TRUE)
    BY <1>5 DEF EndOthers
  <2>2. admin' \in admin..MaxPasswords /\ issued' = issued /\ change' \in BOOLEAN
    BY <1>5 DEF EndOthers, Inductive, TypeOK
  <2> QED
    BY <2>1, <2>2, RevokeKeeps
<1>6. ASSUME NEW t \in Tokens, Expire(t) PROVE Inductive'
  BY <1>6 DEF Expire, Inductive, TypeOK, NotAhead
<1>7. ASSUME NEW keys \in SUBSET live, EndTor(keys) PROVE Inductive'
  <2>1. Revoke(keys, TRUE)
    BY <1>7 DEF EndTor
  <2>2. admin' \in admin..MaxPasswords /\ issued' = issued /\ change' \in BOOLEAN
    BY <1>7 DEF EndTor, Inductive, TypeOK
  <2> QED
    BY <2>1, <2>2, RevokeKeeps
<1>8. CASE SetPassword
  <2>1. Revoke(live, TRUE)
    BY <1>8 DEF SetPassword
  <2>2. admin' \in admin..MaxPasswords /\ issued' = issued
    BY <1>8 DEF SetPassword, Inductive, TypeOK
  <2>3. change' \in BOOLEAN
    BY <1>8, Zenon DEF SetPassword
  <2> QED
    BY <2>1, <2>2, <2>3, RevokeKeeps
<1>9. ASSUME NEW s \in Streams, NEW t \in Tokens, StreamBegins(s, t) PROVE Inductive'
  BY <1>9 DEF StreamBegins, Inductive, TypeOK, NotAhead
<1>10. ASSUME NEW s \in Streams, StreamRegistered(s) PROVE Inductive'
  BY <1>10 DEF StreamRegistered, Inductive, TypeOK, NotAhead
<1>11. ASSUME NEW s \in Streams, OutputEnds(s) \/ StreamEnds(s) PROVE Inductive'
  BY <1>11 DEF OutputEnds, StreamEnds, Inductive, TypeOK, NotAhead
<1>12. CASE Restart
  BY <1>12, RestartKeeps DEF Restart, Inductive, TypeOK
<1>13. CASE CutOff
  BY <1>13, RestartKeeps DEF CutOff, Inductive, TypeOK
<1>14. CASE AskPassword \/ RefusePassword
  BY <1>14 DEF AskPassword, RefusePassword, Inductive, TypeOK, NotAhead
<1>15. CASE Renew
  <2>1. /\ saved' \in [admin : 0..MaxPasswords, tokens : SUBSET (1..issued')]
        /\ faults' \in 0..MaxFaults
        /\ NotAhead'
    BY <1>15, SaveKeeps DEF Renew, Inductive, TypeOK
  <2> QED
    BY <1>15, <2>1 DEF Renew, Inductive, TypeOK
<1>16. CASE UNCHANGED vars
  BY <1>16 DEF vars, Inductive, TypeOK, NotAhead
<1> QED
  BY <1>1, <1>2, <1>3, <1>4, <1>5, <1>6, <1>7, <1>8, <1>9, <1>10, <1>11, <1>12, <1>13,
     <1>14, <1>15, <1>16 DEF Next

LEMMA Invariance == Spec => []Inductive
  BY InitHolds, StepKeeps, PTL DEF Spec

\* Sessions, logins and streams have their types; every session is a number granted.
THEOREM TypeCorrect == Spec => []TypeOK
<1>1. Inductive => TypeOK
  BY DEF Inductive
<1> QED
  BY Invariance, <1>1, PTL

-----------------------------------------------------------------------------
(* Every step is one of SessionRegistry, or none.                          *)

\* The logins that are told to the registry.
asked == [l \in Logins |-> IF begun[l] = None THEN "none"
                           ELSE IF begun[l].path = "setup" THEN "none"
                           ELSE IF begun[l].valid THEN "asked" ELSE "void"]

\* Sessions gone from memory that a restart would bring back.
returning == Loadable \ live

LEMMA InitMaps == Init => Registry!Init
<1> SUFFICES ASSUME Init PROVE Registry!Init
  OBVIOUS
<1>1. Loadable \ live = {} /\ 1..issued = {}
  BY DEF Init, Loadable
<1>2. asked = [l \in Logins |-> "none"]
  BY DEF Init, asked
<1> QED
  BY <1>1, <1>2 DEF Init, Registry!Init, asked

\* Voiding logins here is voiding those told to the registry.
LEMMA VoidedMaps ==
  ASSUME begun \in [Logins -> {None} \union Pending], begun' = Voided
  PROVE  asked' = Registry!Voided
<1>1. ASSUME NEW l \in Logins
      PROVE  asked'[l] = IF asked[l] = "none" THEN "none" ELSE "void"
  BY VoidedTypes DEF asked
<1> QED
  BY <1>1 DEF asked, Registry!Voided

\* A revocation that leaves the password alone is an End.
LEMMA RevokeMaps ==
  ASSUME Inductive, NEW keys, NEW invalidate \in BOOLEAN, Revoke(keys, invalidate),
         admin' = admin, issued' = issued
  PROVE  Registry!End
<1>1. live' \subseteq live
  BY DEF Revoke
<1>2. returning' \subseteq returning \union (live \ live')
  <2>1. CASE live \intersect keys = {}
    BY <2>1 DEF Revoke, returning, Loadable
  <2>2. CASE live \intersect keys # {}
    <3>1. Save
      BY <2>2 DEF Revoke
    <3>2. Loadable' \subseteq live' \/ Loadable' = Loadable
      BY <3>1, SaveLoads DEF Inductive, TypeOK
    <3> QED
      BY <3>2 DEF returning
  <2> QED
    BY <2>1, <2>2
<1>3. asked' \in {asked, Registry!Voided}
  <2>1. CASE invalidate
    <3>1. begun' = Voided
      BY <2>1 DEF Revoke
    <3> QED
      BY <3>1, VoidedMaps DEF Inductive, TypeOK, Pending
  <2>2. CASE ~invalidate
    BY <2>2 DEF Revoke, asked
  <2> QED
    BY <2>1, <2>2
<1> QED
  BY <1>1, <1>2, <1>3 DEF Registry!End, asked, returning

\* A restart that leaves the password alone is a Restart, with a new one a SetPassword.
LEMMA RestartMaps ==
  ASSUME Inductive, Restarted
  PROVE  /\ admin' = admin => Registry!Restart
         /\ admin' = admin + 1 => Registry!SetPassword
<1>1. asked' = Registry!Forgotten
  BY DEF Restarted, asked, Registry!Forgotten
<1>2. returning' = {} /\ live' = Loadable' /\ issued' = issued /\ saved' = saved
  BY DEF Restarted, returning
<1>3. ASSUME admin' = admin PROVE Registry!Restart
  <2>1. live' \subseteq live \union returning
    BY <1>2, <1>3 DEF Loadable, returning
  <2> QED
    BY <1>1, <1>2, <1>3, <2>1 DEF Registry!Restart, asked, returning
<1>4. ASSUME admin' = admin + 1 PROVE Registry!SetPassword
  <2>1. live' = {}
    BY <1>2, <1>4 DEF Loadable, Inductive, TypeOK, NotAhead
  <2> QED
    BY <1>1, <1>2, <1>4, <2>1 DEF Registry!SetPassword, asked, returning
<1> QED
  BY <1>3, <1>4

\* A grant is a Grant of the next number: the login is not void, nothing that ended
\* becomes loadable, and the password changes only if there was none.
LEMMA GrantMaps ==
  ASSUME Inductive, NEW l \in Logins, LoginGrants(l)
  PROVE  \E t \in Tokens : Registry!Grant(l, t)
<1>1. issued' = issued + 1 /\ issued' \in Tokens /\ issued' \notin 1..issued
  BY ConstantsAssumption DEF LoginGrants, Inductive, TypeOK, Tokens
<1>2. 1..issued' = (1..issued) \union {issued'}
  BY <1>1 DEF Inductive, TypeOK
<1>3. live' = live \union {issued'} /\ admin' = IF admin = 0 THEN 1 ELSE admin
  BY DEF LoginGrants
<1>4. returning' \subseteq returning
  <2>1. Save /\ admin' \in Nat /\ admin <= admin'
    BY DEF LoginGrants, Inductive, TypeOK
  <2>2. \/ Loadable' \subseteq live' \/ Loadable' = Loadable \/ Loadable' = {}
    BY <2>1, SaveLoads
  <2> QED
    BY <1>3, <2>2 DEF returning
<1>5. asked[l] # "void"
  BY DEF LoginGrants, MayGrant, asked
<1>6. asked' = [asked EXCEPT ![l] = "none"]
  BY DEF LoginGrants, asked, Inductive, TypeOK
<1>7. PICK t \in Tokens : t = issued'
  BY <1>1
<1>8. Registry!Grant(l, t)
  BY <1>1, <1>2, <1>3, <1>4, <1>5, <1>6, <1>7 DEF Registry!Grant, asked, returning
<1> QED
  BY <1>8

LEMMA StepMaps == Inductive /\ [Next]_vars => [Registry!Next]_(Registry!vars)
<1> SUFFICES ASSUME Inductive, [Next]_vars PROVE [Registry!Next]_(Registry!vars)
  OBVIOUS
<1>1. ASSUME NEW l \in Logins, NEW path \in {"setup", "login"}, LoginBegins(l, path)
      PROVE  Registry!Ask(l) \/ UNCHANGED Registry!vars
  <2>1. UNCHANGED <<admin, live, issued, returning>>
    BY <1>1 DEF LoginBegins, returning, Loadable
  <2>2. CASE path = "setup"
    <3>1. asked' = asked
      BY <1>1, <2>2, NoneApart DEF LoginBegins, asked, Inductive, TypeOK, Pending
    <3> QED
      BY <2>1, <3>1 DEF Registry!vars, asked, returning
  <2>3. CASE path = "login"
    <3>1. asked[l] = "none" /\ asked' = [asked EXCEPT ![l] = "asked"]
      <4>1. asked[l] = "none"
        BY <1>1 DEF LoginBegins, asked
      <4>2. begun' = [begun EXCEPT ![l] = [path |-> "login", valid |-> TRUE]]
        BY <1>1, <2>3 DEF LoginBegins
      <4>3. begun \in [Logins -> {None} \union Pending]
        BY DEF Inductive, TypeOK, Pending
      <4>4. [path |-> "login", valid |-> TRUE] # None
        <5>1. [path |-> "login", valid |-> TRUE] \in Pending
          BY DEF Pending
        <5> QED
          BY <5>1, NoneApart
      <4>5. asked'[l] = "asked"
        <5>1. begun'[l] = [path |-> "login", valid |-> TRUE]
          BY <4>2, <4>3
        <5>2. begun'[l] # None /\ begun'[l].path = "login" /\ begun'[l].valid
          BY <4>4, <5>1
        <5> QED
          BY <5>2 DEF asked
      <4>6. ASSUME NEW m \in Logins, m # l PROVE asked'[m] = asked[m]
        BY <4>2, <4>3, <4>6 DEF asked
      <4> QED
        BY <4>1, <4>5, <4>6 DEF asked
    <3> QED
      BY <2>1, <3>1 DEF Registry!Ask, asked, returning
  <2> QED
    BY <2>2, <2>3
<1>2. ASSUME NEW l \in Logins, LoginRefuses(l)
      PROVE  Registry!Refuse(l) \/ UNCHANGED Registry!vars
  <2>1. UNCHANGED <<admin, live, issued, returning>>
    BY <1>2 DEF LoginRefuses, returning, Loadable
  <2>2. asked' = [asked EXCEPT ![l] = "none"]
    BY <1>2 DEF LoginRefuses, asked, Inductive, TypeOK
  <2>3. CASE asked[l] = "none"
    <3>1. asked' = asked
      BY <2>2, <2>3 DEF asked
    <3> QED
      BY <2>1, <3>1 DEF Registry!vars, asked, returning
  <2>4. CASE asked[l] # "none"
    BY <2>1, <2>2, <2>4 DEF Registry!Refuse, asked, returning
  <2> QED
    BY <2>3, <2>4
<1>3. ASSUME NEW t \in Tokens, EndOne(t) PROVE Registry!End
  <2>1. Revoke({t}, FALSE) /\ admin' = admin /\ issued' = issued
    BY <1>3 DEF EndOne
  <2> QED
    BY <2>1, RevokeMaps
<1>4. ASSUME NEW t \in Tokens, EndOthers(t) PROVE Registry!End
  <2>1. Revoke(live \ {t}, TRUE) /\ admin' = admin /\ issued' = issued
    BY <1>4 DEF EndOthers
  <2> QED
    BY <2>1, RevokeMaps
<1>5. ASSUME NEW keys \in SUBSET live, EndTor(keys) PROVE Registry!End
  <2>1. Revoke(keys, TRUE) /\ admin' = admin /\ issued' = issued
    BY <1>5 DEF EndTor
  <2> QED
    BY <2>1, RevokeMaps
<1>6. ASSUME NEW t \in Tokens, Expire(t) PROVE Registry!End
  <2>1. /\ live' \subseteq live /\ admin' = admin /\ issued' = issued
        /\ begun' = begun /\ returning' \subseteq returning
    BY <1>6 DEF Expire, returning, Loadable, Inductive, TypeOK
  <2>2. asked' = asked
    BY <2>1 DEF asked
  <2> QED
    BY <2>1, <2>2 DEF Registry!End, asked, returning
<1>7. ASSUME SetPassword PROVE Registry!SetPassword
  <2>1. Revoke(live, TRUE) /\ admin' = admin + 1 /\ issued' = issued
    BY <1>7 DEF SetPassword
  <2>2. live' = {} /\ begun' = Voided /\ (Save \/ saved' = saved)
    BY <2>1 DEF Revoke
  <2>3. Loadable' = {}
    <3>1. CASE Save
      <4>1. \/ Loadable' \subseteq live'
            \/ admin' # admin /\ Loadable' = {}
        BY <2>1, <3>1, SaveLoads DEF Inductive, TypeOK
      <4> QED
        BY <2>2, <4>1
    <3>2. CASE saved' = saved
      BY <2>1, <3>2 DEF Loadable, Inductive, TypeOK, NotAhead
    <3> QED
      BY <2>2, <3>1, <3>2
  <2>4. asked' = Registry!Voided
    BY <2>2, VoidedMaps DEF Inductive, TypeOK, Pending
  <2> QED
    BY <2>1, <2>2, <2>3, <2>4 DEF Registry!SetPassword, asked, returning
<1>8. ASSUME NEW s \in Streams,
             \/ \E t \in Tokens : StreamBegins(s, t)
             \/ StreamRegistered(s) \/ OutputEnds(s) \/ StreamEnds(s)
      PROVE  UNCHANGED Registry!vars
  <2>1. UNCHANGED <<admin, live, saved, issued, begun>>
    BY <1>8 DEF StreamBegins, StreamRegistered, OutputEnds, StreamEnds
  <2> QED
    BY <2>1 DEF Registry!vars, Loadable
<1>9. ASSUME Restart PROVE Registry!Restart
  BY <1>9, RestartMaps DEF Restart
<1>10. ASSUME CutOff PROVE Registry!SetPassword
  BY <1>10, RestartMaps DEF CutOff
<1>11. CASE UNCHANGED vars
  BY <1>11 DEF vars, Registry!vars, Loadable
<1>12. ASSUME NEW l \in Logins, LoginGrants(l)
       PROVE  \E t \in Tokens : Registry!Grant(l, t)
  BY <1>12, GrantMaps
<1>13. ASSUME AskPassword \/ RefusePassword PROVE UNCHANGED Registry!vars
  <2>1. UNCHANGED <<admin, live, saved, issued, begun>>
    BY <1>13 DEF AskPassword, RefusePassword
  <2> QED
    BY <2>1 DEF Registry!vars, Loadable
<1>14. ASSUME Renew PROVE Registry!End
  <2>1. UNCHANGED <<admin, live, issued, begun>> /\ Save
    BY <1>14 DEF Renew
  <2>2. returning' \subseteq returning
    <3>1. Loadable' \subseteq live' \/ Loadable' = Loadable
      BY <2>1, SaveLoads DEF Inductive, TypeOK
    <3> QED
      BY <2>1, <3>1 DEF returning
  <2>3. asked' = asked
    BY <2>1 DEF asked
  <2> QED
    BY <2>1, <2>2, <2>3 DEF Registry!End, asked, returning
<1> QED
  BY <1>1, <1>2, <1>3, <1>4, <1>5, <1>6, <1>7, <1>8, <1>9, <1>10, <1>11, <1>12, <1>13, <1>14
     DEF Next, Registry!Next

\* The promises of SessionRegistry hold whatever is written, refused or cut off: a
\* session that ended stays away unless its end was not written and the service
\* restarts, a voided login is not granted, and a new password spares no session, in
\* memory or on disk.
THEOREM Implementation == Spec => ImplementsRegistry
<1>1. Inductive /\ [Next]_vars => [Registry!Next]_(Registry!vars)
  BY StepMaps
<1> QED
  BY Invariance, InitMaps, <1>1, PTL DEF Spec, ImplementsRegistry, Registry!Spec
=============================================================================
