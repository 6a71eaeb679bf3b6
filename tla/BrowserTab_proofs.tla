------------------------- MODULE BrowserTab_proofs --------------------------
(***************************************************************************)
(* Proof that a tab which shows the menu, or has its terminal open, holds  *)
(* the CSRF value of a session, for every number of sessions, passwords,   *)
(* calls and faults.                                                       *)
(*                                                                         *)
(* The types carry the argument: an answer that found a session names one  *)
(* that was granted, and that is never None.                               *)
(***************************************************************************)
EXTENDS BrowserTab, TLAPS

Calls == [kind : {"resume", "keep", "api", "logout"}, token : Held, csrf : Held,
          reply : {"none", "ok", "401"}]

\* What the service keeps.
ServiceOK ==
  /\ owner \in Nat
  /\ granted \subseteq Tokens /\ sessions \subseteq granted /\ ending \subseteq granted
  /\ ask \in [Logins -> {"none", "asked", "void"}]

\* What the browser keeps of the tab.
TabOK ==
  /\ page \in {"auth", "menu"} /\ stream \in {"none", "open", "closing"}
  /\ csrf \in Held /\ cookie \in Held
  /\ faults \in 0..MaxFaults

LoginOK == login \in {None} \union [stage : {"setup", "login", "begun"}, given : {None}]
                            \union [stage : {"answered"}, given : granted]

CallsOK ==
  /\ calls \subseteq Calls
  /\ \A c \in calls : c.reply = "ok" => c.token # None

Inductive == ServiceOK /\ TabOK /\ LoginOK /\ CallsOK /\ TabWatched

-----------------------------------------------------------------------------
(* Lemmas about sessions, calls and answers.                               *)

\* None is no session.
LEMMA NoneApart == None \notin Tokens
BY ConstantsAssumption DEF Tokens

\* What the service does, whoever asked for it, keeps its types and forgets no session
\* it granted.
LEMMA ServiceKeeps ==
  ASSUME ServiceOK,
         \/ UNCHANGED service
         \/ \E l \in Logins : Registry!Ask(l) \/ Registry!Refuse(l)
         \/ \E l \in Logins, t \in Tokens : Registry!Grant(l, t)
         \/ Registry!End \/ Registry!SetPassword \/ Registry!Restart
         \/ sessions' \subseteq sessions /\ UNCHANGED <<owner, ending, granted, ask>>
  PROVE  ServiceOK' /\ granted \subseteq granted'
<1>1. CASE UNCHANGED service
  BY <1>1 DEF ServiceOK, service
<1>2. ASSUME NEW l \in Logins, Registry!Ask(l) \/ Registry!Refuse(l)
      PROVE  ServiceOK' /\ granted \subseteq granted'
  BY <1>2 DEF ServiceOK, Registry!Ask, Registry!Refuse
<1>3. ASSUME NEW l \in Logins, NEW t \in Tokens, Registry!Grant(l, t)
      PROVE  ServiceOK' /\ granted \subseteq granted'
  BY <1>3 DEF ServiceOK, Registry!Grant
<1>4. Registry!Voided \in [Logins -> {"none", "asked", "void"}]
  BY DEF Registry!Voided
<1>5. Registry!Forgotten \in [Logins -> {"none", "asked", "void"}]
  BY DEF Registry!Forgotten
<1>6. CASE Registry!End
  BY <1>6, <1>4 DEF ServiceOK, Registry!End
<1>7. CASE Registry!SetPassword
  BY <1>7, <1>4, <1>5 DEF ServiceOK, Registry!SetPassword
<1>8. CASE Registry!Restart
  BY <1>8, <1>5 DEF ServiceOK, Registry!Restart
<1>9. CASE sessions' \subseteq sessions /\ UNCHANGED <<owner, ending, granted, ask>>
  BY <1>9 DEF ServiceOK
<1> QED
  BY <1>1, <1>2, <1>3, <1>6, <1>7, <1>8, <1>9

\* A session granted to anyone leaves what the tab and its calls name in order.
LEMMA Wider ==
  ASSUME granted \subseteq granted'
  PROVE  /\ Held \subseteq Held'
         /\ LoginOK /\ UNCHANGED login => LoginOK'
         /\ CallsOK /\ calls' \subseteq calls => CallsOK'
<1>1. Held \subseteq Held'
  BY DEF Held
<1>2. ASSUME LoginOK, UNCHANGED login PROVE LoginOK'
  BY <1>2 DEF LoginOK
<1>3. ASSUME CallsOK, calls' \subseteq calls PROVE CallsOK'
  BY <1>1, <1>3 DEF CallsOK, Calls
<1> QED
  BY <1>1, <1>2, <1>3

\* A call that is made carries what the tab holds and has no answer.
LEMMA CallTypes ==
  ASSUME TabOK, NEW kind \in {"resume", "keep", "api", "logout"}
  PROVE  Call(kind) \in Calls /\ Call(kind).reply = "none"
BY DEF TabOK, Call, Calls, Held

\* An answer is a call's; one that found a session names the one the call carried.
LEMMA ReplyTypes ==
  ASSUME NEW c \in Calls
  PROVE  /\ Refused(c) \in Calls /\ Refused(c).reply = "401"
         /\ Ok(c) \in Calls /\ Ok(c).token = c.token
<1>1. Refused(c) \in Calls /\ Refused(c).reply = "401"
  BY DEF Calls, Held, Refused
<1>2. Ok(c) \in Calls /\ Ok(c).token = c.token
  BY DEF Calls, Held, Ok
<1> QED
  BY <1>1, <1>2

\* Calls made and answers given keep the types of the calls, if an answer that found a
\* session is to a call that carried one.
LEMMA CallsKeep ==
  ASSUME CallsOK, UNCHANGED granted,
         \A c \in calls' \ calls : c \in Calls /\ (c.reply = "ok" => c.token # None)
  PROVE  CallsOK'
<1>1. Calls' = Calls
  BY DEF Calls, Held
<1> QED
  BY <1>1 DEF CallsOK

\* What a loss leaves of a call is an answer that there is no session, or nothing.
LEMMA LostTypes ==
  ASSUME NEW c \in Calls
  PROVE  Lost(c) \subseteq Calls /\ \A d \in Lost(c) : d.reply = "401"
BY ReplyTypes DEF Lost

\* A renewed cookie is the one there was or the call's.
LEMMA RenewedHeld ==
  ASSUME TabOK, UNCHANGED granted, NEW c \in Calls, Renewed(c)
  PROVE  cookie' \in Held'
BY DEF TabOK, Calls, Renewed, Held

\* A session that a sound answer names is a session.
LEMMA FoundHeld ==
  ASSUME ServiceOK, CallsOK, NEW c \in calls, c.reply = "ok"
  PROVE  c.token \in Held /\ c.token # None
BY DEF CallsOK, Calls

-----------------------------------------------------------------------------
(* Each step keeps the invariant.                                          *)

\* The welcome page and its form.
LEMMA WelcomeKeeps ==
  ASSUME Inductive,
         \/ \E form \in {"setup", "login"} : Submit(form)
         \/ LoginBegins \/ LoginRefuses \/ LoginArrives
         \/ \E t \in Tokens : LoginGrants(t)
  PROVE  Inductive'
<1> USE DEF Inductive
<1>1. ASSUME NEW form \in {"setup", "login"}, Submit(form) PROVE Inductive'
  <2>1. ServiceOK' /\ TabOK' /\ CallsOK' /\ TabWatched'
    BY <1>1 DEF Submit, service, ServiceOK, TabOK, CallsOK, Calls, Held, TabWatched
  <2>2. LoginOK'
    BY <1>1 DEF Submit, LoginOK
  <2> QED
    BY <2>1, <2>2
<1>2. CASE LoginBegins
  <2>1. ServiceOK' /\ UNCHANGED granted
    <3>1. UNCHANGED service \/ Registry!Ask("tab")
      BY <1>2 DEF LoginBegins
    <3> QED
      BY <3>1, ServiceKeeps DEF Registry!Ask, service, Logins
  <2>2. TabOK' /\ CallsOK' /\ TabWatched'
    BY <1>2, <2>1 DEF LoginBegins, TabOK, CallsOK, Calls, Held, TabWatched
  <2>3. LoginOK'
    BY <1>2, <2>1 DEF LoginBegins, LoginOK
  <2> QED
    BY <2>1, <2>2, <2>3
<1>3. CASE LoginRefuses
  <2>1. ServiceOK' /\ UNCHANGED granted
    BY <1>3, ServiceKeeps DEF LoginRefuses, Registry!Refuse, Logins
  <2>2. TabOK' /\ CallsOK' /\ TabWatched' /\ LoginOK'
    BY <1>3, <2>1 DEF LoginRefuses, TabOK, CallsOK, Calls, Held, TabWatched, LoginOK
  <2> QED
    BY <2>1, <2>2
<1>4. CASE LoginArrives
  <2>1. ServiceOK' /\ CallsOK' /\ UNCHANGED granted
    BY <1>4 DEF LoginArrives, service, ServiceOK, CallsOK, Calls, Held
  <2>2. LoginOK'
    BY <1>4 DEF LoginArrives, LoginOK
  <2>3. CASE login.stage = "answered" /\ csrf' = login.given /\ cookie' = login.given
              /\ Terminal /\ UNCHANGED faults
    <3>1. login.given \in granted
      BY <1>4, <2>3 DEF LoginArrives, LoginOK
    <3>2. csrf' \in Held' /\ csrf' # None
      BY <3>1, <2>1, <2>3, NoneApart DEF ServiceOK, Held
    <3> QED
      BY <1>4, <2>1, <2>2, <2>3, <3>2 DEF LoginArrives, Terminal, TabOK, TabWatched
  <2>4. CASE Fault /\ UNCHANGED <<csrf, cookie, page>>
    BY <1>4, <2>1, <2>2, <2>4, ConstantsAssumption
       DEF LoginArrives, Fault, TabOK, TabWatched, Held
  <2> QED
    BY <1>4, <2>3, <2>4 DEF LoginArrives
<1>5. ASSUME NEW t \in Tokens, LoginGrants(t) PROVE Inductive'
  <2>1. ServiceOK' /\ granted' = granted \union {t}
    BY <1>5, ServiceKeeps DEF LoginGrants, Registry!Grant, Logins
  <2>2. Held \subseteq Held' /\ CallsOK'
    BY <1>5, <2>1, Wider DEF LoginGrants
  <2>3. TabOK' /\ TabWatched'
    BY <1>5, <2>2 DEF LoginGrants, TabOK, TabWatched
  <2>4. LoginOK'
    BY <1>5, <2>1 DEF LoginGrants, LoginOK
  <2> QED
    BY <2>1, <2>2, <2>3, <2>4
<1> QED
  BY <1>1, <1>2, <1>3, <1>4, <1>5

\* Calls made by the tab, and a page loaded again.
LEMMA CallingKeeps ==
  ASSUME Inductive,
         CallApi \/ ClickLogout \/ KeepSession \/ OpenTerminal \/ StreamCloses \/ Reload
  PROVE  Inductive'
<1> USE DEF Inductive
<1>1. ServiceOK' /\ UNCHANGED granted
  BY DEF CallApi, ClickLogout, KeepSession, OpenTerminal, StreamCloses, Reload,
         service, ServiceOK
<1>2. LoginOK'
  BY <1>1 DEF CallApi, ClickLogout, KeepSession, OpenTerminal, StreamCloses, Reload, LoginOK
<1>3. CallsOK'
  <2>1. PICK kind \in {"resume", "keep", "api", "logout"} :
             calls' \subseteq calls \union {Call(kind)}
    BY DEF CallApi, ClickLogout, KeepSession, OpenTerminal, StreamCloses, Reload
  <2> QED
    BY <1>1, <2>1, CallTypes, CallsKeep
<1>4. TabOK' /\ TabWatched'
  BY <1>1 DEF CallApi, ClickLogout, KeepSession, OpenTerminal, StreamCloses, Reload,
              TabOK, TabWatched, Held
<1> QED
  BY <1>1, <1>2, <1>3, <1>4

\* The service's answers, and losses.
LEMMA AnsweringKeeps ==
  ASSUME Inductive, NEW c \in calls,
         Answer(c) \/ AnswerApi(c) \/ AnswerLogout(c) \/ Lose(c)
  PROVE  Inductive'
<1> USE DEF Inductive
<1>1. c \in Calls
  BY DEF CallsOK
<1>2. UNCHANGED <<granted, login, page, csrf, stream>>
  BY DEF Answer, AnswerApi, AnswerLogout, Lose, service
<1>3. ServiceOK'
  <2>1. sessions' \subseteq sessions /\ UNCHANGED <<owner, ending, granted, ask>>
    BY DEF Answer, AnswerApi, AnswerLogout, Lose, service
  <2> QED
    BY <2>1, ServiceKeeps
<1>4. TabOK' /\ TabWatched' /\ LoginOK'
  <2>1. faults' \in 0..MaxFaults
    BY ConstantsAssumption DEF Answer, AnswerApi, AnswerLogout, Lose, Fault, TabOK
  <2>2. cookie' \in Held'
    BY <1>1, <1>2, RenewedHeld DEF Answer, AnswerApi, AnswerLogout, Lose, TabOK, Held
  <2> QED
    BY <1>2, <2>1, <2>2 DEF TabOK, TabWatched, LoginOK, Held
<1>5. CallsOK'
  <2>1. None \notin sessions
    BY NoneApart DEF ServiceOK
  <2>2. CASE calls' \subseteq calls \union {Refused(c)}
    BY <1>1, <1>2, <2>2, ReplyTypes, CallsKeep
  <2>3. CASE c.token \in sessions /\ calls' \subseteq calls \union {Ok(c)}
    <3>1. Ok(c) \in Calls /\ Ok(c).token # None
      BY <1>1, <2>1, <2>3, ReplyTypes
    <3> QED
      BY <1>2, <2>3, <3>1, CallsKeep
  <2>4. \/ calls' \subseteq calls \union {Refused(c)}
        \/ c.token \in sessions /\ calls' \subseteq calls \union {Ok(c)}
    BY DEF Answer, AnswerApi, AnswerLogout, Lose, Lost, Replied
  <2> QED
    BY <2>2, <2>3, <2>4
<1> QED
  BY <1>3, <1>4, <1>5

\* Answers that come to the tab.
LEMMA ArrivingKeeps ==
  ASSUME Inductive, NEW c \in calls,
         ResumeArrives(c) \/ KeepArrives(c) \/ ApiArrives(c) \/ LogoutArrives(c)
  PROVE  Inductive'
<1> USE DEF Inductive
<1>1. c \in Calls
  BY DEF CallsOK
<1>2. UNCHANGED <<service, granted, login, faults>> /\ calls' \subseteq calls
  BY DEF ResumeArrives, KeepArrives, ApiArrives, LogoutArrives, service
<1>3. ServiceOK' /\ LoginOK' /\ CallsOK'
  <2>1. ServiceOK' /\ granted \subseteq granted'
    BY <1>2, ServiceKeeps
  <2> QED
    BY <1>2, <2>1, Wider
<1>4. c.reply = "ok" => c.token \in Held' /\ c.token # None
  BY <1>2, FoundHeld DEF Held
<1>5. cookie' \in Held'
  BY <1>1, <1>2, RenewedHeld
     DEF ResumeArrives, KeepArrives, ApiArrives, LogoutArrives, TabOK, Held
<1>6. csrf' \in Held'
  BY <1>2, <1>4 DEF ResumeArrives, KeepArrives, ApiArrives, LogoutArrives, TabOK, Held
<1>7. page' \in {"auth", "menu"} /\ stream' \in {"none", "open", "closing"}
  BY DEF ResumeArrives, KeepArrives, ApiArrives, LogoutArrives, TabOK, ShowAuth, Terminal,
         CloseStream
<1>8. TabWatched'
  <2>1. CASE c.reply = "ok" /\ (ResumeArrives(c) \/ KeepArrives(c))
    <3>1. csrf' = c.token
      BY <2>1 DEF ResumeArrives, KeepArrives
    <3> QED
      BY <1>4, <2>1, <3>1 DEF TabWatched
  <2>2. CASE c.reply # "ok" /\ (ResumeArrives(c) \/ KeepArrives(c))
    BY <2>2 DEF ResumeArrives, KeepArrives, ShowAuth, CloseStream, TabWatched, TabOK
  <2>3. CASE ApiArrives(c) \/ LogoutArrives(c)
    BY <2>3 DEF ApiArrives, LogoutArrives, ShowAuth, CloseStream, TabWatched, TabOK
  <2> QED
    BY <2>1, <2>2, <2>3
<1>9. TabOK'
  BY <1>2, <1>5, <1>6, <1>7 DEF TabOK
<1> QED
  BY <1>3, <1>8, <1>9

\* What happens elsewhere.
LEMMA ElsewhereKeeps ==
  ASSUME Inductive, (\E t \in Tokens : OtherLogin(t)) \/ SessionsEnd \/ Restart
  PROVE  Inductive'
<1> USE DEF Inductive
<1>1. ASSUME NEW t \in Tokens, OtherLogin(t) PROVE Inductive'
  <2>1. ServiceOK' /\ granted' = granted \union {t}
    BY <1>1, ServiceKeeps DEF OtherLogin, Registry!Grant, Logins
  <2>2. Held \subseteq Held' /\ LoginOK' /\ CallsOK'
    BY <1>1, <2>1, Wider DEF OtherLogin
  <2>3. cookie' \in Held'
    BY <1>1, <2>1, <2>2 DEF OtherLogin, TabOK, Held
  <2> QED
    BY <1>1, <2>1, <2>2, <2>3 DEF OtherLogin, TabOK, TabWatched
<1>2. CASE SessionsEnd
  <2>1. ServiceOK' /\ granted \subseteq granted'
    BY <1>2, ServiceKeeps DEF SessionsEnd
  <2>2. Held \subseteq Held' /\ LoginOK' /\ CallsOK'
    BY <1>2, <2>1, Wider DEF SessionsEnd
  <2> QED
    BY <1>2, <2>1, <2>2 DEF SessionsEnd, TabOK, TabWatched
<1>3. CASE Restart
  <2>1. ServiceOK' /\ UNCHANGED granted
    BY <1>3, ServiceKeeps DEF Restart, Registry!Restart
  <2>2. LoginOK'
    BY <1>3, <2>1 DEF Restart, LoginOK
  <2>3. CallsOK'
    <3> DEFINE left == UNION {Lost(c) : c \in calls}
    <3>1. left \subseteq Calls /\ \A d \in left : d.reply = "401"
      BY LostTypes DEF CallsOK
    <3>2. calls' \subseteq calls \union left
      BY <1>3 DEF Restart
    <3> QED
      BY <2>1, <3>1, <3>2, CallsKeep
  <2>4. TabOK' /\ TabWatched'
    BY <1>3, <2>1, ConstantsAssumption DEF Restart, Fault, TabOK, TabWatched, Held
  <2> QED
    BY <2>1, <2>2, <2>3, <2>4
<1> QED
  BY <1>1, <1>2, <1>3

-----------------------------------------------------------------------------
(* The theorems.                                                           *)

\* A tab starts with nothing but a look for its session.
LEMMA InitHolds == Init => Inductive
<1> SUFFICES ASSUME Init PROVE Inductive
  OBVIOUS
<1>1. ServiceOK /\ TabOK /\ LoginOK /\ TabWatched
  BY ConstantsAssumption
     DEF Init, Registry!Init, ServiceOK, TabOK, LoginOK, TabWatched, Held, Logins
<1>2. CallsOK
  BY <1>1, CallTypes DEF Init, CallsOK
<1> QED
  BY <1>1, <1>2 DEF Inductive

\* Every step keeps the types and the CSRF value of a tab in use.
LEMMA StepKeeps == Inductive /\ [Next]_vars => Inductive'
<1> SUFFICES ASSUME Inductive, [Next]_vars PROVE Inductive'
  OBVIOUS
<1>1. CASE UNCHANGED vars
  BY <1>1 DEF vars, Inductive, ServiceOK, TabOK, LoginOK, CallsOK, Calls, TabWatched, Held
<1>2. CASE Next
  BY <1>2, WelcomeKeeps, CallingKeeps, AnsweringKeeps, ArrivingKeeps, ElsewhereKeeps DEF Next
<1> QED
  BY <1>1, <1>2

\* The tab, its calls and the service keep their types, and an answer that found a session
\* names the one it found.
THEOREM TypeCorrect == Spec => []TypeOK
<1>1. Inductive => TypeOK
  BY DEF Inductive, ServiceOK, TabOK, LoginOK, CallsOK, Calls, TypeOK
<1> QED
  BY <1>1, InitHolds, StepKeeps, PTL DEF Spec

\* Whatever answers come late and whatever ends a session, a tab that shows the menu or
\* has its terminal open holds the CSRF value of a session and goes on asking for it.
THEOREM MenuIsWatched == Spec => []TabWatched
<1>1. Inductive => TabWatched
  BY DEF Inductive
<1> QED
  BY <1>1, InitHolds, StepKeeps, PTL DEF Spec

=============================================================================
