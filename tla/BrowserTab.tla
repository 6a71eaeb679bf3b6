----------------------------- MODULE BrowserTab -----------------------------
(***************************************************************************)
(* A browser tab (src/web/static/app.js) over the sessions that the web    *)
(* service keeps (SessionRegistry): the welcome page and its form, login   *)
(* and logout, the renewal of the session, the terminal's stream, and the  *)
(* calls of the pages, which may find the session ended.                   *)
(*                                                                         *)
(* Handlers run to their next await.  Calls are answered in any order,     *)
(* late, or not at all, and an answer tells what held when it was made.    *)
(* Other browsers log in, end sessions and change the password, and other  *)
(* tabs of this browser share its cookie.                                  *)
(***************************************************************************)
EXTENDS Naturals, FiniteSets

CONSTANTS
  MaxTokens,    \* bound: sessions ever granted
  MaxPasswords, \* bound: passwords ever set
  MaxCalls,     \* bound: calls under way when the user makes another
  MaxFaults,    \* bound: calls lost, and restarts of the service
  None

ASSUME ConstantsAssumption ==
  /\ MaxTokens \in Nat /\ MaxPasswords \in Nat /\ MaxCalls \in Nat /\ MaxFaults \in Nat
  /\ None \notin Nat

Tokens == 1..MaxTokens
Logins == {"tab", "other"}

VARIABLES
  owner, sessions, ending, granted, ask, \* the service
  page,   \* the welcome page, or a page of the menu
  csrf,   \* the session of the CSRF value
  cookie, \* the session of the browser's cookie
  login,  \* the call of the form, whose button is disabled meanwhile
  calls,  \* the other calls under way
  stream, \* the terminal's WebSocket
  faults

Registry == INSTANCE SessionRegistry

service == <<owner, sessions, ending, granted, ask>>
vars == <<owner, sessions, ending, granted, ask, page, csrf, cookie, login, calls,
          stream, faults>>

\* What a call carries: the cookie and, where it matters here, the CSRF value.
Call(kind) == [kind |-> kind, token |-> cookie,
               csrf |-> IF kind = "logout" THEN csrf ELSE None, reply |-> "none"]

\* Bound: GET /session is under way once for each of its two callers.
Alone(kind) == \A c \in calls : c.kind # kind

Init ==
  /\ Registry!Init
  /\ page = "auth"
  /\ csrf = None /\ cookie = None
  /\ login = None /\ stream = "none" /\ faults = 0
  /\ calls = {Call("resume")}

Fault == faults < MaxFaults /\ faults' = faults + 1

-----------------------------------------------------------------------------
(* The welcome page.                                                       *)

\* showAuth().
ShowAuth == page' = "auth"

\* terminal(): the menu; startNode is one of its calls.
Terminal == page' = "menu"

\* The form is the one /auth-status told of, now or earlier: a device that was set up
\* remains so, and one that was not may be by now.
Submit(form) ==
  /\ page = "auth" /\ login = None
  /\ form = "login" => owner # 0
  /\ login' = [stage |-> form, given |-> None]
  /\ UNCHANGED <<service, page, csrf, cookie, calls, stream, faults>>

LoginBegins ==
  /\ login # None /\ login.stage \in {"setup", "login"}
  /\ \/ /\ login.stage = "setup" => owner = 0
        /\ Registry!Ask("tab")
        /\ login' = [login EXCEPT !.stage = "begun"]
     \/ /\ login.stage = "setup" /\ owner # 0
        /\ login' = None                  \* told that it is set up
        /\ UNCHANGED service
  /\ UNCHANGED <<page, csrf, cookie, calls, stream, faults>>

\* The session granted next.
NextToken == Cardinality(granted) + 1

LoginGrants(t) ==
  /\ ask["tab"] = "asked" /\ t = NextToken
  /\ Registry!Grant("tab", t)
  /\ login' = IF login = None \/ login.stage # "begun" THEN login
              ELSE [stage |-> "answered", given |-> t]
  /\ UNCHANGED <<page, csrf, cookie, calls, stream, faults>>

LoginRefuses ==
  /\ Registry!Refuse("tab")
  /\ login' = IF login = None \/ login.stage # "begun" THEN login ELSE None
  /\ UNCHANGED <<page, csrf, cookie, calls, stream, faults>>

\* The answer comes, with its cookie; errors, and a loss, leave the form.
LoginArrives ==
  /\ login # None
  /\ login' = None
  /\ \/ /\ login.stage = "answered"
        /\ csrf' = login.given /\ cookie' = login.given
        /\ Terminal
        /\ UNCHANGED faults
     \/ /\ Fault
        /\ UNCHANGED <<csrf, cookie, page>>
  /\ UNCHANGED <<service, calls, stream>>

-----------------------------------------------------------------------------
(* Calls and what the service answers.                                     *)

\* A poll or another call of a page, or the logout button.
CallApi ==
  /\ page = "menu" /\ Cardinality(calls) < MaxCalls
  /\ calls' = calls \union {Call("api")}
  /\ UNCHANGED <<service, page, csrf, cookie, login, stream, faults>>

ClickLogout ==
  /\ page = "menu" /\ Cardinality(calls) < MaxCalls
  /\ calls' = calls \union {Call("logout")}
  /\ UNCHANGED <<service, page, csrf, cookie, login, stream, faults>>

\* keepSession, every five minutes and whenever the tab is looked at.
KeepSession ==
  /\ csrf # None
  /\ Alone("keep")
  /\ calls' = calls \union {Call("keep")}
  /\ UNCHANGED <<service, page, csrf, cookie, login, stream, faults>>

\* The answers, with what the tab takes from them: a session that is there, or none.
Ok(c)      == [c EXCEPT !.reply = "ok", !.csrf = None]
Refused(c) == [kind |-> c.kind, token |-> None, csrf |-> None, reply |-> "401"]

Replied(c, answer) == calls' = (calls \ {c}) \union {answer}

\* An answer to a session that is an hour old renews the cookie.
Renewed(c) == cookie' \in {cookie, c.token}

\* GET /session.
Answer(c) ==
  /\ c.kind \in {"resume", "keep"} /\ c.reply = "none"
  /\ Replied(c, IF c.token \in sessions THEN Ok(c) ELSE Refused(c))
  /\ UNCHANGED <<service, page, csrf, cookie, login, stream, faults>>

\* Another call of a session: what a page does with it is that page's affair.
AnswerApi(c) ==
  /\ c.kind = "api" /\ c.reply = "none"
  /\ IF c.token \in sessions THEN calls' = calls \ {c} /\ Renewed(c)
                             ELSE Replied(c, Refused(c)) /\ UNCHANGED cookie
  /\ UNCHANGED <<service, page, csrf, login, stream, faults>>

\* A logout with the CSRF value of another session changes nothing, here as there.
AnswerLogout(c) ==
  /\ c.kind = "logout" /\ c.reply = "none"
  /\ \/ /\ c.token \notin sessions
        /\ Replied(c, Refused(c)) /\ UNCHANGED service
     \/ /\ c.token \in sessions /\ c.csrf # c.token
        /\ calls' = calls \ {c} /\ UNCHANGED service
     \/ /\ c.token \in sessions /\ c.csrf = c.token
        /\ sessions' = sessions \ {c.token}
        /\ Replied(c, Ok(c)) /\ UNCHANGED <<owner, ending, granted, ask>>
  /\ UNCHANGED <<page, csrf, cookie, login, stream, faults>>

\* A call or its answer is lost: only resume() cares, as when there is no session.
Lost(c) == IF c.kind = "resume" THEN {Refused(c)} ELSE {}

Lose(c) ==
  /\ Fault
  /\ calls' = (calls \ {c}) \union Lost(c)
  /\ UNCHANGED <<service, page, csrf, cookie, login, stream>>

-----------------------------------------------------------------------------
(* Answers to the tab.                                                     *)

\* ws.close(): the stream is there until onclose.
CloseStream == stream' = IF stream = "none" THEN "none" ELSE "closing"

ResumeArrives(c) ==
  /\ c.kind = "resume" /\ c.reply # "none"
  /\ calls' = calls \ {c}
  /\ IF c.reply = "ok" THEN csrf' = c.token /\ Terminal /\ Renewed(c)
                       ELSE ShowAuth /\ UNCHANGED <<csrf, cookie>>
  /\ UNCHANGED <<service, login, stream, faults>>

\* Defect: a session that is still there leaves the CSRF value as it was.
KeepArrivesForgetful(c) ==
  /\ c.kind = "keep" /\ c.reply # "none"
  /\ calls' = calls \ {c}
  /\ \/ c.reply = "ok" /\ Renewed(c) /\ UNCHANGED <<page, csrf, stream>>
     \/ c.reply = "401" /\ csrf' = None /\ CloseStream /\ ShowAuth /\ UNCHANGED cookie
  /\ UNCHANGED <<service, login, faults>>

\* The CSRF value follows the cookie; the end of the session closes the stream.
KeepArrives(c) ==
  /\ c.kind = "keep" /\ c.reply # "none"
  /\ calls' = calls \ {c}
  /\ \/ /\ c.reply = "ok"
        /\ csrf' = c.token /\ Renewed(c)
        /\ UNCHANGED <<page, stream>>
     \/ /\ c.reply = "401"
        /\ csrf' = None /\ CloseStream /\ ShowAuth
        /\ UNCHANGED cookie
  /\ UNCHANGED <<service, login, faults>>

\* The page of the settings shows the welcome page, after a look at /session in
\* the device's; the dashboard only shows the error; the dialogs of the sessions and
\* of the password end the session here too.  A password changed in this tab is one
\* changed elsewhere, with this answer to the call.
ApiArrives(c) ==
  /\ c.kind = "api" /\ c.reply = "401"
  /\ calls' = calls \ {c}
  /\ \/ ShowAuth /\ UNCHANGED <<csrf, stream>>
     \/ UNCHANGED <<page, csrf, stream>>
     \/ csrf' = None /\ CloseStream /\ ShowAuth
  /\ UNCHANGED <<service, cookie, login, faults>>

\* Defect: the end of the session leaves the stream open.
LogoutArrivesOpen(c) ==
  /\ c.kind = "logout" /\ c.reply # "none"
  /\ calls' = calls \ {c}
  /\ cookie' = IF c.reply = "ok" THEN None ELSE cookie
  /\ csrf' = None /\ ShowAuth
  /\ UNCHANGED <<service, login, stream, faults>>

\* finishLogout; success also deletes the cookie.
LogoutArrives(c) ==
  /\ c.kind = "logout" /\ c.reply # "none"
  /\ calls' = calls \ {c}
  /\ cookie' = IF c.reply = "ok" THEN None ELSE cookie
  /\ csrf' = None /\ CloseStream /\ ShowAuth
  /\ UNCHANGED <<service, login, faults>>

\* ensureTerminal.
OpenTerminal ==
  /\ page = "menu" /\ stream = "none"
  /\ stream' = "open"
  /\ UNCHANGED <<service, page, csrf, cookie, login, calls, faults>>

\* onclose, for whatever reason: without a session, too many streams, a lost connection.
StreamCloses ==
  /\ stream # "none" /\ Alone("resume")
  /\ stream' = "none"
  /\ calls' = IF csrf = None THEN calls ELSE calls \union {Call("resume")}
  /\ UNCHANGED <<service, page, csrf, cookie, login, faults>>

Reload ==
  /\ page' = "auth"
  /\ csrf' = None /\ login' = None /\ stream' = "none"
  /\ calls' = {Call("resume")}
  /\ UNCHANGED <<service, cookie, faults>>

-----------------------------------------------------------------------------
(* Elsewhere.                                                              *)

\* Another browser, or another tab of this one, whose cookie it then is.
OtherLogin(t) ==
  /\ t = NextToken
  /\ Registry!Grant("other", t)
  /\ cookie' \in {cookie, t}
  /\ UNCHANGED <<page, csrf, login, calls, stream, faults>>

SessionsEnd ==
  /\ \/ Registry!End
     \/ Registry!SetPassword /\ owner < MaxPasswords
  /\ UNCHANGED <<page, csrf, cookie, login, calls, stream, faults>>

\* The service restarts: what is under way fails.
Restart ==
  /\ Fault
  /\ Registry!Restart
  /\ login' = IF login = None \/ login.stage # "answered" THEN None ELSE login
  /\ calls' = {c \in calls : c.reply # "none"} \union UNION {Lost(c) : c \in calls}
  /\ UNCHANGED <<page, csrf, cookie, stream>>

Next ==
  \/ \E form \in {"setup", "login"} : Submit(form)
  \/ LoginBegins \/ LoginRefuses \/ LoginArrives
  \/ \E t \in Tokens : LoginGrants(t) \/ OtherLogin(t)
  \/ CallApi \/ ClickLogout \/ KeepSession
  \/ \E c \in calls :
       \/ Answer(c) \/ AnswerApi(c) \/ AnswerLogout(c) \/ Lose(c)
       \/ ResumeArrives(c) \/ KeepArrives(c) \/ ApiArrives(c) \/ LogoutArrives(c)
  \/ OpenTerminal \/ StreamCloses \/ Reload
  \/ SessionsEnd \/ Restart

\* The timer of keepSession fires; the service answers it; the handler runs.
KeepAnswered == \E c \in calls : c.kind = "keep" /\ Answer(c)
KeepHandled  == \E c \in calls : KeepArrives(c)

Spec == /\ Init /\ [][Next]_vars
        /\ WF_vars(KeepSession) /\ WF_vars(KeepAnswered) /\ WF_vars(KeepHandled)

-----------------------------------------------------------------------------
(* Properties.                                                             *)

\* Sessions a cookie, a CSRF value or a call may name.
Held == granted \union {None}

\* Types; a login that was answered and a session that was found name the session.
TypeOK ==
  /\ owner \in Nat
  /\ granted \subseteq Tokens /\ sessions \subseteq granted /\ ending \subseteq granted
  /\ ask \in [Logins -> {"none", "asked", "void"}]
  /\ page \in {"auth", "menu"} /\ stream \in {"none", "open", "closing"}
  /\ csrf \in Held /\ cookie \in Held
  /\ login \in {None} \union [stage : {"setup", "login", "begun"}, given : {None}]
                      \union [stage : {"answered"}, given : granted]
  /\ calls \subseteq [kind : {"resume", "keep", "api", "logout"}, token : Held,
                      csrf : Held, reply : {"none", "ok", "401"}]
  /\ \A c \in calls : c.reply = "ok" => c.token # None
  /\ faults \in 0..MaxFaults

\* A tab that shows the menu, or has its terminal open, holds the CSRF value of a
\* session, so that keepSession goes on asking for it and onclose looks for another:
\* whatever clears the value, at whatever moment, also leaves the menu and closes the
\* stream.
TabWatched == (page = "menu" \/ stream = "open") => csrf # None

\* A tab that shows the menu with a session that ended, or with the CSRF value of
\* another one, asks for a login or finds a session again, whatever answers come late.
TabSettles ==
  (page = "menu" /\ (cookie \notin sessions \/ csrf # cookie))
    ~> (page = "auth" \/ (cookie \in sessions /\ csrf = cookie))
=============================================================================
