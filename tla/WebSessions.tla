---------------------------- MODULE WebSessions ----------------------------
(***************************************************************************)
(* The sessions of the web service (src/web/server.py): setup and login,   *)
(* logout and revocation, a new password, expiry, the terminal streams     *)
(* that live by a session, failed writes and restarts.                     *)
(*                                                                         *)
(* Handlers run to their next await.  A login reads session_revision,      *)
(* awaits its body, and only then grants; a stream checks its session,     *)
(* awaits the handshake and its program, and only then can be closed by a  *)
(* revocation.  A session is named by its token, which is never reused.    *)
(***************************************************************************)
EXTENDS Naturals

CONSTANTS
  MaxTokens,    \* bound: sessions ever granted
  MaxPasswords, \* bound: passwords ever set
  MaxFaults,    \* bound: writes that fail
  Logins,       \* bound: logins the service handles at a time
  Streams,      \* bound: terminal streams; the code allows four
  None

Tokens == 1..MaxTokens

ASSUME ConstantsAssumption ==
  /\ MaxTokens \in Nat /\ MaxPasswords \in Nat \ {0} /\ MaxFaults \in Nat
  /\ None \notin [path : {"setup", "login"}, valid : BOOLEAN]
  /\ None \notin [token : Tokens, registered : BOOLEAN]

VARIABLES
  admin,   \* admin.json: the password in force; 0 before the first setup
  live,    \* sessions in memory
  saved,   \* sessions.json: sessions and the password they were saved under
  issued,  \* how many sessions were granted: the latest one is the number `issued`
  begun,   \* a login that awaits its body; whether its revision is session_revision
  change,  \* a request for a new password has been checked and awaits its turn
  streams, \* a terminal stream; whether session_streams holds it
  faults   \* writes that failed

vars == <<admin, live, saved, issued, begun, change, streams, faults>>

\* Defect: the password they were saved under is not compared.
LoadableAnyway == saved.tokens

\* load_sessions: those saved under the password in force.
Loadable == IF admin # 0 /\ saved.admin = admin THEN saved.tokens ELSE {}

Init ==
  /\ admin = 0
  /\ live = {} /\ saved = [admin |-> 0, tokens |-> {}] /\ issued = 0
  /\ begun = [l \in Logins |-> None] /\ change = FALSE
  /\ streams = [s \in Streams |-> None]
  /\ faults = 0

-----------------------------------------------------------------------------
(* Saving and revoking.                                                    *)

\* save_sessions: the new sessions, under the password of the time, or an error, before
\* the file is renamed or, syncing its directory, after it.
Save ==
  LET fresh == [admin |-> admin', tokens |-> live'] IN
  \/ saved' = fresh /\ UNCHANGED faults
  \/ faults < MaxFaults /\ faults' = faults + 1 /\ saved' \in {saved, fresh}

Saved == faults' = faults

\* close_revoked_streams.
CloseRevoked ==
  streams' = [s \in Streams |->
                IF streams[s] # None /\ streams[s].registered /\ streams[s].token \notin live'
                  THEN None ELSE streams[s]]

\* session_revision moves: no login under way has it any more.
Voided ==
  [l \in Logins |-> IF begun[l] = None THEN None ELSE [begun[l] EXCEPT !.valid = FALSE]]

\* revoke_sessions.  It writes only if one of the sessions was there, and an error of
\* the write leaves the streams to output().
Revoke(keys, invalidate) ==
  /\ live' = live \ keys
  /\ begun' = IF invalidate THEN Voided ELSE begun
  /\ IF live \intersect keys = {} THEN UNCHANGED <<saved, faults>> ELSE Save
  /\ IF Saved THEN CloseRevoked ELSE UNCHANGED streams

-----------------------------------------------------------------------------
(* Setup and login.                                                        *)

\* The revision is read, and the body awaited.  /setup, which is there only until
\* there is a password, awaits its body before it goes the same way.
LoginBegins(l, path) ==
  /\ begun[l] = None
  /\ path = "setup" => admin = 0
  /\ begun' = [begun EXCEPT ![l] = [path |-> path, valid |-> TRUE]]
  /\ UNCHANGED <<admin, live, saved, issued, change, streams, faults>>

MayGrant(l) == begun[l] # None /\ (begun[l].path = "setup" \/ begun[l].valid)

\* The body brings the right password or, while there is none, the first one.
LoginGrants(l) ==
  /\ MayGrant(l)
  /\ issued < MaxTokens
  /\ issued' = issued + 1
  /\ admin' = IF admin = 0 THEN 1 ELSE admin
  /\ live' = live \union {issued'}
  /\ Save
  /\ begun' = [begun EXCEPT ![l] = None]
  /\ UNCHANGED <<change, streams>>

\* It does not come, brings another password, or finds the revision moved.
LoginRefuses(l) ==
  /\ begun[l] # None
  /\ begun' = [begun EXCEPT ![l] = None]
  /\ UNCHANGED <<admin, live, saved, issued, change, streams, faults>>

-----------------------------------------------------------------------------
(* The ends of a session.                                                  *)

\* Logout, or the revocation of one session; the service tells success only if the
\* session was there.
EndOne(t) ==
  /\ t \in live
  /\ UNCHANGED admin
  /\ Revoke({t}, FALSE)
  /\ UNCHANGED <<issued, change>>

\* revoke_others, asked by session t.
EndOthers(t) ==
  /\ t \in live
  /\ UNCHANGED admin
  /\ Revoke(live \ {t}, TRUE)
  /\ UNCHANGED <<issued, change>>

\* The Tor listener stops: its sessions, whichever they are, end.
EndTor(keys) ==
  /\ UNCHANGED admin
  /\ Revoke(keys, TRUE)
  /\ UNCHANGED <<issued, change>>

\* A new password is asked for by a session, which may end while its request awaits the
\* lock of DeviceSettings.
AskPassword ==
  /\ live # {} /\ ~change
  /\ change' = TRUE
  /\ UNCHANGED <<admin, live, saved, issued, begun, streams, faults>>

\* The password it gives as the current one is not, or not any more.
RefusePassword ==
  /\ change /\ change' = FALSE
  /\ UNCHANGED <<admin, live, saved, issued, begun, streams, faults>>

\* admin.json is written, then all sessions end.
SetPassword ==
  /\ change /\ change' = FALSE
  /\ admin < MaxPasswords
  /\ admin' = admin + 1
  /\ Revoke(live, TRUE)
  /\ UNCHANGED issued

\* renew_session puts the end of a session off and saves what is in memory.
Renew ==
  /\ live # {}
  /\ UNCHANGED <<admin, live, issued, begun, change, streams>>
  /\ Save

\* Seven days without use: refused in memory and in the file, and removed from both by
\* the next write.
Expire(t) ==
  /\ t \in live \union saved.tokens
  /\ live' = live \ {t}
  /\ saved' = [saved EXCEPT !.tokens = @ \ {t}]
  /\ UNCHANGED <<admin, issued, begun, change, streams, faults>>

-----------------------------------------------------------------------------
(* Streams.                                                                *)

\* terminal(): the session is checked.
StreamBegins(s, t) ==
  /\ streams[s] = None /\ t \in live
  /\ streams' = [streams EXCEPT ![s] = [token |-> t, registered |-> FALSE]]
  /\ UNCHANGED <<admin, live, saved, issued, begun, change, faults>>

StreamRegistered(s) ==
  /\ streams[s] # None /\ ~streams[s].registered
  /\ streams' = [streams EXCEPT ![s].registered = TRUE]
  /\ UNCHANGED <<admin, live, saved, issued, begun, change, faults>>

\* Defect: output() relies on revocations to close its stream.
OutputRuns(s) == FALSE

\* output(): it checks the session before it sends what the program wrote.
OutputEnds(s) ==
  /\ streams[s] # None /\ streams[s].registered /\ streams[s].token \notin live
  /\ streams' = [streams EXCEPT ![s] = None]
  /\ UNCHANGED <<admin, live, saved, issued, begun, change, faults>>

\* The browser leaves, or the program ends.
StreamEnds(s) ==
  /\ streams[s] # None
  /\ streams' = [streams EXCEPT ![s] = None]
  /\ UNCHANGED <<admin, live, saved, issued, begun, change, faults>>

-----------------------------------------------------------------------------
(* Restarts.                                                               *)

Restarted ==
  /\ begun' = [l \in Logins |-> None] /\ change' = FALSE
  /\ streams' = [s \in Streams |-> None]
  /\ UNCHANGED <<saved, issued, faults>>
  /\ live' = Loadable'

Restart == UNCHANGED admin /\ Restarted

\* The service ends between its writes of admin.json and of sessions.json.
CutOff ==
  /\ IF admin = 0 THEN \E l \in Logins : begun[l] # None ELSE change
  /\ admin < MaxPasswords /\ admin' = admin + 1
  /\ Restarted

Next ==
  \/ \E l \in Logins :
       \/ \E path \in {"setup", "login"} : LoginBegins(l, path)
       \/ LoginGrants(l) \/ LoginRefuses(l)
  \/ \E t \in Tokens : EndOne(t) \/ EndOthers(t) \/ Expire(t)
  \/ \E keys \in SUBSET live : EndTor(keys)
  \/ AskPassword \/ RefusePassword \/ SetPassword \/ Renew
  \/ \E s \in Streams :
       \/ \E t \in Tokens : StreamBegins(s, t)
       \/ StreamRegistered(s) \/ OutputEnds(s) \/ StreamEnds(s)
  \/ Restart \/ CutOff

Spec == /\ Init /\ [][Next]_vars
        /\ \A s \in Streams : WF_vars(StreamRegistered(s)) /\ WF_vars(OutputEnds(s))

-----------------------------------------------------------------------------
(* Properties.                                                             *)

\* Types; a session is named by a number granted before.
TypeOK ==
  /\ admin \in 0..MaxPasswords /\ issued \in 0..MaxTokens /\ faults \in 0..MaxFaults
  /\ live \subseteq 1..issued
  /\ saved \in [admin : 0..MaxPasswords, tokens : SUBSET (1..issued)]
  /\ begun \in [Logins -> {None} \union [path : {"setup", "login"}, valid : BOOLEAN]]
  /\ change \in BOOLEAN
  /\ streams \in [Streams -> {None} \union [token : 1..issued, registered : BOOLEAN]]

Registry == INSTANCE SessionRegistry WITH
  owner    <- admin,
  sessions <- live,
  ending   <- Loadable \ live,
  granted  <- 1..issued,
  ask      <- [l \in Logins |-> IF begun[l] = None THEN "none"
                                ELSE IF begun[l].path = "setup" THEN "none"
                                ELSE IF begun[l].valid THEN "asked" ELSE "void"]

\* The service keeps the promises of SessionRegistry across failed writes and
\* restarts: no session comes back, a login that a revocation overtook is not
\* granted, and a new password ends all sessions and voids all logins at once.
ImplementsRegistry == Registry!Spec

\* A terminal does not outlive its session: also not when the session ended between
\* its check and the registration of the stream, or when a write failed.
StreamsEnd ==
  \A s \in Streams, t \in Tokens :
    (streams[s] # None /\ streams[s].token = t /\ t \notin live)
      ~> (streams[s] = None \/ streams[s].token # t)
=============================================================================
