----------------------------- MODULE AdminAuth -----------------------------
(***************************************************************************)
(* Operator accounts, TOTP codes and server-side sessions (admin_auth.py,   *)
(* cli.py, auth.py).  A login is taken apart where it can be overtaken: the *)
(* account is read and both factors are checked against what was read, then *)
(* a conditional UPDATE consumes the code and locks the account's row, then *)
(* the session is inserted and the transaction commits.  The commands of    *)
(* the CLI run in another process; each begins by updating the account's    *)
(* row, so each is one step that waits for a login holding that row.        *)
(* Failed logins only write an audit row and are left out.                  *)
(***************************************************************************)
EXTENDS Integers, FiniteSets

CONSTANTS
    Admins,          \* e-mails
    Sessions,        \* session rows (raw tokens)
    Workers,         \* request threads that serve logins
    None,
    Idle, Absolute,  \* LM_ADMIN_SESSION_*_SECONDS, in TOTP steps of 30 s
    Day,             \* one day, in TOTP steps
    MaxNow,          \* bound: the clock stops here
    MaxSecrets       \* bound: passwords, and TOTP secrets, an account goes through

ASSUME ConstantsAssumption ==
    /\ None \notin Admins
    /\ {Idle, Absolute, Day} \subseteq Nat \ {0}
    /\ MaxNow \in Nat /\ MaxSecrets \in Nat

VARIABLES
    now,       \* the current TOTP step; it starts at 1
    user,      \* admin_users
    session,   \* admin_sessions, and what each session was opened with
    login      \* login[w]: the login worker w is serving

vars == <<now, user, session, login>>

\* Passwords and TOTP secrets are numbered per account: a new one is the next.
NoStep == -1   \* totp_last_step IS NULL
NoUser == [known |-> FALSE, active |-> FALSE, pw |-> 0, secret |-> 0, last |-> NoStep]
NoSession == [owner |-> None, seen |-> 0, expires |-> 0, revoked |-> FALSE,
              pw |-> 0, secret |-> 0, step |-> 0, raced |-> FALSE]
NoLogin == [at |-> "idle", who |-> None, pw |-> 0, secret |-> 0, step |-> 0, raced |-> FALSE]

Exists(s) == session[s].owner # None

\* resolve_session returns the owner.
Usable(s) ==
    /\ Exists(s)
    /\ ~session[s].revoked
    /\ user[session[s].owner].active
    /\ session[s].expires > now
    /\ now - session[s].seen =< Idle

Init ==
    /\ now = 1
    /\ user = [a \in Admins |-> NoUser]
    /\ session = [s \in Sessions |-> NoSession]
    /\ login = [w \in Workers |-> NoLogin]

Tick ==
    /\ now < MaxNow
    /\ now' = now + 1
    /\ UNCHANGED <<user, session, login>>

-----------------------------------------------------------------------------
(* The operator's CLI.                                                      *)

\* Mutant: the UPDATE of a login does not lock the row.
Unlocked_Never(a) == TRUE

\* The row of a is not locked by a login.
Unlocked(a) == \A w \in Workers : ~(login[w].at = "holding" /\ login[w].who = a)

\* UPDATE admin_users; the logins under way that have read the old row race it.
Change(a, row) ==
    /\ Unlocked(a)
    /\ user' = [user EXCEPT ![a] = row]
    /\ login' = [w \in Workers |-> IF login[w].who = a THEN [login[w] EXCEPT !.raced = TRUE]
                                    ELSE login[w]]
    /\ UNCHANGED now

\* revoke_user_sessions: what is committed by now, and nothing else.
Revoked(a) ==
    [s \in Sessions |-> IF session[s].owner = a THEN [session[s] EXCEPT !.revoked = TRUE]
                        ELSE session[s]]

CreateAdmin(a) ==
    /\ ~user[a].known
    /\ Change(a, [known |-> TRUE, active |-> TRUE, pw |-> 1, secret |-> 1, last |-> NoStep])
    /\ UNCHANGED session

\* Mutant: the sessions of the old password stay open.
ResetPassword_SessionsStay(a) ==
    /\ user[a].known /\ user[a].pw < MaxSecrets
    /\ Change(a, [user[a] EXCEPT !.pw = @ + 1])
    /\ UNCHANGED session

ResetPassword(a) ==
    /\ user[a].known /\ user[a].pw < MaxSecrets
    /\ Change(a, [user[a] EXCEPT !.pw = @ + 1])
    /\ session' = Revoked(a)

ResetTotp(a) ==
    /\ user[a].known /\ user[a].secret < MaxSecrets
    /\ Change(a, [user[a] EXCEPT !.secret = @ + 1, !.last = NoStep])
    /\ session' = Revoked(a)

\* Mutant: disabling relies on is_active alone.
Disable_SessionsStay(a) ==
    /\ user[a].known
    /\ Change(a, [user[a] EXCEPT !.active = FALSE])
    /\ UNCHANGED session

Disable(a) ==
    /\ user[a].known
    /\ Change(a, [user[a] EXCEPT !.active = FALSE])
    /\ session' = Revoked(a)

Enable(a) ==
    /\ user[a].known
    /\ Change(a, [user[a] EXCEPT !.active = TRUE])
    /\ UNCHANGED session

\* The account's row is only read: a login holding it does not hold this off.
RevokeSessions(a) ==
    /\ user[a].known
    /\ session' = Revoked(a)
    /\ UNCHANGED <<now, user, login>>

-----------------------------------------------------------------------------
(* Logging in.                                                              *)

\* Password and code are right for the account as it is read here; the code is
\* that of the current step, the one before or the one after.
CheckFactors(w, a, step) ==
    /\ login[w].at = "idle"
    /\ user[a].known /\ user[a].active
    /\ login' = [login EXCEPT ![w] = [at |-> "checked", who |-> a, pw |-> user[a].pw,
                                      secret |-> user[a].secret, step |-> step,
                                      raced |-> FALSE]]
    /\ UNCHANGED <<now, user, session>>

\* Mutant: the UPDATE does not ask for a later step.
ConsumeCode_AnyStep(w) ==
    LET a == login[w].who IN
    /\ login[w].at = "checked"
    /\ Unlocked(a)
    /\ login' = [login EXCEPT ![w].at = "holding"]
    /\ UNCHANGED <<now, user, session>>

\* The conditional UPDATE of totp_last_step: the row is locked, and seen by
\* others only after the commit.
ConsumeCode(w) ==
    LET a == login[w].who IN
    /\ login[w].at = "checked"
    /\ Unlocked(a)
    /\ user[a].last < login[w].step
    /\ login' = [login EXCEPT ![w].at = "holding"]
    /\ UNCHANGED <<now, user, session>>

\* The code was used meanwhile.
RefuseCode(w) ==
    /\ login[w].at = "checked"
    /\ Unlocked(login[w].who)
    /\ user[login[w].who].last >= login[w].step
    /\ login' = [login EXCEPT ![w] = NoLogin]
    /\ UNCHANGED <<now, user, session>>

\* create_session forgets the sessions that expired a day ago.
Housekept(s) == Exists(s) /\ session[s].expires + Day < now

OpenSession(w, s) ==
    LET l == login[w]
        new == [owner |-> l.who, seen |-> now, expires |-> now + Absolute, revoked |-> FALSE,
                pw |-> l.pw, secret |-> l.secret, step |-> l.step, raced |-> l.raced]
    IN
    /\ l.at = "holding"
    /\ ~Exists(s)
    /\ user' = [user EXCEPT ![l.who].last = l.step]
    /\ session' = [r \in Sessions |->
                     IF r = s THEN new ELSE IF Housekept(r) THEN NoSession ELSE session[r]]
    /\ login' = [login EXCEPT ![w] = NoLogin]
    /\ UNCHANGED now

\* The process or its connection is gone: rollback, the code is not consumed.
Abort(w) ==
    /\ login[w].at # "idle"
    /\ login' = [login EXCEPT ![w] = NoLogin]
    /\ UNCHANGED <<now, user, session>>

-----------------------------------------------------------------------------
(* Requests with the session cookie.                                        *)

\* admin_identity: a request that is let in slides the idle timer.  The SELECT
\* and the UPDATE are one step: the UPDATE sets last_seen_at alone, to an
\* instant at which the session was usable, so a revocation or a command in
\* between leaves the same row as one that comes after.
Resolve(s) ==
    /\ Usable(s)
    /\ session' = [session EXCEPT ![s].seen = now]
    /\ UNCHANGED <<now, user, login>>

Logout(s) ==
    /\ Exists(s) /\ ~session[s].revoked
    /\ session' = [session EXCEPT ![s].revoked = TRUE]
    /\ UNCHANGED <<now, user, login>>

Cli(a) ==
    \/ CreateAdmin(a) \/ ResetPassword(a) \/ ResetTotp(a)
    \/ Disable(a) \/ Enable(a) \/ RevokeSessions(a)

Login(w) ==
    \/ \E a \in Admins, step \in now - 1 .. now + 1 : CheckFactors(w, a, step)
    \/ ConsumeCode(w) \/ RefuseCode(w) \/ Abort(w)
    \/ \E s \in Sessions : OpenSession(w, s)

Next ==
    \/ Tick
    \/ \E a \in Admins : Cli(a)
    \/ \E w \in Workers : Login(w)
    \/ \E s \in Sessions : Resolve(s) \/ Logout(s)

Spec == Init /\ [][Next]_vars

-----------------------------------------------------------------------------
(* Properties.                                                              *)

UserRow == [known : BOOLEAN, active : BOOLEAN, pw : Nat, secret : Nat, last : Nat \cup {NoStep}]
SessionRow == [owner : Admins \cup {None}, seen : Nat, expires : Nat, revoked : BOOLEAN,
               pw : Nat, secret : Nat, step : Nat, raced : BOOLEAN]
LoginState == [at : {"idle", "checked", "holding"}, who : Admins \cup {None},
               pw : Nat, secret : Nat, step : Nat, raced : BOOLEAN]

\* Rows keep their columns' types, and no two logins hold the same account.
TypeOK ==
    /\ now \in Nat \ {0}
    /\ user \in [Admins -> UserRow]
    /\ session \in [Sessions -> SessionRow]
    /\ login \in [Workers -> LoginState]
    /\ \A v, w \in Workers :
          login[v].at = "holding" /\ login[w].at = "holding" /\ login[v].who = login[w].who
              => v = w

\* However logins overlap, no two sessions were opened with one code of the
\* secret in force.
CodeUsedOnce ==
    \A r, s \in Sessions :
        /\ Exists(r) /\ Exists(s) /\ session[r].owner = session[s].owner
        /\ session[r].step = session[s].step
        /\ session[r].secret = session[s].secret
        /\ session[s].secret = user[session[s].owner].secret
        => r = s

\* A usable session opened with a password or a secret since replaced belongs
\* to a login that had passed its checks before the command that replaced it.
OnlyRacesOutliveReset ==
    \A s \in Sessions : Usable(s) =>
        LET a == session[s].owner IN
        session[s].pw # user[a].pw \/ session[s].secret # user[a].secret => session[s].raced

\* A session that stops being usable (idle, expired, revoked, account disabled)
\* never comes back, not even when the account is enabled again, unless its
\* login overlapped a command on the account.
DeadStaysDead ==
    [][\A s \in Sessions :
          Exists(s) /\ ~Usable(s) /\ session'[s].owner = session[s].owner /\ Usable(s)'
              => session[s].raced]_vars
=============================================================================
