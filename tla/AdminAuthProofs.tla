-------------------------- MODULE AdminAuthProofs --------------------------
(***************************************************************************)
(* Machine-checked proofs about AdminAuth, for any number of accounts,      *)
(* sessions and concurrent logins.  The inductive invariant says what each  *)
(* conditional UPDATE relies on: a login holding an account's row still has *)
(* a later step than the row's, no session of the secret in force is ahead  *)
(* of totp_last_step, and a login or an open session that no command has    *)
(* raced was checked against the row as it is.                              *)
(***************************************************************************)
EXTENDS AdminAuth, TLAPS

\* An account that does not exist has no sessions and nobody logging in to it.
NoStrangers ==
    \A a \in Admins : ~user[a].known =>
        /\ user[a].secret = 0
        /\ \A s \in Sessions : session[s].owner # a
        /\ \A w \in Workers : login[w].who # a

\* What a login under way knows of its account.
LoginsSound ==
    \A w \in Workers : login[w].at # "idle" =>
        LET a == login[w].who IN
        /\ a \in Admins
        /\ login[w].secret =< user[a].secret
        /\ login[w].at = "holding" => user[a].last < login[w].step
        /\ ~login[w].raced =>
              user[a].active /\ login[w].pw = user[a].pw /\ login[w].secret = user[a].secret

\* What a session knows of its account.
SessionsSound ==
    \A s \in Sessions : Exists(s) =>
        LET a == session[s].owner IN
        /\ session[s].secret =< user[a].secret
        /\ session[s].secret = user[a].secret => session[s].step =< user[a].last
        /\ ~session[s].revoked /\ ~session[s].raced =>
              user[a].active /\ session[s].pw = user[a].pw /\ session[s].secret = user[a].secret

IInv == TypeOK /\ NoStrangers /\ LoginsSound /\ SessionsSound /\ CodeUsedOnce

\* The empty tables satisfy the invariant.
LEMMA InitInv == Init => IInv
BY ConstantsAssumption
DEF Init, IInv, TypeOK, UserRow, SessionRow, LoginState, NoUser, NoSession, NoLogin, NoStep,
    NoStrangers, LoginsSound, SessionsSound, CodeUsedOnce, Exists

\* revoke_user_sessions closes every session of the account and touches nothing else.
LEMMA RevokedRows ==
    ASSUME TypeOK, NEW a \in Admins, session' = Revoked(a)
    PROVE  /\ session' \in [Sessions -> SessionRow]
           /\ \A s \in Sessions : session'[s] = [session[s] EXCEPT !.revoked = session'[s].revoked]
           /\ \A s \in Sessions : session[s].owner = a => session'[s].revoked
           /\ \A s \in Sessions : session[s].owner # a => session'[s] = session[s]
<1>1. ASSUME NEW s \in Sessions, session[s].owner = a
      PROVE  /\ session'[s] \in SessionRow /\ session'[s].revoked
             /\ session'[s] = [session[s] EXCEPT !.revoked = session'[s].revoked]
  <2>1. session'[s] = [session[s] EXCEPT !.revoked = TRUE] /\ session[s] \in SessionRow
    BY <1>1 DEF Revoked, TypeOK
  <2> QED
    BY <2>1 DEF SessionRow
<1>2. ASSUME NEW s \in Sessions, session[s].owner # a
      PROVE  /\ session'[s] = session[s] /\ session[s] \in SessionRow
             /\ session'[s] = [session[s] EXCEPT !.revoked = session'[s].revoked]
  <2>1. session'[s] = session[s] /\ session[s] \in SessionRow
    BY <1>2 DEF Revoked, TypeOK
  <2> QED
    BY <2>1 DEF SessionRow
<1> QED
  BY <1>1, <1>2 DEF Revoked

\* A command that updates an account's row and closes its sessions, or creates
\* the account, or leaves its password, its secret and its standing alone, keeps
\* the invariant: the logins under way become races.
LEMMA ChangeInv ==
    ASSUME IInv, NEW a \in Admins, NEW row \in UserRow, Change(a, row), row.known,
           row.secret >= user[a].secret,
           row.last = user[a].last \/ row.secret > user[a].secret,
           \/ session' = Revoked(a)
           \/ UNCHANGED session /\ ~user[a].known
           \/ /\ UNCHANGED session
              /\ user[a].active => row.active
              /\ row.pw = user[a].pw /\ row.secret = user[a].secret
    PROVE  IInv'
<1> USE DEF IInv
<1>1. /\ user'[a] = row
      /\ \A b \in Admins \ {a} : user'[b] = user[b]
      /\ user' \in [Admins -> UserRow]
  BY DEF Change, TypeOK
<1>2. /\ login' \in [Workers -> LoginState]
      /\ \A w \in Workers : login[w].who = a => login'[w].raced
      /\ \A w \in Workers : login[w].who # a => login'[w] = login[w]
      /\ \A w \in Workers : login'[w] = [login[w] EXCEPT !.raced = login'[w].raced]
  BY DEF Change, TypeOK, LoginState
<1>3. /\ session' \in [Sessions -> SessionRow]
      /\ \A s \in Sessions : session'[s] = [session[s] EXCEPT !.revoked = session'[s].revoked]
      /\ \A s \in Sessions : session[s].owner # a => session'[s] = session[s]
  <2>1. CASE UNCHANGED session
    BY <2>1 DEF TypeOK, SessionRow
  <2>2. CASE session' = Revoked(a)
    BY <2>2, RevokedRows
  <2> QED
    BY <2>1, <2>2
<1>4. \A w \in Workers : /\ login'[w].at = login[w].at /\ login'[w].who = login[w].who
                         /\ login'[w].pw = login[w].pw /\ login'[w].secret = login[w].secret
                         /\ login'[w].step = login[w].step
  BY <1>2 DEF TypeOK, LoginState
<1>5. \A s \in Sessions : /\ session'[s].owner = session[s].owner
                          /\ session'[s].pw = session[s].pw /\ session'[s].secret = session[s].secret
                          /\ session'[s].step = session[s].step /\ session'[s].raced = session[s].raced
                          /\ Exists(s)' = Exists(s)
  BY <1>3 DEF TypeOK, SessionRow, Exists
<1>6. TypeOK'
  BY <1>1, <1>2, <1>3, <1>4 DEF TypeOK, Change
<1>7. NoStrangers'
  BY <1>1, <1>4, <1>5 DEF NoStrangers
<1>8. LoginsSound'
  <2>1. ASSUME NEW w \in Workers, login[w].at # "idle", login[w].who = a
        PROVE  /\ login[w].secret =< row.secret
               /\ login[w].at # "holding"
               /\ login'[w].raced
    BY <1>2, <2>1 DEF LoginsSound, TypeOK, UserRow, LoginState, Change, Unlocked
  <2> QED
    BY <1>1, <1>2, <1>4, <2>1 DEF LoginsSound
<1>9. SessionsSound'
  <2>1. ASSUME NEW s \in Sessions, Exists(s), session[s].owner = a
        PROVE  /\ session[s].secret =< row.secret
               /\ session[s].secret = row.secret => session[s].step =< row.last
    BY <2>1 DEF SessionsSound, TypeOK, UserRow, SessionRow
  <2>2. ASSUME NEW s \in Sessions, Exists(s), session[s].owner = a,
               ~session'[s].revoked, ~session[s].raced
        PROVE  row.active /\ session[s].pw = row.pw /\ session[s].secret = row.secret
    <3>1. session' # Revoked(a)
      BY <2>2, RevokedRows
    <3> QED
      BY <2>2, <3>1 DEF SessionsSound, NoStrangers
  <2>3. \A s \in Sessions : Exists(s) => session[s].owner \in Admins
    BY DEF Exists, TypeOK, SessionRow
  <2> QED
    BY <1>1, <1>3, <1>5, <2>1, <2>2, <2>3 DEF SessionsSound
<1>10. CodeUsedOnce'
  <2>1. \A s \in Sessions : Exists(s) => session[s].owner \in Admins
    BY DEF Exists, TypeOK, SessionRow
  <2>2. \A s \in Sessions : Exists(s) /\ session[s].secret = user'[session[s].owner].secret
            => session[s].secret = user[session[s].owner].secret
    <3>1. \A s \in Sessions : session[s].secret \in Nat
      BY DEF TypeOK, SessionRow
    <3>2. user[a].secret \in Nat /\ row.secret \in Nat
      BY DEF TypeOK, UserRow
    <3> QED
      BY <1>1, <2>1, <3>1, <3>2 DEF SessionsSound
  <2> QED
    BY <1>5, <2>2 DEF CodeUsedOnce
<1> QED
  BY <1>6, <1>7, <1>8, <1>9, <1>10

\* Revoking or using sessions, and nothing else, keeps the invariant.
LEMMA SessionRowsInv ==
    ASSUME IInv, session' \in [Sessions -> SessionRow],
           \A s \in Sessions :
              /\ session'[s].owner = session[s].owner /\ session'[s].pw = session[s].pw
              /\ session'[s].secret = session[s].secret /\ session'[s].step = session[s].step
              /\ session'[s].raced = session[s].raced
              /\ session[s].revoked => session'[s].revoked,
           UNCHANGED <<now, user, login>>
    PROVE  IInv'
<1> USE DEF IInv
<1>1. \A s \in Sessions : Exists(s)' = Exists(s)
  BY DEF Exists
<1>2. TypeOK' /\ NoStrangers' /\ LoginsSound'
  BY DEF TypeOK, NoStrangers, LoginsSound
<1>3. SessionsSound'
  BY <1>1 DEF SessionsSound
<1>4. CodeUsedOnce'
  BY <1>1 DEF CodeUsedOnce
<1> QED
  BY <1>2, <1>3, <1>4

\* The commands of the CLI keep the invariant.
LEMMA CliInv == ASSUME IInv, NEW a \in Admins, Cli(a) PROVE IInv'
<1> USE DEF IInv
<1>1. user[a] \in UserRow
  BY DEF TypeOK
<1>2. CASE CreateAdmin(a)
  <2> DEFINE row == [known |-> TRUE, active |-> TRUE, pw |-> 1, secret |-> 1, last |-> NoStep]
  <2>1. ~user[a].known /\ user[a].secret = 0
    BY <1>2 DEF CreateAdmin, NoStrangers
  <2>2. row \in UserRow /\ row.known /\ row.secret = 1
    BY DEF UserRow
  <2>3. Change(a, row) /\ UNCHANGED session
    BY <1>2 DEF CreateAdmin
  <2> HIDE DEF row
  <2> QED
    BY <2>1, <2>2, <2>3, ChangeInv
<1>3. CASE ResetPassword(a)
  <2> DEFINE row == [user[a] EXCEPT !.pw = @ + 1]
  <2>1. row \in UserRow /\ row.known /\ row.secret = user[a].secret /\ row.last = user[a].last
    BY <1>1, <1>3 DEF ResetPassword, UserRow
  <2> QED
    BY <1>1, <1>3, <2>1, ChangeInv DEF ResetPassword, UserRow
<1>4. CASE ResetTotp(a)
  <2> DEFINE row == [user[a] EXCEPT !.secret = @ + 1, !.last = NoStep]
  <2>1. row \in UserRow /\ row.known /\ row.secret = user[a].secret + 1
    <3> DEFINE kept == [user[a] EXCEPT !.secret = @ + 1]
    <3>1. kept \in UserRow /\ kept.known /\ kept.secret = user[a].secret + 1
      BY <1>1, <1>4 DEF ResetTotp, UserRow
    <3>2. row = [kept EXCEPT !.last = NoStep]
      OBVIOUS
    <3> HIDE DEF kept
    <3> QED
      BY <3>1, <3>2 DEF UserRow
  <2>2. Change(a, row) /\ session' = Revoked(a) /\ row.secret > user[a].secret
    BY <1>1, <1>4, <2>1 DEF ResetTotp, UserRow
  <2> HIDE DEF row
  <2> QED
    BY <1>1, <2>1, <2>2, ChangeInv DEF UserRow
<1>5. CASE Disable(a)
  <2> DEFINE row == [user[a] EXCEPT !.active = FALSE]
  <2>1. row \in UserRow /\ row.known /\ row.secret = user[a].secret /\ row.last = user[a].last
    BY <1>1, <1>5 DEF Disable, UserRow
  <2> QED
    BY <1>1, <1>5, <2>1, ChangeInv DEF Disable, UserRow
<1>6. CASE Enable(a)
  <2> DEFINE row == [user[a] EXCEPT !.active = TRUE]
  <2>1. /\ row \in UserRow /\ row.known /\ row.secret = user[a].secret /\ row.last = user[a].last
        /\ row.pw = user[a].pw /\ row.active
    BY <1>1, <1>6 DEF Enable, UserRow
  <2> QED
    BY <1>1, <1>6, <2>1, ChangeInv DEF Enable, UserRow
<1>7. CASE RevokeSessions(a)
  <2>1. /\ session' \in [Sessions -> SessionRow]
        /\ \A s \in Sessions : session'[s] = [session[s] EXCEPT !.revoked = session'[s].revoked]
        /\ \A s \in Sessions : session[s].owner = a => session'[s].revoked
        /\ \A s \in Sessions : session[s].owner # a => session'[s] = session[s]
    BY <1>7, RevokedRows DEF RevokeSessions
  <2>2. ASSUME NEW s \in Sessions
        PROVE  /\ session'[s].owner = session[s].owner /\ session'[s].pw = session[s].pw
               /\ session'[s].secret = session[s].secret /\ session'[s].step = session[s].step
               /\ session'[s].raced = session[s].raced
               /\ session[s].revoked => session'[s].revoked
    BY <2>1 DEF TypeOK, SessionRow
  <2> QED
    BY <1>7, <2>1, <2>2, SessionRowsInv DEF RevokeSessions
<1> QED
  BY <1>2, <1>3, <1>4, <1>5, <1>6, <1>7 DEF Cli

-----------------------------------------------------------------------------
(* Logins and requests.                                                     *)

\* A login that gives up, or is answered, releases what it holds.
LEMMA LoginEnds ==
    ASSUME IInv, NEW w \in Workers, login' = [login EXCEPT ![w] = NoLogin],
           UNCHANGED <<now, user, session>>
    PROVE  IInv'
<1> USE DEF IInv
<1>1. /\ login'[w] = NoLogin /\ \A v \in Workers \ {w} : login'[v] = login[v]
      /\ NoLogin \in LoginState
  BY DEF TypeOK, NoLogin, LoginState
<1>2. TypeOK'
  BY <1>1 DEF TypeOK, NoLogin
<1>3. NoStrangers'
  BY <1>1, ConstantsAssumption DEF NoStrangers, NoLogin
<1>4. LoginsSound'
  BY <1>1 DEF LoginsSound, NoLogin
<1> QED
  BY <1>2, <1>3, <1>4 DEF SessionsSound, CodeUsedOnce, Exists

\* A login reads the account it is about to check.
LEMMA CheckInv ==
    ASSUME IInv, NEW w \in Workers, NEW a \in Admins, NEW step \in now - 1 .. now + 1,
           CheckFactors(w, a, step)
    PROVE  IInv'
<1> USE DEF IInv
<1> DEFINE l == [at |-> "checked", who |-> a, pw |-> user[a].pw, secret |-> user[a].secret,
                 step |-> step, raced |-> FALSE]
<1>1. login'[w] = l /\ \A v \in Workers \ {w} : login'[v] = login[v]
  BY DEF TypeOK, CheckFactors
<1>2. user[a] \in UserRow /\ step \in Nat
  BY DEF TypeOK
<1>3. l \in LoginState
  BY <1>2 DEF LoginState, UserRow
<1>4. TypeOK'
  BY <1>1, <1>3 DEF TypeOK, CheckFactors
<1>5. NoStrangers'
  BY <1>1 DEF NoStrangers, CheckFactors
<1>6. LoginsSound'
  BY <1>1, <1>2 DEF LoginsSound, CheckFactors, UserRow
<1> QED
  BY <1>4, <1>5, <1>6 DEF SessionsSound, CodeUsedOnce, Exists, CheckFactors

\* The conditional UPDATE is granted to one login of an account at a time, and
\* only for a later step.
LEMMA ConsumeInv == ASSUME IInv, NEW w \in Workers, ConsumeCode(w) PROVE IInv'
<1> USE DEF IInv
<1>1. /\ login' \in [Workers -> LoginState]
      /\ login'[w] = [login[w] EXCEPT !.at = "holding"]
      /\ \A v \in Workers \ {w} : login'[v] = login[v]
  BY DEF TypeOK, LoginState, ConsumeCode
<1>2. /\ login'[w].at = "holding" /\ login'[w].who = login[w].who /\ login'[w].pw = login[w].pw
      /\ login'[w].secret = login[w].secret /\ login'[w].step = login[w].step
      /\ login'[w].raced = login[w].raced
  BY <1>1 DEF TypeOK, LoginState
<1>3. TypeOK'
  BY <1>1, <1>2 DEF TypeOK, ConsumeCode, Unlocked
<1>4. NoStrangers'
  BY <1>1, <1>2 DEF NoStrangers, ConsumeCode
<1>5. LoginsSound'
  BY <1>1, <1>2 DEF LoginsSound, ConsumeCode
<1> QED
  BY <1>3, <1>4, <1>5 DEF SessionsSound, CodeUsedOnce, Exists, ConsumeCode

\* The session opened on a code is the only one of its step, as long as the
\* secret it was checked with is in force.
LEMMA OpenInv == ASSUME IInv, NEW w \in Workers, NEW s \in Sessions, OpenSession(w, s) PROVE IInv'
<1> USE DEF IInv
<1> DEFINE l == login[w]
           a == l.who
           new == [owner |-> l.who, seen |-> now, expires |-> now + Absolute, revoked |-> FALSE,
                   pw |-> l.pw, secret |-> l.secret, step |-> l.step, raced |-> l.raced]
<1>1. l \in LoginState /\ l.at = "holding" /\ a \in Admins /\ user[a].last < l.step
  BY DEF TypeOK, OpenSession, LoginsSound
<1>2. new \in SessionRow /\ NoSession \in SessionRow
  BY <1>1, ConstantsAssumption DEF SessionRow, LoginState, TypeOK, NoSession
<1>3. /\ session' \in [Sessions -> SessionRow]
      /\ session'[s] = new
      /\ \A r \in Sessions \ {s} : session'[r] \in {NoSession, session[r]}
  BY <1>2 DEF OpenSession, TypeOK
<1>4. /\ user' \in [Admins -> UserRow]
      /\ \A b \in Admins \ {a} : user'[b] = user[b]
      /\ user'[a] = [user[a] EXCEPT !.last = l.step]
  BY <1>1 DEF OpenSession, TypeOK, UserRow, LoginState
<1>5. \A b \in Admins : /\ user'[b].last = IF b = a THEN l.step ELSE user[b].last
                        /\ user'[b].known = user[b].known /\ user'[b].active = user[b].active
                        /\ user'[b].pw = user[b].pw /\ user'[b].secret = user[b].secret
  BY <1>1, <1>4 DEF TypeOK, UserRow
<1>6. /\ login' = [login EXCEPT ![w] = NoLogin]
      /\ login'[w] = NoLogin /\ \A v \in Workers \ {w} : login'[v] = login[v]
  BY DEF OpenSession, TypeOK
<1>7. \A r \in Sessions \ {s} : Exists(r)' => Exists(r) /\ session'[r] = session[r]
  BY <1>3 DEF Exists, NoSession
<1>8. /\ new.owner = a /\ new.pw = l.pw /\ new.secret = l.secret /\ new.step = l.step
      /\ new.raced = l.raced /\ ~new.revoked
      /\ l = login[w] /\ a = l.who /\ now' = now
  BY DEF OpenSession
<1>9. /\ NoLogin \in LoginState /\ NoLogin.at = "idle" /\ NoLogin.who = None
      /\ NoSession.owner = None
  BY DEF NoLogin, LoginState, NoSession
<1>10. ASSUME NEW r \in Sessions \ {s}, Exists(r)', session[r].owner = a,
              session[r].secret = user[a].secret
       PROVE  session[r].step < l.step
  <2>1. session[r].step =< user[a].last
    BY <1>7, <1>10 DEF SessionsSound
  <2>2. session[r].step \in Nat /\ l.step \in Nat /\ user[a].last \in Nat \cup {-1}
    BY <1>1 DEF TypeOK, SessionRow, UserRow, LoginState, NoStep
  <2> QED
    BY <1>1, <2>1, <2>2
<1>11. l.step \in Nat /\ \A r \in Sessions : session[r].step \in Nat
  BY <1>1 DEF TypeOK, SessionRow, LoginState
<1>12. \A r \in Sessions : Exists(r) => session[r].owner \in Admins
  BY DEF Exists, TypeOK, SessionRow
<1> HIDE DEF l, a, new
<1>13. TypeOK'
  <2>1. login' \in [Workers -> LoginState]
    BY <1>6, <1>9 DEF TypeOK
  <2>2. \A v \in Workers : login'[v].at = "holding" => v # w /\ login'[v] = login[v]
    BY <1>6, <1>9
  <2> QED
    BY <1>3, <1>4, <1>8, <2>1, <2>2 DEF TypeOK
<1>14. NoStrangers'
  <2>1. user[a].known
    BY <1>1, <1>8 DEF NoStrangers
  <2> QED
    BY <1>1, <1>3, <1>5, <1>6, <1>8, <1>9, <2>1, ConstantsAssumption DEF NoStrangers
<1>15. LoginsSound'
  <2>1. ASSUME NEW v \in Workers, login'[v].at # "idle"
        PROVE  /\ login'[v] = login[v]
               /\ login[v].who = a => login[v].at # "holding"
    BY <1>1, <1>6, <1>8, <1>9, <2>1 DEF TypeOK
  <2> QED
    BY <1>5, <2>1 DEF LoginsSound
<1>16. SessionsSound'
  <2>1. /\ l.secret =< user[a].secret
        /\ ~l.raced => user[a].active /\ l.pw = user[a].pw /\ l.secret = user[a].secret
    BY <1>1, <1>8 DEF LoginsSound
  <2>2. ASSUME NEW r \in Sessions \ {s}, Exists(r)', session[r].owner = a,
               session[r].secret = user[a].secret
        PROVE  session[r].step =< l.step
    BY <1>10, <1>11, <2>2
  <2>3. ASSUME NEW r \in Sessions \ {s}, Exists(r)'
        PROVE  LET b == session'[r].owner IN
               /\ session'[r].secret =< user'[b].secret
               /\ session'[r].secret = user'[b].secret => session'[r].step =< user'[b].last
               /\ ~session'[r].revoked /\ ~session'[r].raced =>
                     /\ user'[b].active
                     /\ session'[r].pw = user'[b].pw /\ session'[r].secret = user'[b].secret
    BY <1>5, <1>7, <1>12, <2>2, <2>3 DEF SessionsSound
  <2>4. LET b == session'[s].owner IN
        /\ session'[s].secret =< user'[b].secret
        /\ session'[s].step =< user'[b].last
        /\ ~session'[s].raced =>
              /\ user'[b].active
              /\ session'[s].pw = user'[b].pw /\ session'[s].secret = user'[b].secret
    BY <1>1, <1>3, <1>5, <1>8, <1>11, <2>1
  <2> QED
    BY <2>3, <2>4 DEF SessionsSound
<1>17. CodeUsedOnce'
  <2>1. ASSUME NEW r \in Sessions \ {s}, Exists(r)', session[r].owner = a,
               session[r].secret = user[a].secret
        PROVE  session[r].step # l.step
    BY <1>10, <1>11, <2>1
  <2> QED
    BY <1>3, <1>5, <1>7, <1>8, <1>12, <2>1 DEF CodeUsedOnce
<1> QED
  BY <1>13, <1>14, <1>15, <1>16, <1>17

\* Time changes no row.
LEMMA QuietInv ==
    ASSUME IInv, now' \in Nat \ {0}, UNCHANGED <<user, session, login>>
    PROVE  IInv'
BY DEF IInv, TypeOK, NoStrangers, LoginsSound, SessionsSound, CodeUsedOnce, Exists

\* The invariant is inductive.
LEMMA NextInv == IInv /\ [Next]_vars => IInv'
<1> SUFFICES ASSUME IInv, [Next]_vars PROVE IInv'
  OBVIOUS
<1>1. CASE UNCHANGED vars \/ Tick
  BY <1>1, QuietInv DEF vars, Tick, IInv, TypeOK
<1>2. ASSUME NEW w \in Workers, Login(w) PROVE IInv'
  <2>1. CASE RefuseCode(w) \/ Abort(w)
    BY <2>1, LoginEnds DEF RefuseCode, Abort
  <2> QED
    BY <1>2, <2>1, CheckInv, ConsumeInv, OpenInv DEF Login
<1>3. ASSUME NEW s \in Sessions, Resolve(s) \/ Logout(s) PROVE IInv'
  <2>1. session[s] \in SessionRow /\ now \in Nat
    BY DEF IInv, TypeOK
  <2>2. \/ session' = [session EXCEPT ![s].seen = now]
        \/ session' = [session EXCEPT ![s].revoked = TRUE]
    BY <1>3 DEF Resolve, Logout
  <2>3. /\ session' \in [Sessions -> SessionRow]
        /\ session'[s].owner = session[s].owner /\ session'[s].pw = session[s].pw
        /\ session'[s].secret = session[s].secret /\ session'[s].step = session[s].step
        /\ session'[s].raced = session[s].raced
        /\ session[s].revoked => session'[s].revoked
        /\ \A r \in Sessions \ {s} : session'[r] = session[r]
    <3>1. CASE session' = [session EXCEPT ![s].seen = now]
      BY <2>1, <3>1 DEF SessionRow, IInv, TypeOK
    <3>2. CASE session' = [session EXCEPT ![s].revoked = TRUE]
      BY <2>1, <3>2 DEF SessionRow, IInv, TypeOK
    <3> QED
      BY <2>2, <3>1, <3>2
  <2> QED
    BY <1>3, <2>3, SessionRowsInv DEF Resolve, Logout
<1> QED
  BY <1>1, <1>2, <1>3, CliInv DEF Next

\* The invariant holds of every reachable state.
THEOREM Inductive == Spec => []IInv
BY InitInv, NextInv, PTL DEF Spec

\* Every row keeps its columns' types, and the row lock of the conditional
\* UPDATE is exclusive.
THEOREM TypeCorrect == Spec => []TypeOK
BY Inductive, PTL DEF IInv

\* However many logins overlap, a code of the secret in force opens one session.
THEOREM CodesUsedOnce == Spec => []CodeUsedOnce
BY Inductive, PTL DEF IInv

\* A session that outlives the password or the secret it was opened with belongs
\* to a login that had been checked before the command.
THEOREM ResetsCloseSessions == Spec => []OnlyRacesOutliveReset
<1>1. IInv => OnlyRacesOutliveReset
  BY DEF IInv, SessionsSound, OnlyRacesOutliveReset, Usable
<1> QED
  BY <1>1, Inductive, PTL

-----------------------------------------------------------------------------
(* No way back for a session.                                               *)

\* One step leaves a session's row alone, uses or closes it, opens it, or
\* forgets it.
LEMMA SessionFate ==
    ASSUME IInv, Next, NEW s \in Sessions, Exists(s), session'[s].owner = session[s].owner
    PROVE  \/ session'[s] = session[s]
           \/ session'[s].revoked
           \/ Resolve(s)
<1> USE DEF IInv
<1>1. session[s].owner \in Admins
  BY DEF Exists, TypeOK, SessionRow
<1>2. ASSUME NEW a \in Admins, Cli(a)
      PROVE  session'[s] = session[s] \/ session'[s].revoked
  BY <1>2, RevokedRows DEF Cli, CreateAdmin, ResetPassword, ResetTotp, Disable, Enable, RevokeSessions
<1>3. ASSUME NEW w \in Workers, NEW r \in Sessions, OpenSession(w, r)
      PROVE  session'[s] = session[s]
  <2>1. r # s /\ session'[s] \in {NoSession, session[s]}
    BY <1>3 DEF OpenSession
  <2> QED
    BY <1>1, <2>1, ConstantsAssumption DEF NoSession
<1>4. ASSUME NEW w \in Workers, Login(w) PROVE session'[s] = session[s]
  BY <1>3, <1>4 DEF Login, CheckFactors, ConsumeCode, RefuseCode, Abort
<1>5. ASSUME NEW r \in Sessions, Resolve(r) \/ Logout(r)
      PROVE  session'[s] = session[s] \/ session'[s].revoked \/ Resolve(s)
  BY <1>5 DEF Resolve, Logout, TypeOK, SessionRow
<1> QED
  BY <1>2, <1>4, <1>5 DEF Next, Tick

\* An account's standing is changed by the CLI alone, and enabling it finds its
\* unraced sessions closed.
LEMMA StandingFate ==
    ASSUME IInv, Next, NEW s \in Sessions, Exists(s), ~session[s].revoked, ~session[s].raced
    PROVE  user[session[s].owner].active /\ now' >= now
<1>1. user[session[s].owner].active
  BY DEF IInv, SessionsSound
<1>2. now \in Nat
  BY DEF IInv, TypeOK
<1>3. ASSUME NEW a \in Admins, Cli(a) PROVE now' = now
  BY <1>3 DEF Cli, CreateAdmin, ResetPassword, ResetTotp, Disable, Enable, RevokeSessions, Change
<1>4. ASSUME NEW w \in Workers, Login(w) PROVE now' = now
  BY <1>4 DEF Login, CheckFactors, ConsumeCode, RefuseCode, Abort, OpenSession
<1>5. ASSUME NEW r \in Sessions, Resolve(r) \/ Logout(r) PROVE now' = now
  BY <1>5 DEF Resolve, Logout
<1> QED
  BY <1>1, <1>2, <1>3, <1>4, <1>5 DEF Next, Tick

\* No sequence of logins, commands, requests and waiting brings a dead session
\* back, unless its login overlapped a command on its account.
THEOREM TheDeadStayDead == Spec => DeadStaysDead
<1> DEFINE Step == \A s \in Sessions :
                     Exists(s) /\ ~Usable(s) /\ session'[s].owner = session[s].owner /\ Usable(s)'
                        => session[s].raced
<1>1. IInv /\ [Next]_vars => [Step]_vars
  <2> SUFFICES ASSUME IInv, Next, NEW s \in Sessions, Exists(s), ~session[s].raced,
                      session'[s].owner = session[s].owner, Usable(s)'
               PROVE  Usable(s)
    OBVIOUS
  <2>1. session'[s] = session[s] \/ Resolve(s)
    BY SessionFate DEF Usable
  <2>2. CASE session'[s] = session[s]
    <3>1. /\ ~session[s].revoked /\ session[s].expires > now' /\ now' - session[s].seen =< Idle
      BY <2>2 DEF Usable
    <3>2. user[session[s].owner].active /\ now' >= now
      BY <3>1, StandingFate
    <3>3. /\ now \in Nat /\ now' \in Nat /\ Idle \in Nat
          /\ session[s].expires \in Nat /\ session[s].seen \in Nat
      BY NextInv, ConstantsAssumption DEF IInv, TypeOK, SessionRow
    <3> QED
      BY <3>1, <3>2, <3>3 DEF Usable
  <2> QED
    BY <2>1, <2>2 DEF Resolve
<1> QED
  BY <1>1, Inductive, PTL DEF Spec, DeadStaysDead

=============================================================================
