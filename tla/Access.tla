------------------------------- MODULE Access -------------------------------
(* Who may do what: sessions, the local password, and the single sign-on     *)
(* configuration that decides which federated user is an administrator       *)
(* (internal/auth/auth.go; handleAuthLoginLocal, handleAuthCallback,         *)
(* handleAuthPasswordChange, handleSSOConfig, handleAuthLogout).             *)
(*                                                                           *)
(* A password is read, compared for as long as Argon2id takes, and acted on  *)
(* by a later statement; nothing ties the statements together.  Comparing is *)
(* a function of what was read, so it is part of the read.  The limiter in   *)
(* front is Admission's; the events the handlers append, whose errors they   *)
(* ignore, are AuditLedger's.  The exchange with the identity provider is    *)
(* outside: a sign-in begins when it has named its user.                     *)
EXTENDS Authorization, FiniteSets, SequencesExt

CONSTANTS
    Requests,       \* goroutines serving one request after another
    Ids,            \* session identifiers, drawn at random and never twice
    Local,          \* users with a row in users
    Federated,      \* subjects of the identity provider
    Claims,         \* the roles it may claim for them
    Passwords, Initial,     \* Initial: the password of every first run
    Fields,         \* the settings, in the order SaveConfig writes them
    Secret,         \* the field written only when the form fills it in
    AdminEmail,     \* the field naming the federated administrator
    Flags,          \* the configuration the command line gave
    Forms,          \* what administrators submit
    Empty,          \* the empty string; a setting never written reads the same
    Failing,        \* {"db"} if statements may fail, or {}
    NoOne, MaxRestarts

FieldSet == ToSet(Fields)
Plain == FieldSet \ {Secret}
Users == Local \cup Federated

IsConfig(c) == c = [f \in FieldSet |-> c[f]]

ASSUME AccessAssumption ==
    /\ Local \cap Federated = {} /\ Initial \in Passwords
    /\ Fields \in Seq(FieldSet) /\ {Secret, AdminEmail} \subseteq FieldSet
    /\ \A i, j \in DOMAIN Fields : Fields[i] = Fields[j] => i = j
    /\ IsConfig(Flags) /\ \A f \in Forms : IsConfig(f)
    /\ Federated \cap {Empty} = {} /\ NoOne \notin Requests \cup Users \cup Passwords
    /\ Failing \subseteq {"db"} /\ MaxRestarts \in Nat

VARIABLES
    password,       \* users.password_hash
    sessions,       \* the identifiers in sessions
    row,            \* what was inserted under an identifier, and the password that opened it
    lapsed,         \* those among them past their expires_at
    settings,       \* system_settings
    cfg,            \* Manager.cfg
    mu,             \* who holds Manager.mu to write
    pc, job,        \* where a request is, and what it was given
    caller,         \* the session each user's last change of password came from
    missed,         \* sessions that change did not come to end
    torn,           \* settings a failure has set apart from cfg
    restarts

users == <<password, sessions, row, lapsed, caller, missed>>
config == <<settings, cfg, mu, torn>>
vars == <<users, config, pc, job, restarts>>

Values == {Empty} \cup UNION {{f[x] : x \in FieldSet} : f \in Forms \cup {Flags}}
NoRow == [user |-> NoOne, role |-> "none", proof |-> NoOne]
NoJob == [op |-> "none"]
Rows == [user : Users, role : Roles, proof : Passwords \cup {NoOne}]
Jobs ==
    [op : {"signin"}, row : Rows]
    \cup [op : {"change"}, cookie : Ids, new : Passwords]
    \cup [op : {"save"}, cookie : Ids, form : Forms, left : Seq(FieldSet)]
Steps == {"idle", "insert", "authorise", "check", "update", "revoke", "lock", "write"}

\* NewManager: a setting that is empty, or could not be read, leaves the flag.
Loaded(unread) ==
    [f \in FieldSet |-> IF f \in unread \/ settings[f] = Empty THEN Flags[f] ELSE settings[f]]

Init ==
    /\ password = [u \in Local |-> Initial]
    /\ sessions = {} /\ lapsed = {} /\ missed = {}
    /\ caller = [u \in Local |-> NoOne]
    /\ row = [s \in Ids |-> NoRow]
    /\ settings = [f \in FieldSet |-> Empty]
    /\ cfg = Flags
    /\ mu = NoOne /\ torn = {} /\ restarts = 0
    /\ pc = [r \in Requests |-> "idle"]
    /\ job = [r \in Requests |-> NoJob]

Goto(r, step) == pc' = [pc EXCEPT ![r] = step]
Begin(r, step, what) == pc[r] = "idle" /\ Goto(r, step) /\ job' = [job EXCEPT ![r] = what]
Leave(r) == Goto(r, "idle") /\ job' = [job EXCEPT ![r] = NoJob]
Session(r) == row[job[r].cookie]
SessionsOf(u) == {s \in sessions : row[s].user = u}
Ending(u) == \E r \in Requests : pc[r] = "revoke" /\ Session(r).user = u
MayFail == "db" \in Failing
Delete(ended) == sessions' = sessions \ ended /\ lapsed' = lapsed \ ended

----------------------------------------------------------------------------
(* Signing in and out.                                                      *)

\* Bound: no more sign-ins under way than there are identifiers to draw.
Drawable == Cardinality({r \in Requests : pc[r] = "insert"}) < Cardinality({s \in Ids : row[s] = NoRow})

\* AuthenticateLocal: reads the row and compares.  A wrong password ends here.
SignIn(r, u) ==
    /\ Drawable
    /\ Begin(r, "insert", [op |-> "signin", row |-> [user |-> u, role |-> Admin, proof |-> password[u]]])
    /\ UNCHANGED <<users, config, restarts>>

\* ExchangeCode: the role follows from the claim and the configuration as read.
FederatedSignIn(r, u, claim) ==
    LET role == IF cfg[AdminEmail] = u THEN Admin ELSE NormalizeRole(claim)
    IN  /\ mu = NoOne /\ Drawable
        /\ Begin(r, "insert", [op |-> "signin", row |-> [user |-> u, role |-> role, proof |-> NoOne]])
        /\ UNCHANGED <<users, config, restarts>>

\* Mutant: the row names nobody.
InsertAnonymous(r) ==
    /\ pc[r] = "insert"
    /\ \E s \in {i \in Ids : row[i] = NoRow} : sessions' = sessions \cup {s}
    /\ Leave(r)
    /\ UNCHANGED <<password, row, lapsed, caller, missed, config, restarts>>

\* CreateSession.  The password may have been changed since it was compared, and
\* the change be through.
InsertSession(r) ==
    LET new == job[r].row
    IN  /\ pc[r] = "insert"
        /\ \E s \in {i \in Ids : row[i] = NoRow} :
              /\ sessions' = sessions \cup {s}
              /\ row' = [row EXCEPT ![s] = new]
              /\ missed' = IF new.user \in Local /\ new.proof # password[new.user] /\ ~Ending(new.user)
                           THEN missed \cup {s} ELSE missed
        /\ Leave(r)
        /\ UNCHANGED <<password, lapsed, caller, config, restarts>>

Lapse(s) ==
    /\ s \in sessions /\ lapsed' = lapsed \cup {s} /\ s \notin lapsed
    /\ UNCHANGED <<password, sessions, row, caller, missed, config, pc, job, restarts>>

\* InvalidateSession; an error of the statement is ignored, as if s were no session.
Logout(s) ==
    /\ s \in sessions /\ Delete({s})
    /\ UNCHANGED <<password, row, caller, missed, config, pc, job, restarts>>

----------------------------------------------------------------------------
(* What needs a session.  The cookie may be of one that has ended.          *)

CallChange(r, s, new) ==
    /\ row[s] # NoRow
    /\ Begin(r, "authorise", [op |-> "change", cookie |-> s, new |-> new])
    /\ UNCHANGED <<users, config, restarts>>

CallSave(r, s, form) ==
    /\ row[s] # NoRow
    /\ Begin(r, "authorise", [op |-> "save", cookie |-> s, form |-> form, left |-> Fields])
    /\ UNCHANGED <<users, config, restarts>>

PathOfOp == [change |-> <<"auth", "password">>, save |-> <<"auth", "sso", "config">>]

\* GetSession, which removes a row that has expired, and the role.  ServeHTTP
\* asks and then the handler again: an ended session stays ended, so what the
\* second says counts.
Authorise(r) ==
    LET s == job[r].cookie
        granted == /\ s \in sessions \ lapsed
                   /\ Admits(Session(r).role, <<"POST", PathOfOp[job[r].op]>>)
    IN  /\ pc[r] = "authorise"
        /\ Delete({s} \cap lapsed)
        /\ IF granted
           THEN Goto(r, IF job[r].op = "change" THEN "check" ELSE "lock") /\ UNCHANGED job
           ELSE Leave(r)
        /\ UNCHANGED <<password, row, caller, missed, config, restarts>>

\* handleAuthPasswordChange: GetUserByID, which knows local users only, and
\* the comparison with the old password the request brought; nothing has looked
\* at that before, so it is right or wrong now.
CheckOld(r) ==
    /\ pc[r] = "check"
    /\ \/ Session(r).user \in Local /\ Goto(r, "update") /\ UNCHANGED job
       \/ Leave(r)
    /\ UNCHANGED <<users, config, restarts>>

UpdatePassword(r) ==
    /\ pc[r] = "update" /\ Goto(r, "revoke")
    /\ password' = [password EXCEPT ![Session(r).user] = job[r].new]
    /\ caller' = [caller EXCEPT ![Session(r).user] = job[r].cookie]
    /\ missed' = missed \ SessionsOf(Session(r).user)
    /\ UNCHANGED <<sessions, row, lapsed, config, job, restarts>>

\* Mutant: the condition of the DELETE is turned round.
RevokeOwn(r) ==
    /\ pc[r] = "revoke" /\ Leave(r)
    /\ Delete({job[r].cookie})
    /\ UNCHANGED <<password, row, caller, missed, config, restarts>>

\* DeleteUserSessionsExcept.
Revoke(r) ==
    /\ pc[r] = "revoke" /\ Leave(r)
    /\ Delete(SessionsOf(Session(r).user) \ {job[r].cookie})
    /\ UNCHANGED <<password, row, caller, missed, config, restarts>>

\* Its error is logged; the answer is the same.
RevokeFails(r) ==
    /\ MayFail
    /\ pc[r] = "revoke" /\ Leave(r)
    /\ missed' = missed \cup SessionsOf(Session(r).user)
    /\ UNCHANGED <<password, sessions, row, lapsed, caller, config, restarts>>

\* A statement fails and the handler answers with an error; nothing has changed.
StatementFails(r) ==
    /\ MayFail
    /\ pc[r] \in {"insert", "authorise", "check", "update"} /\ Leave(r)
    /\ UNCHANGED <<users, config, restarts>>

----------------------------------------------------------------------------
(* SaveConfig.                                                              *)

\* Mutant: the settings are written under the read lock.
LockConfigToRead(r) ==
    /\ pc[r] = "lock"
    /\ mu' = r /\ Goto(r, "write")
    /\ UNCHANGED <<users, settings, cfg, torn, job, restarts>>

LockConfig(r) ==
    /\ pc[r] = "lock" /\ mu = NoOne
    /\ mu' = r /\ Goto(r, "write")
    /\ UNCHANGED <<users, settings, cfg, torn, job, restarts>>

\* One SetSetting.  A secret left blank is neither written nor served; a secret
\* written is served at once.
WriteField(r) ==
    /\ pc[r] = "write" /\ job[r].left # <<>>
    /\ LET f == Head(job[r].left)
           value == job[r].form[f]
           written == ~ (f = Secret /\ value = Empty)
       IN  /\ settings' = IF written THEN [settings EXCEPT ![f] = value] ELSE settings
           /\ cfg' = IF written /\ f = Secret THEN [cfg EXCEPT ![f] = value] ELSE cfg
           /\ torn' = IF written /\ f = Secret THEN torn \ {Secret} ELSE torn
    /\ job' = [job EXCEPT ![r].left = Tail(@)]
    /\ UNCHANGED <<users, mu, pc, restarts>>

\* Every setting is written: the plain fields are served, and the lock released.
ServeConfig(r) ==
    /\ pc[r] = "write" /\ job[r].left = <<>>
    /\ cfg' = [f \in FieldSet |-> IF f \in Plain THEN job[r].form[f] ELSE cfg[f]]
    /\ torn' = torn \ Plain
    /\ mu' = NoOne /\ Leave(r)
    /\ UNCHANGED <<users, settings, restarts>>

\* A setting is refused: those before it stay written, and none is served.
WriteFails(r) ==
    /\ MayFail
    /\ pc[r] = "write" /\ job[r].left # <<>>
    /\ torn' = torn \cup (Plain \ ToSet(job[r].left))
    /\ mu' = NoOne /\ Leave(r)
    /\ UNCHANGED <<users, settings, cfg, restarts>>

----------------------------------------------------------------------------
\* The process ends wherever it is and starts again.  A change of password that
\* had not come to ending the sessions never will.
Restart ==
    /\ restarts < MaxRestarts /\ restarts' = restarts + 1
    /\ \E unread \in IF MayFail THEN SUBSET FieldSet ELSE {{}} :
          cfg' = Loaded(unread) /\ torn' = unread
    /\ mu' = NoOne
    /\ missed' = missed \cup {s \in sessions : Ending(row[s].user)}
    /\ pc' = [r \in Requests |-> "idle"]
    /\ job' = [r \in Requests |-> NoJob]
    /\ UNCHANGED <<password, sessions, row, lapsed, caller, settings>>

Arrive(r) ==
    \/ \E u \in Local : SignIn(r, u)
    \/ \E u \in Federated, claim \in Claims : FederatedSignIn(r, u, claim)
    \/ \E s \in Ids, new \in Passwords : CallChange(r, s, new)
    \/ \E s \in Ids, form \in Forms : CallSave(r, s, form)

Serve(r) ==
    \/ InsertSession(r) \/ Authorise(r) \/ CheckOld(r) \/ UpdatePassword(r)
    \/ Revoke(r) \/ RevokeFails(r) \/ StatementFails(r)
    \/ LockConfig(r) \/ WriteField(r) \/ ServeConfig(r) \/ WriteFails(r)

Next ==
    \/ \E r \in Requests : Arrive(r) \/ Serve(r)
    \/ \E s \in Ids : Lapse(s) \/ Logout(s)
    \/ Restart

Spec == Init /\ [][Next]_vars

----------------------------------------------------------------------------
TypeOK ==
    /\ password \in [Local -> Passwords]
    /\ sessions \subseteq Ids /\ lapsed \subseteq sessions
    /\ caller \in [Local -> Ids \cup {NoOne}] /\ missed \subseteq Ids
    /\ row \in [Ids -> Rows \cup {NoRow}] /\ \A s \in sessions : row[s] # NoRow
    /\ settings \in [FieldSet -> Values] /\ cfg \in [FieldSet -> Values]
    /\ mu \in Requests \cup {NoOne} /\ torn \subseteq FieldSet
    /\ pc \in [Requests -> Steps]
    /\ job \in [Requests -> Jobs \cup {NoJob}]

(* A session opened with a password that is no longer the user's, which no   *)
(* change under way is about to end and the last change was not made from.   *)
Outlives(s) ==
    LET u == row[s].user
    IN  /\ u \in Local /\ row[s].proof # password[u]
        /\ s # caller[u] /\ ~Ending(u)

\* "Anyone signed in with the old password loses their session; the caller
\* keeps the one they are changing it from" (handleAuthPasswordChange), "so a
\* password change cannot leave the old password's sessions alive"
\* (DeleteUserSessionsExcept).
OldSessionsEnd == \A s \in sessions : ~Outlives(s)

\* What is true of it: however sign-ins and changes of one password interleave,
\* each change sparing its own caller and ending the other's, the only sessions
\* to outlive the last change are of a sign-in that it overtook between the
\* comparison and the insert, or were there when its revocation failed or the
\* process died before it; and the next change has those to end as well.
OnlyTheMissedOutlive == \A s \in sessions : Outlives(s) => s \in missed

\* "Viewers read; operators verify the chain, sync replication and download
\* capsules; admins import the recovery key, pair products, and change
\* replication and SSO": whatever role a sign-in was given, the method and path
\* ServeHTTP lets it call never lead to a handler that does more, however the
\* handler reads the same URL, and every handler of its rank can be called.
RolesBindHandlers ==
    \A role \in {Public} \cup {row[s].role : s \in sessions} :
        Excess[role] = {} /\ Lacking[role] = {}

\* SaveConfig "persists updated SSO configuration to SQLite and updates manager
\* memory": whoever races it, the configuration in force is the one a restart
\* would load, except for fields a failure left behind and for fields cleared
\* since the start, whose flag a restart brings back.
ServedIsSaved ==
    mu = NoOne =>
       \A f \in FieldSet \ torn :
          cfg[f] = settings[f] \/ (settings[f] = Empty /\ cfg[f] = Flags[f])

=============================================================================
