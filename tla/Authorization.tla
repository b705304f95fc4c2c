----------------------------- MODULE Authorization -----------------------------
(* What a request needs and what it then does: the policy table and          *)
(* requiredRole that ServeHTTP asks, and the routes and handlers of          *)
(* internal/server that run when it lets a request through.  A path is the   *)
(* sequence of its segments after /api/, already canonical: ServeHTTP refuses*)
(* any other.                                                                *)
EXTENDS Naturals, Sequences

CONSTANT Names      \* what clients write where a path has an ID

Viewer == "viewer"
Operator == "operator"
Admin == "admin"
Public == ""        \* rolePublic: no session is needed
Roles == {Viewer, Operator, Admin}

RoleRank(role) ==
    CASE role = Admin -> 3 [] role = Operator -> 2 [] role = Viewer -> 1 [] OTHER -> 0

\* An unrecognised claim becomes the least privileged role.
NormalizeRole(claim) == IF claim \in {Admin, Operator} THEN claim ELSE Viewer

Methods == {"GET", "POST", "DELETE", "other"}
AnyMethod == "*"

\* apiPolicy: the listed routes of each role.
Listed(role) ==
    CASE role = Public ->
            ({AnyMethod} \X {<<"auth", "config">>, <<"auth", "me">>, <<"auth", "login">>,
                             <<"auth", "login", "local">>, <<"auth", "callback">>, <<"auth", "logout">>,
                             <<"pairing", "claim">>, <<"backup", "deposit">>})
            \cup {<<"GET", <<"auth", "sso", "config">>>>}
      [] role = Viewer ->
            ({"GET"} \X {<<"retention">>, <<"readiness">>, <<"capsules">>, <<"capsules", "diff">>,
                         <<"capsules", "timeline">>, <<"custodians">>, <<"audit">>,
                         <<"recovery-key">>, <<"pairing", "list">>, <<"replication", "targets">>,
                         <<"replication", "logs">>})
            \cup {<<AnyMethod, <<"auth", "password">>>>}
      [] role = Operator ->
            {"POST"} \X {<<"custodians">>, <<"audit", "verify">>, <<"replication", "sync">>}
      [] role = Admin ->
            {"POST"} \X {<<"retention">>, <<"retention", "purge">>, <<"auth", "sso", "config">>,
                         <<"auth", "sso", "test">>, <<"recovery-key">>, <<"pairing", "generate">>,
                         <<"pairing", "revoke">>, <<"pairing", "clear">>,
                         <<"replication", "targets">>, <<"replication", "targets", "test">>}

\* parseCapsulePath: the one interpretation of /api/capsules/<id>/<action>.
CapsuleAction(path) == IF Len(path) >= 3 THEN path[3] ELSE ""
UnderCapsules(path) == Len(path) >= 2 /\ path[1] = "capsules"

\* Mutant: the action is what the URL ends with.
SubResourceRoleBySuffix(path) == IF path[Len(path)] = "download" THEN Operator ELSE Viewer

SubResourceRole(path) == IF CapsuleAction(path) = "download" THEN Operator ELSE Viewer

\* requiredRole: the method's own entry, then the wildcard, then what is below
\* /api/capsules/; everything else is an administrator's.
RequiredRole(method, path) ==
    LET entry(m, role) == <<m, path>> \in Listed(role)
        lists(m) == \E role \in Roles \cup {Public} : entry(m, role)
    IN  IF lists(method) THEN CHOOSE role \in Roles \cup {Public} : entry(method, role)
        ELSE IF lists(AnyMethod) THEN CHOOSE role \in Roles \cup {Public} : entry(AnyMethod, role)
        ELSE IF UnderCapsules(path) /\ method = "GET" THEN SubResourceRole(path)
        ELSE Admin

----------------------------------------------------------------------------
(* What the handlers do.  "read" answers from what is stored; "check" reads a*)
(* capsule back and records the outcome; "take" sends the sealed bytes; "own"*)
(* is the change of the caller's password; "public" tells what is no secret, *)
(* or what the cookie's session is, or ends it; "key" needs a credential of  *)
(* its own: a password, a code of the provider, a pairing code or a token.   *)

Routes ==
    {<<"auth", "config">>, <<"auth", "login">>, <<"auth", "login", "local">>,
     <<"auth", "password">>, <<"auth", "sso", "config">>, <<"auth", "sso", "test">>,
     <<"auth", "callback">>, <<"auth", "me">>, <<"auth", "logout">>, <<"retention">>,
     <<"retention", "purge">>, <<"readiness">>, <<"capsules">>, <<"custodians">>, <<"audit">>,
     <<"audit", "verify">>, <<"recovery-key">>, <<"pairing", "generate">>, <<"pairing", "list">>,
     <<"pairing", "revoke">>, <<"pairing", "clear">>, <<"pairing", "claim">>,
     <<"backup", "deposit">>, <<"replication", "targets">>, <<"replication", "targets", "test">>,
     <<"replication", "sync">>, <<"replication", "logs">>, <<"capsules", "diff">>,
     <<"capsules", "timeline">>}

\* A handler that asks for its method answers 405 to any other.
Asks(method, asked, effect) == IF method = asked THEN effect ELSE "none"

Gets(method, posted) ==         \* the handlers that list and create
    CASE method = "GET" -> "read" [] method = "POST" -> posted [] OTHER -> "none"

\* handleCapsuleDetail asks for no method.
CapsuleEffect(path) ==
    CASE CapsuleAction(path) = "download" -> "take"
      [] CapsuleAction(path) = "verify" -> "check"
      [] OTHER -> "read"

Effect(method, path) ==
    CASE path \in {<<"auth", "config">>, <<"auth", "me">>, <<"auth", "logout">>} -> "public"
      [] path \in {<<"auth", "login">>, <<"auth", "callback">>} -> "key"
      [] path \in {<<"auth", "login", "local">>, <<"pairing", "claim">>, <<"backup", "deposit">>} ->
            Asks(method, "POST", "key")
      [] path = <<"auth", "password">> -> Asks(method, "POST", "own")
      [] path = <<"auth", "sso", "config">> ->
            CASE method = "GET" -> "public" [] method = "POST" -> "configure" [] OTHER -> "none"
      [] path = <<"readiness">> -> "read"
      [] path \in {<<"capsules">>, <<"capsules", "diff">>, <<"capsules", "timeline">>, <<"audit">>,
                   <<"pairing", "list">>, <<"replication", "logs">>} -> Asks(method, "GET", "read")
      [] path \in {<<"retention">>, <<"recovery-key">>, <<"replication", "targets">>} ->
            Gets(method, "configure")
      [] path = <<"custodians">> -> Gets(method, "operate")
      [] path \in {<<"audit", "verify">>, <<"replication", "sync">>} -> Asks(method, "POST", "operate")
      [] path \in {<<"retention", "purge">>, <<"auth", "sso", "test">>, <<"pairing", "generate">>,
                   <<"pairing", "revoke">>, <<"pairing", "clear">>,
                   <<"replication", "targets", "test">>} -> Asks(method, "POST", "configure")
      [] path \notin Routes /\ UnderCapsules(path) -> CapsuleEffect(path)
      [] path \notin Routes /\ Len(path) >= 3 /\ path[1] = "replication" /\ path[2] = "targets" ->
            IF method \in {"DELETE", "POST"} THEN "configure" ELSE "none"
      [] OTHER -> "none"        \* 404

\* "Viewers read; operators verify the chain, sync replication and download
\* capsules; admins import the recovery key, pair products, and change
\* replication and SSO."  Checking one capsule, which leaves its outcome in the
\* catalog and the chain, is a viewer's too.
Need(effect) ==
    CASE effect \in {"none", "public", "key"} -> Public
      [] effect \in {"read", "check", "own"} -> Viewer
      [] effect \in {"operate", "take"} -> Operator
      [] effect = "configure" -> Admin

\* The routes, what they can have below them, and a route there is not.
Paths ==
    Routes
    \cup {<<"capsules", n>> : n \in Names} \cup {<<"replication", "targets", n>> : n \in Names}
    \cup {<<"capsules", n, a>> : n \in Names \cup {"diff"}, a \in {"download", "verify", "other"}}
    \cup {<<"capsules", n, "download", "verify">> : n \in Names}
    \cup {<<"backup", "push">>, <<"capsules", "diff", "timeline", "download">>}
Calls == Methods \X Paths

EffectOf(call) == Effect(call[1], call[2])
Admits(role, call) == RoleRank(role) >= RoleRank(RequiredRole(call[1], call[2]))
Suffices(role, effect) == RoleRank(role) >= RoleRank(Need(effect))

\* What ServeHTTP lets each role do beyond what the role is for, and what a role
\* is for that no method of the route lets it do.
Excess == [role \in Roles \cup {Public} |->
    {call \in Calls : Admits(role, call) /\ ~Suffices(role, EffectOf(call))}]
Lacking == [role \in Roles \cup {Public} |->
    {call \in Calls : /\ EffectOf(call) # "none" /\ Suffices(role, EffectOf(call))
                      /\ \A m \in Methods : Effect(m, call[2]) = EffectOf(call)
                                             => ~Admits(role, <<m, call[2]>>)}]

=============================================================================
