------------------------------- MODULE Pairing -------------------------------
(* Products pair with the store: an administrator generates a six-digit      *)
(* code, a product claims it for an API token, an administrator revokes the  *)
(* registration and clears it away.  The pinned recovery key goes out with   *)
(* the token (internal/pairing, the pairing handlers and recoverykey.go).    *)
(*                                                                           *)
(* Each database statement and each append to the ledger is atomic; a claim  *)
(* is several of them, and claims, revocations and clearings interleave.     *)
(* Claims are goroutines that serve one request after another.  What the     *)
(* rate limiter does with a claim before and after is in Admission.  A       *)
(* registration stands for its ID and its 256-bit token.                     *)
EXTENDS Naturals

CONSTANTS
    Apps,           \* IDs that can be generated, one per registration
    Codes,          \* the six-digit codes rand.Int may draw
    Keys,           \* recovery keys a ceremony may make
    Claims,         \* goroutines serving POST /api/pairing/claim
    Ttls,           \* lifetimes a code may be given
    MaxTime,        \* bound: the clock stops here
    DbMayFail,      \* whether statements may return an error
    NoApp, NoKey, NoReq

Status == {"pending", "paired", "revoked"}
Registration == [status : Status, code : Codes, expires : Nat, key : Keys \cup {NoKey}]

ASSUME PairingAssumption ==
    /\ Ttls \subseteq Nat \ {0} /\ MaxTime \in Nat
    /\ DbMayFail \in BOOLEAN
    /\ NoApp \notin Apps \cup Registration /\ NoKey \notin Keys

VARIABLES
    app,        \* paired_apps, by ID
    issued,     \* IDs that have been generated
    pin,        \* the one row of recovery_key
    clock,
    log,        \* of the audit chain, the events of Event
    pc, req,    \* each claim: its next step, and what it holds
    revoking,   \* IDs whose POST /api/pairing/revoke is past its UPDATE
                \* (bound: one of each ID at a time)
    clearing,   \* bound: one at a time; the ID whose POST /api/pairing/clear is under way
    handed,     \* how many 200 answers carried the token of each ID
    ended       \* IDs whose revocation has been committed

appVars == <<app, issued, handed, ended>>
claimVars == <<pc, req>>
adminVars == <<revoking, clearing>>
vars == <<appVars, pin, clock, log, claimVars, adminVars>>

Request == [code : Codes, key : Keys \cup {NoKey}, found : Apps \cup {NoApp}]
Steps == {"idle", "key", "lookup", "update", "record", "answer"}

(* The events that properties speak of; pairing_code_generated,              *)
(* recovery_key_imported and pairing_cleared are appended at the end of      *)
(* their handlers, an error ignored or only reported.                        *)
Event == {"product_paired", "pairing_token_revoked", "pairing_clear_requested"} \X Apps

Has(a, status) == app[a] # NoApp /\ app[a].status = status

(* GetPairedAppByToken: the token of a is good for a deposit. *)
Authenticates(a) == Has(a, "paired")

(* ledger.Record, for callers that ignore its error and go on either way.    *)
(* Any call may fail: alone, when its statement does, or with every other    *)
(* until the next start, when NewLedger has refused the log.                 *)
Recorded(what, a) == log' = log \cup {<<what, a>>} \/ log' = log

Init ==
    /\ app = [a \in Apps |-> NoApp]
    /\ issued = {} /\ ended = {}
    /\ handed = [a \in Apps |-> 0]
    /\ pin = NoKey
    /\ clock = 0
    /\ log = {}
    /\ pc = [c \in Claims |-> "idle"]
    /\ req = [c \in Claims |-> NoReq]
    /\ revoking = {}
    /\ clearing = NoApp

----------------------------------------------------------------------------
(* The administrator.                                                       *)

(* POST /api/pairing/generate, and kyrecovery pair generate beside it. *)
Generate(a, code, ttl) ==
    /\ a \notin issued
    /\ issued' = issued \cup {a}
    /\ app' = [app EXCEPT ![a] = [status |-> "pending", code |-> code,
                                  expires |-> clock + ttl, key |-> NoKey]]
    /\ UNCHANGED <<handed, ended, pin, clock, log, claimVars, adminVars>>

(* Mutant: the newer import wins. *)
ReplaceKey(k) ==
    /\ pin' = k
    /\ UNCHANGED <<appVars, clock, log, claimVars, adminVars>>

(* The singleton row refuses a second key. *)
ImportKey(k) ==
    /\ pin = NoKey /\ pin' = k
    /\ UNCHANGED <<appVars, clock, log, claimVars, adminVars>>

(* Mutant: only a product that has paired is revoked. *)
RevokePaired(a) ==
    /\ a \in issued \ revoking /\ revoking' = revoking \cup {a}
    /\ app' = IF Has(a, "paired") THEN [app EXCEPT ![a].status = "revoked"] ELSE app
    /\ ended' = ended \cup {a}
    /\ UNCHANGED <<issued, handed, pin, clock, log, claimVars, clearing>>

(* Mutant: the error of the UPDATE is ignored as that of Record is. *)
RevokeUnchecked(a) ==
    /\ a \in issued \ revoking /\ revoking' = revoking \cup {a}
    /\ \/ app[a] # NoApp /\ app' = [app EXCEPT ![a].status = "revoked"]
       \/ (app[a] = NoApp \/ DbMayFail) /\ app' = app
    /\ ended' = ended \cup {a}
    /\ UNCHANGED <<issued, handed, pin, clock, log, claimVars, clearing>>

(* RevokePairedApp, whatever the row's status is and also when it is gone;   *)
(* if the statement fails the answer is 500 and nothing has happened.        *)
Revoke(a) ==
    /\ a \in issued \ revoking /\ revoking' = revoking \cup {a}
    /\ app' = IF app[a] = NoApp THEN app ELSE [app EXCEPT ![a].status = "revoked"]
    /\ ended' = ended \cup {a}
    /\ UNCHANGED <<issued, handed, pin, clock, log, claimVars, clearing>>

(* Then its event, and the answer, which goes out whatever became of that. *)
ReportRevoked(a) ==
    /\ a \in revoking /\ revoking' = revoking \ {a}
    /\ Recorded("pairing_token_revoked", a)
    /\ UNCHANGED <<appVars, pin, clock, claimVars, clearing>>

(* Clear announces itself, and goes no further if it cannot. *)
ClearRequest(a) ==
    /\ clearing = NoApp /\ a \in issued
    /\ log' = log \cup {<<"pairing_clear_requested", a>>}
    /\ clearing' = a
    /\ UNCHANGED <<appVars, pin, clock, claimVars, revoking>>

(* Mutant: an unclaimed code is cleared away as well. *)
ClearUnpaired ==
    /\ clearing # NoApp /\ clearing' = NoApp
    /\ app' = IF Has(clearing, "paired") THEN app ELSE [app EXCEPT ![clearing] = NoApp]
    /\ UNCHANGED <<issued, handed, ended, pin, clock, log, claimVars, revoking>>

(* ClearRevokedPairedApp: its status is read by the DELETE itself. *)
ClearDelete ==
    /\ clearing # NoApp /\ clearing' = NoApp
    /\ \/ Has(clearing, "revoked") /\ app' = [app EXCEPT ![clearing] = NoApp]
       \/ (~Has(clearing, "revoked") \/ DbMayFail) /\ UNCHANGED app
    /\ UNCHANGED <<issued, handed, ended, pin, clock, log, claimVars, revoking>>

----------------------------------------------------------------------------
(* A claim.                                                                 *)

Goto(c, step) == pc' = [pc EXCEPT ![c] = step]
Leave(c) == Goto(c, "idle") /\ req' = [req EXCEPT ![c] = NoReq]
Refuse(c) == Leave(c) /\ UNCHANGED app
ClaimKeeps == UNCHANGED <<issued, ended, pin, clock, adminVars>>

(* Past the limiter, with a body that decodes. *)
Arrive(c, code) ==
    /\ pc[c] = "idle"
    /\ Goto(c, "key")
    /\ req' = [req EXCEPT ![c] = [code |-> code, key |-> NoKey, found |-> NoApp]]
    /\ UNCHANGED <<app, handed, log>> /\ ClaimKeeps

(* No key yet: 409, and the code is not consumed. *)
ReadKey(c) ==
    /\ pc[c] = "key"
    /\ \/ pin # NoKey /\ Goto(c, "lookup") /\ req' = [req EXCEPT ![c].key = pin]
       \/ (pin = NoKey \/ DbMayFail) /\ Leave(c)
    /\ UNCHANGED <<app, handed, log>> /\ ClaimKeeps

(* GetPairedAppByCode asks for the code alone: any row that bears it, of any *)
(* status, may be the one it returns.                                        *)
WithCode(code) == {a \in Apps : app[a] # NoApp /\ app[a].code = code}
Claimable(a) == Has(a, "pending") /\ clock <= app[a].expires

(* Mutant: the pairing is recorded before the UPDATE that decides it. *)
LookupRecording(c) ==
    /\ pc[c] = "lookup"
    /\ \/ \E a \in WithCode(req[c].code) :
             IF Claimable(a)
             THEN /\ Goto(c, "update") /\ req' = [req EXCEPT ![c].found = a]
                  /\ Recorded("product_paired", a)
             ELSE Leave(c) /\ UNCHANGED log
       \/ (WithCode(req[c].code) = {} \/ DbMayFail) /\ Leave(c) /\ UNCHANGED log
    /\ UNCHANGED <<app, handed>> /\ ClaimKeeps

Lookup(c) ==
    /\ pc[c] = "lookup"
    /\ \/ \E a \in WithCode(req[c].code) :
             IF Claimable(a)
             THEN Goto(c, "update") /\ req' = [req EXCEPT ![c].found = a]
             ELSE Leave(c)
       \/ (WithCode(req[c].code) = {} \/ DbMayFail) /\ Leave(c)
    /\ UNCHANGED <<app, handed, log>> /\ ClaimKeeps

(* Mutant: the row is given a status nothing else knows. *)
PairAsClaimed(c) ==
    /\ app' = [app EXCEPT ![req[c].found].status = "claimed", ![req[c].found].key = req[c].key]
    /\ Goto(c, "record") /\ UNCHANGED req

Pair(c) ==
    /\ app' = [app EXCEPT ![req[c].found].status = "paired", ![req[c].found].key = req[c].key]
    /\ Goto(c, "record") /\ UNCHANGED req

(* Mutant: the checks of Lookup are taken for granted. *)
UpdateUnguarded(c) ==
    /\ pc[c] = "update"
    /\ IF app[req[c].found] # NoApp THEN Pair(c) ELSE Refuse(c)
    /\ UNCHANGED <<handed, log>> /\ ClaimKeeps

(* The UPDATE that decides: still pending, and not yet expired. *)
Update(c) ==
    /\ pc[c] = "update"
    /\ LET open == Has(req[c].found, "pending") /\ app[req[c].found].expires > clock
       IN \/ open /\ Pair(c)
          \/ (~open \/ DbMayFail) /\ Refuse(c)
    /\ UNCHANGED <<handed, log>> /\ ClaimKeeps

RecordPaired(c) ==
    /\ pc[c] = "record"
    /\ Recorded("product_paired", req[c].found)
    /\ Goto(c, "answer")
    /\ UNCHANGED <<app, handed, req>> /\ ClaimKeeps

AnswerPaired(c) ==
    /\ pc[c] = "answer"
    /\ handed' = [handed EXCEPT ![req[c].found] = @ + 1]
    /\ Leave(c)
    /\ UNCHANGED <<app, log>> /\ ClaimKeeps

Claim(c) ==
    \/ \E code \in Codes : Arrive(c, code)
    \/ ReadKey(c) \/ Lookup(c) \/ Update(c) \/ RecordPaired(c) \/ AnswerPaired(c)

----------------------------------------------------------------------------
(* The world.                                                               *)

Tick ==
    /\ clock < MaxTime /\ clock' = clock + 1
    /\ UNCHANGED <<appVars, pin, log, claimVars, adminVars>>

(* The requests under way die with the process: a code may be consumed and   *)
(* its token never delivered, a token revoked and the chain silent.          *)
Restart ==
    /\ pc' = [c \in Claims |-> "idle"] /\ req' = [c \in Claims |-> NoReq]
    /\ revoking' = {} /\ clearing' = NoApp
    /\ UNCHANGED <<appVars, pin, clock, log>>

Administer(a) ==
    \/ \E code \in Codes, ttl \in Ttls : Generate(a, code, ttl)
    \/ Revoke(a) \/ ReportRevoked(a) \/ ClearRequest(a)

Next ==
    \/ \E a \in Apps : Administer(a)
    \/ ClearDelete
    \/ \E k \in Keys : ImportKey(k)
    \/ \E c \in Claims : Claim(c)
    \/ Tick \/ Restart

Spec == Init /\ [][Next]_vars

----------------------------------------------------------------------------

TypeOK ==
    /\ app \in [Apps -> Registration \cup {NoApp}]
    /\ issued \subseteq Apps /\ ended \subseteq issued
    /\ handed \in [Apps -> Nat]
    /\ pin \in Keys \cup {NoKey}
    /\ clock \in 0..MaxTime
    /\ log \subseteq Event
    /\ pc \in [Claims -> Steps]
    /\ req \in [Claims -> Request \cup {NoReq}]
    /\ revoking \subseteq issued
    /\ clearing \in Apps \cup {NoApp}

(* However many claims of one code race, one of them gets the token. *)
HandedOnce == \A a \in Apps : handed[a] <= 1

RevokedStaysOut == \A a \in ended : ~Authenticates(a)
PairedToThePin == \A a \in Apps : Authenticates(a) => app[a].key = pin

(* A token that deposits was given the key the store pins, and its row says  *)
(* so; and once a registration has been revoked its token is good for no      *)
(* deposit again: a claim under way cannot revive it.                         *)
TokensAreSound == RevokedStaysOut /\ PairedToThePin

(* A registration disappears only if it was revoked and the chain says that  *)
(* its clearing was asked for.                                               *)
ClearedOnRecord ==
    [][\A a \in Apps : app[a] # NoApp /\ app'[a] = NoApp =>
          /\ Has(a, "revoked")
          /\ <<"pairing_clear_requested", a>> \in log]_vars

(* The chain may miss a pairing or a revocation, since the error of Record is *)
(* ignored, but it never tells one that did not happen: a product it calls    *)
(* paired has left "pending" for good, and a token it calls revoked is good   *)
(* for no deposit again, whatever failed, raced or died on the way.           *)
ChainNeverLies ==
    \A a \in Apps :
        /\ <<"product_paired", a>> \in log => a \in issued /\ ~Has(a, "pending")
        /\ <<"pairing_token_revoked", a>> \in log => ~Authenticates(a)

=============================================================================
