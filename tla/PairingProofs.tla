---------------------------- MODULE PairingProofs ----------------------------
(***************************************************************************)
(* What pairing promises, for any registrations, codes, keys, lifetimes    *)
(* and number of racing claims: one token per code, none for a revoked     *)
(* registration, the pinned key with each, a chain that tells no lie.  Claims *)
(* that are past Lookup hold what they read; the invariant says what they  *)
(* can still do with it: a row leaves "pending" once and never comes back, *)
(* so at most one claim of a registration is ever past Update.             *)
(***************************************************************************)
EXTENDS Pairing, TLAPS

(* What a claim holds at each step, the key being the pinned one for good. *)
Holds ==
    \A c \in Claims :
        /\ pc[c] # "idle" => req[c] \in Request
        /\ pc[c] \in {"lookup", "update", "record", "answer"} => req[c].key = pin /\ pin # NoKey
        /\ pc[c] \in {"update", "record", "answer"} => req[c].found \in issued

(* What was never generated has no row and no token; what was handed out is *)
(* not pending, and a row once revoked stays so until it is gone.           *)
Unissued == \A a \in Apps \ issued : app[a] = NoApp /\ handed[a] = 0
Spent == \A a \in Apps : handed[a] > 0 => ~Has(a, "pending")
EndedRevoked == \A a \in ended : app[a] = NoApp \/ Has(a, "revoked")

(* A claim about to answer owns the one token its registration will yield.  *)
Owns ==
    \A c \in Claims : pc[c] \in {"record", "answer"} =>
        /\ handed[req[c].found] = 0
        /\ ~Has(req[c].found, "pending")
        /\ \A d \in Claims :
              pc[d] \in {"record", "answer"} /\ req[d].found = req[c].found => d = c

\* A revocation that has yet to be recorded has been committed.
Committed == revoking \subseteq ended

(* What the chain tells has happened, and cannot be undone.                 *)
LogTrue ==
    \A a \in Apps :
        /\ <<"product_paired", a>> \in log => a \in issued /\ ~Has(a, "pending")
        /\ <<"pairing_token_revoked", a>> \in log => a \in ended

Announced == clearing # NoApp =>
    clearing \in issued /\ <<"pairing_clear_requested", clearing>> \in log

\* No token is good before there is a key.
KeyFirst == \A a \in Apps : Authenticates(a) => pin # NoKey

PInv ==
    /\ TypeOK /\ KeyFirst /\ Holds /\ Unissued /\ Spent /\ EndedRevoked /\ Owns /\ Announced
    /\ HandedOnce /\ PairedToThePin /\ Committed /\ LogTrue

LEMMA InitPInv == Init => PInv
<1> SUFFICES ASSUME Init PROVE PInv
  OBVIOUS
<1> USE PairingAssumption DEF Init
<1>1. TypeOK
  BY DEF TypeOK, Steps
<1>2. Holds /\ Unissued /\ Spent /\ EndedRevoked /\ Owns /\ Announced
  BY DEF Holds, Unissued, Spent, EndedRevoked, Owns, Announced, Has
<1>3. KeyFirst /\ HandedOnce /\ PairedToThePin /\ LogTrue /\ Committed
  BY DEF KeyFirst, HandedOnce, PairedToThePin, LogTrue, Committed, Authenticates, Has
<1>4. QED
  BY <1>1, <1>2, <1>3 DEF PInv

(* A fresh registration: no claim has found it and nothing was said of it.  *)
LEMMA GenerateKeepsPInv ==
    ASSUME PInv, NEW a \in Apps, NEW code \in Codes, NEW ttl \in Ttls, Generate(a, code, ttl)
    PROVE  PInv'
<1> USE PairingAssumption DEF PInv, TypeOK, Generate, claimVars, adminVars
<1>1. clock + ttl \in Nat
  OBVIOUS
<1>2. TypeOK'
  BY <1>1 DEF Registration, Status
<1>3. \A b \in Apps : b # a => app'[b] = app[b]
  OBVIOUS
<1>4. Holds' /\ Unissued' /\ Announced'
  BY <1>3 DEF Holds, Unissued, Announced
<1>5. Spent' /\ EndedRevoked'
  BY <1>3 DEF Spent, EndedRevoked, Unissued, Has
<1>6. Owns'
  BY <1>3 DEF Owns, Holds, Has
<1>7. HandedOnce' /\ LogTrue' /\ Committed'
  BY <1>3 DEF HandedOnce, LogTrue, Committed, Has
<1>8. PairedToThePin' /\ KeyFirst'
  <2> SUFFICES ASSUME NEW b \in Apps, Authenticates(b)'
               PROVE  app'[b].key = pin' /\ pin' # NoKey
    BY DEF PairedToThePin, KeyFirst
  <2>1. b # a
    BY DEF Authenticates, Has
  <2>2. QED
    BY <1>3, <2>1 DEF PairedToThePin, KeyFirst, Authenticates, Has
<1>9. QED
  BY <1>2, <1>4, <1>5, <1>6, <1>7, <1>8

LEMMA ImportKeyKeepsPInv ==
    ASSUME PInv, NEW k \in Keys, ImportKey(k)
    PROVE  PInv'
<1> USE PairingAssumption DEF PInv, TypeOK, ImportKey, appVars, claimVars, adminVars
<1>1. TypeOK'
  OBVIOUS
<1>2. Holds' /\ Unissued' /\ Spent' /\ EndedRevoked' /\ Owns' /\ Announced'
  BY DEF Holds, Unissued, Spent, EndedRevoked, Owns, Announced, Has
<1>3. HandedOnce' /\ LogTrue' /\ Committed'
  BY DEF HandedOnce, LogTrue, Committed, Has
<1>4. PairedToThePin' /\ KeyFirst'
  BY DEF PairedToThePin, KeyFirst, Authenticates, Has
<1>5. QED
  BY <1>1, <1>2, <1>3, <1>4

(* A revoked registration is not pending and its token not good.            *)
LEMMA RevokeKeepsPInv ==
    ASSUME PInv, NEW a \in Apps, Revoke(a)
    PROVE  PInv'
<1> USE PairingAssumption DEF PInv, TypeOK, Revoke, claimVars
<1>1. \A b \in Apps : \/ app'[b] = app[b]
                      \/ app[b] # NoApp /\ app'[b] = [app[b] EXCEPT !.status = "revoked"]
  OBVIOUS
<1>2. TypeOK'
  <2>1. app' \in [Apps -> Registration \cup {NoApp}]
    BY <1>1 DEF Registration, Status
  <2>2. QED
    BY <2>1
<1>3. \A b \in Apps : /\ app[b] = NoApp => app'[b] = NoApp
                      /\ Has(b, "pending")' => Has(b, "pending")
                      /\ Has(b, "paired")' => Has(b, "paired") /\ app'[b] = app[b]
                      /\ Has(b, "revoked") => Has(b, "revoked")' \/ app'[b] = NoApp
  BY <1>1 DEF Has, Registration
<1>4. Holds' /\ Unissued' /\ Spent' /\ Owns' /\ Announced'
  BY <1>3 DEF Holds, Unissued, Spent, Owns, Announced
<1>5. EndedRevoked'
  <2>1. app'[a] = NoApp \/ Has(a, "revoked")'
    BY DEF Has, Registration
  <2>2. QED
    BY <1>3, <2>1 DEF EndedRevoked
<1>6. HandedOnce' /\ LogTrue' /\ Committed'
  BY <1>3 DEF HandedOnce, LogTrue, Committed
<1>7. PairedToThePin' /\ KeyFirst'
  BY <1>3 DEF PairedToThePin, KeyFirst, Authenticates
<1>8. QED
  BY <1>2, <1>4, <1>5, <1>6, <1>7

(* The event of a revocation that has been committed.                       *)
LEMMA ReportRevokedKeepsPInv ==
    ASSUME PInv, NEW a \in Apps, ReportRevoked(a)
    PROVE  PInv'
<1> USE PairingAssumption DEF PInv, TypeOK, ReportRevoked, appVars, claimVars
<1>1. log' \subseteq log \cup {<<"pairing_token_revoked", a>>} /\ log \subseteq log'
  BY DEF Recorded
<1>2. TypeOK'
  BY <1>1 DEF Event
<1>3. Holds' /\ Unissued' /\ Spent' /\ EndedRevoked' /\ Owns' /\ Announced'
  BY <1>1 DEF Holds, Unissued, Spent, EndedRevoked, Owns, Announced, Has
<1>4. HandedOnce' /\ Committed'
  BY DEF HandedOnce, Committed
<1>5. LogTrue'
  BY <1>1 DEF LogTrue, Committed, Has
<1>6. PairedToThePin' /\ KeyFirst'
  BY DEF PairedToThePin, KeyFirst, Authenticates, Has
<1>7. QED
  BY <1>2, <1>3, <1>4, <1>5, <1>6

LEMMA ClearRequestKeepsPInv ==
    ASSUME PInv, NEW a \in Apps, ClearRequest(a)
    PROVE  PInv'
<1> USE PairingAssumption DEF PInv, TypeOK, ClearRequest, appVars, claimVars
<1>1. TypeOK'
  BY DEF Event
<1>2. Holds' /\ Unissued' /\ Spent' /\ EndedRevoked' /\ Owns' /\ Announced'
  BY DEF Holds, Unissued, Spent, EndedRevoked, Owns, Announced, Has
<1>3. HandedOnce' /\ LogTrue' /\ Committed'
  BY DEF HandedOnce, LogTrue, Committed, Has
<1>4. PairedToThePin' /\ KeyFirst'
  BY DEF PairedToThePin, KeyFirst, Authenticates, Has
<1>5. QED
  BY <1>1, <1>2, <1>3, <1>4

LEMMA ClearDeleteKeepsPInv ==
    ASSUME PInv, ClearDelete
    PROVE  PInv'
<1> USE PairingAssumption DEF PInv, TypeOK, ClearDelete, claimVars, adminVars
<1>1. \A b \in Apps : app'[b] \in {app[b], NoApp}
  OBVIOUS
<1>2. TypeOK'
  BY <1>1
<1>3. Holds' /\ Unissued' /\ Spent' /\ EndedRevoked' /\ Owns' /\ Announced'
  BY <1>1 DEF Holds, Unissued, Spent, EndedRevoked, Owns, Announced, Has
<1>4. HandedOnce' /\ LogTrue' /\ Committed'
  BY <1>1 DEF HandedOnce, LogTrue, Committed, Has
<1>5. PairedToThePin' /\ KeyFirst'
  BY <1>1 DEF PairedToThePin, KeyFirst, Authenticates, Has
<1>6. QED
  BY <1>2, <1>3, <1>4, <1>5

----------------------------------------------------------------------------
(* The steps of a claim.  Those before Update change no row.               *)

LEMMA ApproachKeepsPInv ==
    ASSUME PInv, NEW c \in Claims,
           (\E code \in Codes : Arrive(c, code)) \/ ReadKey(c) \/ Lookup(c)
    PROVE  PInv'
<1> USE PairingAssumption DEF PInv, TypeOK, ClaimKeeps, Leave, Goto, adminVars
<1>1. /\ UNCHANGED <<app, handed, log, issued, ended, pin, clock, revoking, clearing>>
      /\ pc' \in [Claims -> Steps] /\ pc'[c] \in {"idle", "key", "lookup", "update"}
      /\ \A d \in Claims \ {c} : pc'[d] = pc[d] /\ req'[d] = req[d]
  BY DEF Arrive, ReadKey, Lookup, Steps
<1>2. /\ req' \in [Claims -> Request \cup {NoReq}]
      /\ pc'[c] # "idle" => req'[c] \in Request
      /\ pc'[c] \in {"lookup", "update"} => req'[c].key = pin /\ pin # NoKey
      /\ pc'[c] = "update" => req'[c].found \in issued
  <2>1. CASE \E code \in Codes : Arrive(c, code)
    BY <2>1 DEF Arrive, Request
  <2>2. CASE ReadKey(c)
    BY <2>2 DEF ReadKey, Request, Holds
  <2>3. CASE Lookup(c)
    BY <2>3 DEF Lookup, Request, Holds, WithCode, Unissued
  <2>4. QED
    BY <2>1, <2>2, <2>3
<1>3. TypeOK'
  BY <1>1, <1>2
<1>4. Holds' /\ Owns'
  BY <1>1, <1>2 DEF Holds, Owns, Has
<1>5. Unissued' /\ Spent' /\ EndedRevoked' /\ Announced'
  BY <1>1 DEF Unissued, Spent, EndedRevoked, Announced, Has
<1>6. HandedOnce' /\ LogTrue' /\ Committed'
  BY <1>1 DEF HandedOnce, LogTrue, Committed, Has
<1>7. PairedToThePin' /\ KeyFirst'
  BY <1>1 DEF PairedToThePin, KeyFirst, Authenticates, Has
<1>8. QED
  BY <1>3, <1>4, <1>5, <1>6, <1>7

(* The row was pending: nothing was handed out for it and no other claim of *)
(* it is past its Update.                                                   *)
LEMMA UpdateKeepsPInv ==
    ASSUME PInv, NEW c \in Claims, Update(c)
    PROVE  PInv'
<1> DEFINE a == req[c].found
<1> USE PairingAssumption DEF PInv, TypeOK, Update, ClaimKeeps, Leave, Goto, adminVars
<1>1. a \in issued /\ a \in Apps /\ req[c] \in Request /\ req[c].key = pin /\ pin # NoKey
  BY DEF Holds
<1>2. CASE Refuse(c)
  <2>1. UNCHANGED app /\ pc'[c] = "idle" /\ req' \in [Claims -> Request \cup {NoReq}]
        /\ pc' \in [Claims -> Steps]
        /\ \A d \in Claims \ {c} : pc'[d] = pc[d] /\ req'[d] = req[d]
    BY <1>2 DEF Refuse, Steps
  <2>2. TypeOK'
    BY <2>1
  <2>3. Holds' /\ Unissued' /\ Spent' /\ EndedRevoked' /\ Owns' /\ Announced'
    BY <2>1 DEF Holds, Unissued, Spent, EndedRevoked, Owns, Announced, Has
  <2>4. HandedOnce' /\ LogTrue' /\ Committed' /\ PairedToThePin' /\ KeyFirst'
    BY <2>1 DEF HandedOnce, LogTrue, Committed, PairedToThePin, KeyFirst, Authenticates, Has
  <2>5. QED
    BY <2>2, <2>3, <2>4
<1>3. CASE Has(a, "pending") /\ Pair(c)
  <2>1. /\ app[a] \in Registration /\ app'[a] \in Registration
        /\ app'[a].status = "paired" /\ app'[a].key = pin
        /\ \A b \in Apps \ {a} : app'[b] = app[b]
        /\ app' \in [Apps -> Registration \cup {NoApp}]
    <3>1. app[a] \in Registration
      BY <1>1, <1>3 DEF Has
    <3>2. app' = [app EXCEPT ![a] = [app[a] EXCEPT !.status = "paired", !.key = pin]]
      BY <1>1, <1>3 DEF Pair
    <3>3. QED
      BY <1>1, <3>1, <3>2 DEF Registration, Status
  <2>2. pc' = [pc EXCEPT ![c] = "record"] /\ UNCHANGED req
    BY <1>3 DEF Pair
  <2>3. TypeOK'
    BY <2>1, <2>2 DEF Steps
  <2>4. handed[a] = 0 /\ a \notin ended
    BY <1>1, <1>3 DEF Spent, EndedRevoked, Has
  <2>5. \A d \in Claims : pc[d] \in {"record", "answer"} => req[d].found # a
    BY <1>3 DEF Owns
  <2>6. Holds' /\ Unissued' /\ Announced'
    BY <1>1, <2>1, <2>2 DEF Holds, Unissued, Announced
  <2>7. Spent' /\ EndedRevoked'
    BY <2>1, <2>4 DEF Spent, EndedRevoked, Has
  <2>8. Owns'
    BY <1>1, <2>1, <2>2, <2>4, <2>5 DEF Owns, Holds, Has
  <2>9. HandedOnce' /\ LogTrue' /\ Committed'
    BY <1>1, <2>1 DEF HandedOnce, LogTrue, Committed, Has
  <2>10. PairedToThePin' /\ KeyFirst'
    BY <1>1, <2>1 DEF PairedToThePin, KeyFirst, Authenticates, Has
  <2>11. QED
    BY <2>3, <2>6, <2>7, <2>8, <2>9, <2>10
<1>4. QED
  BY <1>2, <1>3

(* The pairing has been committed, and its row is past "pending" for good.  *)
LEMMA RecordKeepsPInv ==
    ASSUME PInv, NEW c \in Claims, RecordPaired(c)
    PROVE  PInv'
<1> DEFINE a == req[c].found
<1> USE PairingAssumption DEF PInv, TypeOK, RecordPaired, ClaimKeeps, Goto, adminVars
<1>1. a \in issued /\ a \in Apps /\ handed[a] = 0 /\ ~Has(a, "pending")
  BY DEF Holds, Owns
<1>2. log' \subseteq log \cup {<<"product_paired", a>>} /\ log \subseteq log'
  BY DEF Recorded
<1>3. TypeOK'
  BY <1>1, <1>2 DEF Event, Steps
<1>4. Holds' /\ Unissued' /\ Announced'
  BY <1>2 DEF Holds, Unissued, Announced
<1>5. Spent' /\ EndedRevoked' /\ Owns'
  BY DEF Spent, EndedRevoked, Owns, Has
<1>6. HandedOnce' /\ Committed'
  BY DEF HandedOnce, Committed
<1>7. LogTrue'
  BY <1>1, <1>2 DEF LogTrue, Has
<1>8. PairedToThePin' /\ KeyFirst'
  BY DEF PairedToThePin, KeyFirst, Authenticates, Has
<1>9. QED
  BY <1>3, <1>4, <1>5, <1>6, <1>7, <1>8

LEMMA AnswerKeepsPInv ==
    ASSUME PInv, NEW c \in Claims, AnswerPaired(c)
    PROVE  PInv'
<1> DEFINE a == req[c].found
<1> USE PairingAssumption DEF PInv, TypeOK, AnswerPaired, ClaimKeeps, Leave, Goto, adminVars
<1>1. a \in issued /\ a \in Apps /\ handed[a] = 0 /\ ~Has(a, "pending")
  BY DEF Holds, Owns
<1>2. handed'[a] = 1 /\ \A b \in Apps \ {a} : handed'[b] = handed[b]
  BY <1>1
<1>3. /\ pc'[c] = "idle" /\ \A d \in Claims \ {c} : pc'[d] = pc[d] /\ req'[d] = req[d]
      /\ pc' \in [Claims -> Steps] /\ req' \in [Claims -> Request \cup {NoReq}]
  BY DEF Steps
<1>4. TypeOK'
  BY <1>1, <1>2, <1>3
<1>5. Holds' /\ Unissued' /\ Announced'
  BY <1>1, <1>2, <1>3 DEF Holds, Unissued, Announced
<1>6. Spent' /\ EndedRevoked'
  BY <1>1, <1>2 DEF Spent, EndedRevoked, Has
<1>7. Owns'
  BY <1>1, <1>2, <1>3 DEF Owns, Holds, Has
<1>8. HandedOnce'
  BY <1>2 DEF HandedOnce
<1>9. LogTrue' /\ Committed'
  BY DEF LogTrue, Committed, Has
<1>10. PairedToThePin' /\ KeyFirst'
  BY DEF PairedToThePin, KeyFirst, Authenticates, Has
<1>11. QED
  BY <1>4, <1>5, <1>6, <1>7, <1>8, <1>9, <1>10

(* The clock and a restart touch no registration.                          *)
LEMMA WorldKeepsPInv ==
    ASSUME PInv, Tick \/ Restart \/ UNCHANGED vars
    PROVE  PInv'
<1> USE PairingAssumption DEF PInv, TypeOK, appVars, adminVars, claimVars, vars
<1>1. /\ UNCHANGED <<app, issued, handed, ended, pin, log>> /\ clearing' \in {clearing, NoApp}
      /\ clock' \in 0..MaxTime /\ revoking' \subseteq revoking
      /\ \/ UNCHANGED <<pc, req>>
         \/ pc' = [c \in Claims |-> "idle"] /\ req' = [c \in Claims |-> NoReq]
  <2>1. CASE Tick
    BY <2>1 DEF Tick
  <2>2. CASE Restart
    BY <2>2 DEF Restart
  <2>3. CASE UNCHANGED vars
    BY <2>3
  <2>4. QED
    BY <2>1, <2>2, <2>3
<1>2. TypeOK'
  BY <1>1 DEF Steps
<1>3. Holds' /\ Unissued' /\ Spent' /\ EndedRevoked' /\ Owns' /\ Announced'
  BY <1>1 DEF Holds, Unissued, Spent, EndedRevoked, Owns, Announced, Has
<1>4. HandedOnce' /\ LogTrue' /\ Committed'
  BY <1>1 DEF HandedOnce, LogTrue, Committed, Has
<1>5. PairedToThePin' /\ KeyFirst'
  BY <1>1 DEF PairedToThePin, KeyFirst, Authenticates, Has
<1>6. QED
  BY <1>2, <1>3, <1>4, <1>5

LEMMA NextKeepsPInv == PInv /\ [Next]_vars => PInv'
<1> SUFFICES ASSUME PInv, [Next]_vars PROVE PInv'
  OBVIOUS
<1>1. CASE \E a \in Apps : Administer(a)
  BY <1>1, GenerateKeepsPInv, RevokeKeepsPInv, ReportRevokedKeepsPInv, ClearRequestKeepsPInv
     DEF Administer
<1>2. CASE ClearDelete
  BY <1>2, ClearDeleteKeepsPInv
<1>3. CASE \E k \in Keys : ImportKey(k)
  BY <1>3, ImportKeyKeepsPInv
<1>4. CASE \E c \in Claims : Claim(c)
  BY <1>4, ApproachKeepsPInv, UpdateKeepsPInv, RecordKeepsPInv, AnswerKeepsPInv DEF Claim
<1>5. CASE Tick \/ Restart \/ UNCHANGED vars
  BY <1>5, WorldKeepsPInv
<1>6. QED
  BY <1>1, <1>2, <1>3, <1>4, <1>5 DEF Next

----------------------------------------------------------------------------

LEMMA PInvHolds == Spec => []PInv
<1>1. QED
  BY InitPInv, NextKeepsPInv, PTL DEF Spec

(* Every variable of pairing has its type.                                  *)
THEOREM PairingTypeCorrect == Spec => []TypeOK
<1>1. PInv => TypeOK
  BY DEF PInv
<1>2. QED
  BY <1>1, PInvHolds, PTL

(* handlePairingClaim gives each code's token away at most once, however    *)
(* many claims of the code, or of a code drawn twice, race each other,      *)
(* revocations, restarts and failing statements.                            *)
THEOREM OneTokenPerCode == Spec => []HandedOnce
<1>1. PInv => HandedOnce
  BY DEF PInv
<1>2. QED
  BY <1>1, PInvHolds, PTL

(* A token that deposits was given the pinned recovery key, and a token     *)
(* whose revocation has been committed deposits never again: no claim past  *)
(* its lookup can revive it.                                                *)
THEOREM TokensStaySound == Spec => []TokensAreSound
<1>1. PInv => TokensAreSound
  BY DEF PInv, TypeOK, EndedRevoked, TokensAreSound, RevokedStaysOut, Authenticates, Has
<1>2. QED
  BY <1>1, PInvHolds, PTL

(* The chain calls no product paired whose claim did not commit, and no      *)
(* token revoked that still deposits or ever will: an append follows its     *)
(* UPDATE, and the UPDATE cannot be undone.                                  *)
THEOREM ChainTellsNoLie == Spec => []ChainNeverLies
<1>1. PInv => ChainNeverLies
  BY DEF PInv, TypeOK, LogTrue, EndedRevoked, ChainNeverLies, Authenticates, Has
<1>2. QED
  BY <1>1, PInvHolds, PTL

(* A registration disappears only if it was revoked, after the chain said   *)
(* that its clearing was asked for.                                         *)
THEOREM ClearingIsOnRecord == Spec => ClearedOnRecord
<1> DEFINE Cleared == \A a \in Apps : app[a] # NoApp /\ app'[a] = NoApp =>
                          /\ Has(a, "revoked")
                          /\ <<"pairing_clear_requested", a>> \in log
<1>1. PInv /\ PInv' /\ [Next]_vars => [Cleared]_vars
  <2> SUFFICES ASSUME PInv, PInv', Next, NEW a \in Apps, app[a] # NoApp, app'[a] = NoApp
               PROVE  Has(a, "revoked") /\ <<"pairing_clear_requested", a>> \in log
    OBVIOUS
  <2> USE PairingAssumption DEF PInv, TypeOK
  <2>1. CASE ClearDelete
    BY <2>1 DEF ClearDelete, Announced
  <2>2. CASE \E b \in Apps : Administer(b)
    <3>1. PICK b \in Apps : Administer(b)
      BY <2>2
    <3>2. CASE \E code \in Codes, ttl \in Ttls : Generate(b, code, ttl)
      BY <3>2 DEF Generate, Unissued
    <3>3. CASE Revoke(b)
      <4>1. app'[a] \in {app[a], [app[a] EXCEPT !.status = "revoked"]}
        BY <3>3 DEF Revoke
      <4>2. app'[a] \in Registration
        BY <4>1 DEF Registration, Status
      <4>3. QED
        BY <4>2
    <3>4. CASE ReportRevoked(b) \/ ClearRequest(b)
      BY <3>4 DEF ReportRevoked, ClearRequest, appVars
    <3>5. QED
      BY <3>1, <3>2, <3>3, <3>4 DEF Administer
  <2>3. CASE \E c \in Claims : Claim(c)
    <3>1. PICK c \in Claims : Claim(c)
      BY <2>3
    <3>2. Update(c) /\ Pair(c)
      BY <3>1 DEF Claim, Arrive, ReadKey, Lookup, Update, RecordPaired, AnswerPaired, Refuse
    <3>3. app' = [app EXCEPT ![req[c].found] = [@ EXCEPT !.status = "paired", !.key = req[c].key]]
      BY <3>2, ZenonT(30) DEF Pair
    <3>4. req[c].key \in Keys \cup {NoKey}
      BY <3>2 DEF Update, Holds, Request
    <3>5. app'[a] \in {app[a], [app[a] EXCEPT !.status = "paired", !.key = req[c].key]}
      BY <3>3
    <3>6. app'[a] \in Registration
      BY <3>4, <3>5 DEF Registration, Status
    <3>7. QED
      BY <3>6
  <2>4. CASE Tick \/ Restart \/ \E k \in Keys : ImportKey(k)
    <3>1. UNCHANGED app
      BY <2>4 DEF Tick, Restart, ImportKey, appVars
    <3>2. QED
      BY <3>1
  <2>5. QED
    BY <2>1, <2>2, <2>3, <2>4 DEF Next
<1>2. QED
  BY <1>1, PInvHolds, PTL DEF Spec, ClearedOnRecord

=============================================================================
