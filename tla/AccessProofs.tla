----------------------------- MODULE AccessProofs -----------------------------
(***************************************************************************)
(* Sessions and the single sign-on configuration, for any number of        *)
(* requests, users, passwords and settings: no session outlives the        *)
(* password that opened it but those the last change of it missed, and what *)
(* is in force is what is stored.  Both are about a request part way through:    *)
(* the invariant says what a change that has not yet revoked, and a save   *)
(* that has not yet served, still owe.  The last part is about the policy  *)
(* table: for a request of any path, the role it asks for is at least what *)
(* the handler it reaches needs.                                           *)
(***************************************************************************)
EXTENDS Access, TLAPS

SigningIn(r) == pc[r] = "insert" => job[r] \in [op : {"signin"}, row : Rows]
Changing(r) == pc[r] \in {"check", "update", "revoke"} =>
    job[r] \in [op : {"change"}, cookie : Ids, new : Passwords]
Saving(r) == pc[r] \in {"lock", "write"} =>
    job[r] \in [op : {"save"}, cookie : Ids, form : Forms, left : Seq(FieldSet)]
Calling(r) == pc[r] = "authorise" =>
    job[r] \in [op : {"change"}, cookie : Ids, new : Passwords]
               \cup [op : {"save"}, cookie : Ids, form : Forms, left : Seq(FieldSet)]
\* A cookie was a session once, and what it was opened as is not forgotten.
Opened(r) == pc[r] \in {"authorise", "check", "update", "revoke"} => row[job[r].cookie] # NoRow
OfItsUser(r) == pc[r] \in {"update", "revoke"} => Session(r).user \in Local

JobsFit == \A r \in Requests :
    SigningIn(r) /\ Changing(r) /\ Saving(r) /\ Calling(r) /\ Opened(r) /\ OfItsUser(r)

(* A session that is old, or will be all its change leaves: the last change  *)
(* has an excuse for it, or another change is on its way to end it.          *)
Ender(q, s) == pc[q] = "revoke" /\ Session(q).user = row[s].user /\ job[q].cookie # s
Doomed(s) == \E q \in Requests : Ender(q, s)
Old(s) ==
    \/ row[s].proof # password[row[s].user]
    \/ \E r \in Requests : pc[r] = "revoke" /\ job[r].cookie = s
Excused(s) == s \in missed \/ s = caller[row[s].user]
Accounted(s) == row[s].user \in Local /\ Old(s) => Excused(s) \/ Doomed(s)
Kept == \A s \in sessions : Accounted(s)

(* The writer is whoever holds the lock, with distinct fields left.  A plain *)
(* field left is served as it is stored; one written is stored as submitted. *)
Distinct(s) == \A i, j \in DOMAIN s : s[i] = s[j] => i = j
Agrees(f) == cfg[f] = settings[f] \/ (settings[f] = Empty /\ cfg[f] = Flags[f])
Writer ==
    /\ \A r \in Requests : pc[r] = "write" => mu = r
    /\ mu # NoOne => pc[mu] = "write"
Owed(r) ==
    \A f \in FieldSet :
        /\ f \in {Secret} \cup ToSet(job[r].left) /\ f \notin torn => Agrees(f)
        /\ f \in Plain \ ToSet(job[r].left) => settings[f] = job[r].form[f]
Written == \A r \in Requests :
    /\ pc[r] = "lock" => job[r].left = Fields
    /\ pc[r] = "authorise" /\ job[r].op = "save" => job[r].left = Fields
    /\ pc[r] = "write" => Distinct(job[r].left) /\ Owed(r)

AInv == TypeOK /\ JobsFit /\ Writer /\ Written /\ Kept /\ ServedIsSaved

ValuesFit == /\ Empty \in Values /\ \A f \in FieldSet : Flags[f] \in Values
             /\ \A c \in Forms, f \in FieldSet : c[f] \in Values

LEMMA ValuesAreFields == ValuesFit
BY DEF ValuesFit, Values

(* What is left of distinct fields when the first is done.                 *)
LEMMA TailLeaves ==
    ASSUME NEW s \in Seq(FieldSet), s # <<>>, Distinct(s)
    PROVE  /\ Tail(s) \in Seq(FieldSet) /\ Distinct(Tail(s))
           /\ Head(s) \in FieldSet /\ ToSet(Tail(s)) = ToSet(s) \ {Head(s)}
<1>1. /\ Tail(s) \in Seq(FieldSet) /\ Len(s) \in Nat \ {0} /\ Len(Tail(s)) = Len(s) - 1
      /\ \A i \in 1..(Len(s) - 1) : Tail(s)[i] = s[i + 1]
      /\ Head(s) = s[1] /\ s[1] \in FieldSet
      /\ DOMAIN s = 1..Len(s) /\ DOMAIN Tail(s) = 1..(Len(s) - 1)
  OBVIOUS
<1>2. Distinct(Tail(s))
  BY <1>1 DEF Distinct
<1>3. ASSUME NEW x PROVE x \in ToSet(Tail(s)) => x \in ToSet(s) \ {Head(s)}
  BY <1>1 DEF ToSet, Distinct
<1>4. ASSUME NEW x \in ToSet(s), x # Head(s) PROVE x \in ToSet(Tail(s))
  <2>1. PICK i \in 1..Len(s) : s[i] = x
    BY <1>1 DEF ToSet
  <2>2. i - 1 \in 1..(Len(s) - 1) /\ Tail(s)[i - 1] = x
    BY <1>1, <1>4, <2>1
  <2>3. QED
    BY <1>1, <2>2 DEF ToSet
<1>5. QED
  BY <1>1, <1>2, <1>3, <1>4

LEMMA InitAInv == Init => AInv
<1> SUFFICES ASSUME Init PROVE AInv
  OBVIOUS
<1> USE AccessAssumption, ValuesAreFields DEF Init, ValuesFit
<1>1. cfg \in [FieldSet -> Values] /\ cfg = Flags
  BY DEF IsConfig
<1>2. TypeOK
  BY <1>1 DEF TypeOK, Steps
<1>3. JobsFit
  BY DEF JobsFit, SigningIn, Changing, Saving, Calling, Opened, OfItsUser
<1>4. Writer /\ Written
  BY DEF Writer, Written
<1>5. Kept /\ ServedIsSaved
  BY DEF Kept, ServedIsSaved
<1>6. QED
  BY <1>2, <1>3, <1>4, <1>5 DEF AInv

----------------------------------------------------------------------------
(* What a step of one request leaves alone.                                *)

Others(r) == \A q \in Requests \ {r} : pc'[q] = pc[q] /\ job'[q] = job[q]
Fits(r) == SigningIn(r) /\ Changing(r) /\ Saving(r) /\ Calling(r) /\ Opened(r) /\ OfItsUser(r)
LeftWhole(r) == pc[r] = "lock" \/ (pc[r] = "authorise" /\ job[r].op = "save") => job[r].left = Fields

(* Rows stay as they were inserted.                                        *)
LEMMA OthersFit ==
    ASSUME JobsFit, NEW r \in Requests, Others(r),
           \A s \in Ids : row[s] # NoRow => row'[s] = row[s],
           Fits(r)'
    PROVE  JobsFit'
<1> SUFFICES ASSUME NEW q \in Requests \ {r} PROVE Fits(q)'
  BY DEF JobsFit, Fits
<1>1. pc'[q] = pc[q] /\ job'[q] = job[q]
  BY DEF Others
<1>2. SigningIn(q)' /\ Changing(q)' /\ Saving(q)' /\ Calling(q)'
  BY <1>1 DEF JobsFit, SigningIn, Changing, Saving, Calling
<1>3. Opened(q)' /\ OfItsUser(q)'
  <2>1. pc[q] \in {"authorise", "check", "update", "revoke"} => job[q].cookie \in Ids
    BY DEF JobsFit, Changing, Calling
  <2>2. QED
    BY <1>1, <2>1 DEF JobsFit, Opened, OfItsUser, Session
<1>4. QED
  BY <1>2, <1>3 DEF Fits

(* A request that is not saving leaves the configuration to who is.        *)
LEMMA ConfigKept ==
    ASSUME TypeOK, Writer, Written, ServedIsSaved, UNCHANGED config,
           NEW r \in Requests, Others(r), pc[r] # "write", pc'[r] # "write", LeftWhole(r)'
    PROVE  Writer' /\ Written' /\ ServedIsSaved'
<1> USE DEF config, Others
<1>1. Writer'
  BY DEF Writer, TypeOK
<1>2. ServedIsSaved'
  BY DEF ServedIsSaved
<1>3. Written'
  <2> SUFFICES ASSUME NEW q \in Requests
               PROVE  /\ LeftWhole(q)'
                      /\ pc'[q] = "write" => Distinct(job'[q].left) /\ Owed(q)'
    BY DEF Written, LeftWhole
  <2>1. CASE q = r
    BY <2>1
  <2>2. CASE q # r
    BY <2>2 DEF Written, LeftWhole, Owed, Agrees
  <2>3. QED
    BY <2>1, <2>2
<1>4. QED
  BY <1>1, <1>2, <1>3

(* A request that does not come to or leave "revoke", passwords and rows as *)
(* they are.                                                               *)
LEMMA KeptStays ==
    ASSUME Kept, NEW r \in Requests, Others(r), pc[r] # "revoke", pc'[r] # "revoke",
           UNCHANGED <<password, row, caller, missed>>, sessions' \subseteq sessions
    PROVE  Kept'
<1> SUFFICES ASSUME NEW s \in sessions, Accounted(s) PROVE Accounted(s)'
  BY DEF Kept
<1>1. \A q \in Requests : Ender(q, s)' <=> Ender(q, s)
  BY DEF Ender, Session, Others
<1>2. Old(s)' <=> Old(s)
  BY DEF Old, Others
<1>3. QED
  BY <1>1, <1>2 DEF Accounted, Doomed, Excused

----------------------------------------------------------------------------
(* Signing in and out, and requests that come and go.                      *)

LEMMA RowTypes ==
    ASSUME TypeOK, NEW u \in Users, NEW role \in Roles, NEW proof \in Passwords \cup {NoOne}
    PROVE  [user |-> u, role |-> role, proof |-> proof] \in Rows
BY DEF Rows

LEMMA NormalizedIsARole == ASSUME NEW claim PROVE NormalizeRole(claim) \in Roles
BY DEF NormalizeRole, Roles

(* A request goes on, with what it now holds.                              *)
LEMMA MovesOn ==
    ASSUME TypeOK, NEW r \in Requests, NEW step \in Steps, NEW what \in Jobs \cup {NoJob},
           Goto(r, step), job' = [job EXCEPT ![r] = what]
    PROVE  /\ Others(r) /\ pc'[r] = step /\ job'[r] = what
           /\ pc' \in [Requests -> Steps] /\ job' \in [Requests -> Jobs \cup {NoJob}]
BY DEF TypeOK, Goto, Others

LEMMA Leaves ==
    ASSUME TypeOK, NEW r \in Requests, Leave(r)
    PROVE  /\ Others(r) /\ pc'[r] = "idle" /\ job'[r] = NoJob
           /\ pc' \in [Requests -> Steps] /\ job' \in [Requests -> Jobs \cup {NoJob}]
BY MovesOn DEF Leave, Steps

LEMMA IdleFits ==
    ASSUME NEW r \in Requests, pc[r] = "idle"
    PROVE  Fits(r) /\ LeftWhole(r)
BY DEF Fits, SigningIn, Changing, Saving, Calling, Opened, OfItsUser, LeftWhole

(* A request that starts, moves on or ends without a word to the tables.   *)
LEMMA QuietStep ==
    ASSUME AInv, NEW r \in Requests, UNCHANGED <<users, config, restarts>>, Others(r),
           pc' \in [Requests -> Steps], job' \in [Requests -> Jobs \cup {NoJob}],
           pc[r] \notin {"write", "revoke"}, pc'[r] \notin {"write", "revoke"}, Fits(r)', LeftWhole(r)'
    PROVE  AInv'
<1> USE DEF users
<1>1. TypeOK'
  BY DEF AInv, TypeOK, config
<1>2. JobsFit'
  BY OthersFit DEF AInv
<1>3. Writer' /\ Written' /\ ServedIsSaved'
  BY ConfigKept DEF AInv
<1>4. Kept'
  BY KeptStays DEF AInv
<1>5. QED
  BY <1>1, <1>2, <1>3, <1>4 DEF AInv

ChangeJobs == [op : {"change"}, cookie : Ids, new : Passwords]
SaveJobs == [op : {"save"}, cookie : Ids, form : Forms, left : Seq(FieldSet)]

LEMMA SignInKeeps ==
    ASSUME AInv, NEW r \in Requests, NEW new \in Rows,
           Begin(r, "insert", [op |-> "signin", row |-> new]), UNCHANGED <<users, config, restarts>>
    PROVE  AInv'
<1> DEFINE what == [op |-> "signin", row |-> new]
<1>1. what \in [op : {"signin"}, row : Rows] /\ what \in Jobs \cup {NoJob} /\ "insert" \in Steps
  BY DEF Jobs, Steps
<1>2. /\ Others(r) /\ pc'[r] = "insert" /\ job'[r] = what
      /\ pc' \in [Requests -> Steps] /\ job' \in [Requests -> Jobs \cup {NoJob}]
  BY <1>1, MovesOn DEF Begin, AInv
<1>3. Fits(r)' /\ LeftWhole(r)'
  BY <1>1, <1>2 DEF Fits, SigningIn, Changing, Saving, Calling, Opened, OfItsUser, LeftWhole
<1>4. pc[r] = "idle"
  BY DEF Begin
<1>5. QED
  BY <1>2, <1>3, <1>4, QuietStep

LEMMA CallKeeps ==
    ASSUME AInv, NEW r \in Requests, NEW what \in ChangeJobs \cup SaveJobs,
           row[what.cookie] # NoRow, what.op = "save" => what.left = Fields,
           Begin(r, "authorise", what), UNCHANGED <<users, config, restarts>>
    PROVE  AInv'
<1>1. what \in Jobs \cup {NoJob} /\ "authorise" \in Steps
  BY DEF Jobs, Steps, ChangeJobs, SaveJobs
<1>2. /\ Others(r) /\ pc'[r] = "authorise" /\ job'[r] = what
      /\ pc' \in [Requests -> Steps] /\ job' \in [Requests -> Jobs \cup {NoJob}]
  BY <1>1, MovesOn DEF Begin, AInv
<1>3. Fits(r)' /\ LeftWhole(r)'
  BY <1>2 DEF Fits, SigningIn, Changing, Saving, Calling, Opened, OfItsUser, LeftWhole,
     ChangeJobs, SaveJobs, users
<1>4. pc[r] = "idle"
  BY DEF Begin
<1>5. QED
  BY <1>2, <1>3, <1>4, QuietStep

LEMMA ArriveKeeps ==
    ASSUME AInv, NEW r \in Requests, Arrive(r)
    PROVE  AInv'
<1>1. CASE \E u \in Local : SignIn(r, u)
  <2>1. PICK u \in Local : SignIn(r, u)
    BY <1>1
  <2>2. [user |-> u, role |-> Admin, proof |-> password[u]] \in Rows
    BY RowTypes DEF AInv, TypeOK, Users, Roles
  <2>3. QED
    BY <2>1, <2>2, SignInKeeps DEF SignIn
<1>2. CASE \E u \in Federated, claim \in Claims : FederatedSignIn(r, u, claim)
  <2>1. PICK u \in Federated, claim \in Claims : FederatedSignIn(r, u, claim)
    BY <1>2
  <2>2. PICK role \in Roles :
            /\ Begin(r, "insert", [op |-> "signin", row |-> [user |-> u, role |-> role, proof |-> NoOne]])
            /\ UNCHANGED <<users, config, restarts>>
    BY <2>1, NormalizedIsARole DEF FederatedSignIn, Roles
  <2>3. [user |-> u, role |-> role, proof |-> NoOne] \in Rows
    BY RowTypes DEF AInv, Users
  <2>4. QED
    BY <2>2, <2>3, SignInKeeps
<1>3. CASE \E s \in Ids, new \in Passwords : CallChange(r, s, new)
  <2>1. PICK s \in Ids, new \in Passwords : CallChange(r, s, new)
    BY <1>3
  <2> DEFINE what == [op |-> "change", cookie |-> s, new |-> new]
  <2>2. what \in ChangeJobs /\ what.cookie = s /\ what.op = "change"
    BY DEF ChangeJobs
  <2>3. row[what.cookie] # NoRow /\ Begin(r, "authorise", what) /\ UNCHANGED <<users, config, restarts>>
    BY <2>1, <2>2 DEF CallChange
  <2> HIDE DEF what
  <2>4. QED
    BY <2>2, <2>3, CallKeeps
<1>4. CASE \E s \in Ids, form \in Forms : CallSave(r, s, form)
  <2>1. PICK s \in Ids, form \in Forms : CallSave(r, s, form)
    BY <1>4
  <2> DEFINE what == [op |-> "save", cookie |-> s, form |-> form, left |-> Fields]
  <2>2. what \in SaveJobs /\ what.cookie = s /\ what.left = Fields
    BY AccessAssumption DEF SaveJobs
  <2>3. row[what.cookie] # NoRow /\ Begin(r, "authorise", what) /\ UNCHANGED <<users, config, restarts>>
    BY <2>1, <2>2 DEF CallSave
  <2> HIDE DEF what
  <2>4. QED
    BY <2>2, <2>3, CallKeeps
<1>5. QED
  BY <1>1, <1>2, <1>3, <1>4 DEF Arrive

LEMMA InsertSessionKeeps ==
    ASSUME AInv, NEW r \in Requests, InsertSession(r)
    PROVE  AInv'
<1> DEFINE new == job[r].row
<1>1. PICK s \in Ids :
        /\ row[s] = NoRow /\ sessions' = sessions \cup {s}
        /\ row' = [row EXCEPT ![s] = new]
        /\ missed' = IF new.user \in Local /\ new.proof # password[new.user] /\ ~Ending(new.user)
                     THEN missed \cup {s} ELSE missed
  BY DEF InsertSession
<1>2. pc[r] = "insert" /\ Leave(r) /\ UNCHANGED <<password, lapsed, caller, config, restarts>>
  BY DEF InsertSession
<1>3. /\ Others(r) /\ pc'[r] = "idle" /\ job'[r] = NoJob
      /\ pc' \in [Requests -> Steps] /\ job' \in [Requests -> Jobs \cup {NoJob}]
  BY <1>2, Leaves DEF AInv
<1>4. new \in Rows /\ new # NoRow
  BY <1>2 DEF AInv, JobsFit, SigningIn, Rows, NoRow, Roles, Admin, Operator, Viewer
<1>5. TypeOK'
  BY <1>1, <1>2, <1>3, <1>4 DEF AInv, TypeOK, config
<1>6. /\ \A i \in Ids : row[i] # NoRow => row'[i] = row[i]
      /\ row'[s] = new /\ missed \subseteq missed'
  BY <1>1 DEF AInv, TypeOK
<1>7. JobsFit'
  BY <1>3, <1>6, OthersFit DEF AInv, Fits, SigningIn, Changing, Saving, Calling,
     Opened, OfItsUser
<1>8. Writer' /\ Written' /\ ServedIsSaved'
  BY <1>2, <1>3, ConfigKept DEF AInv, LeftWhole
<1>9. ASSUME NEW q \in Requests, pc[q] = "revoke"
      PROVE  /\ q # r /\ job[q].cookie # s /\ pc'[q] = "revoke" /\ job'[q] = job[q]
             /\ Session(q)' = Session(q)
  <2>1. q # r /\ job[q].cookie \in Ids /\ row[job[q].cookie] # NoRow
    BY <1>2, <1>9 DEF AInv, JobsFit, Changing, Opened
  <2>2. QED
    BY <1>1, <1>3, <1>6, <1>9, <2>1 DEF Others, Session
<1>10. Kept'
  <2> SUFFICES ASSUME NEW i \in sessions' PROVE Accounted(i)'
    BY DEF Kept
  <2>1. CASE i = s
    <3>1. row'[i] = new
      BY <1>6, <2>1
    <3>2. ASSUME new.user \in Local, Old(i)' PROVE new.proof # password[new.user]
      <4>1. \A q \in Requests : pc'[q] = "revoke" => pc[q] = "revoke" /\ job'[q].cookie # i
        BY <1>3, <1>9, <2>1 DEF Others
      <4>2. QED
        BY <1>2, <3>1, <3>2, <4>1 DEF Old
    <3>3. ASSUME Ending(new.user) PROVE Doomed(i)'
      <4>1. PICK q \in Requests : pc[q] = "revoke" /\ Session(q).user = new.user
        BY <3>3 DEF Ending
      <4>2. Ender(q, i)'
        BY <1>9, <2>1, <3>1, <4>1 DEF Ender
      <4>3. QED
        BY <4>2 DEF Doomed
    <3>4. new.user \in Local /\ new.proof # password[new.user] /\ ~Ending(new.user) => Excused(i)'
      BY <1>1, <2>1 DEF Excused
    <3>5. QED
      BY <3>1, <3>2, <3>3, <3>4 DEF Accounted
  <2>2. CASE i # s
    <3>1. i \in sessions /\ row'[i] = row[i]
      BY <1>1, <2>2 DEF AInv, TypeOK
    <3>2. Old(i)' => Old(i)
      BY <1>2, <1>3, <3>1 DEF Old, Others
    <3>3. Doomed(i) => Doomed(i)'
      BY <1>9, <3>1 DEF Doomed, Ender
    <3>4. Excused(i) => Excused(i)'
      BY <1>2, <1>6, <3>1 DEF Excused
    <3>5. QED
      BY <3>1, <3>2, <3>3, <3>4 DEF AInv, Kept, Accounted
  <2>3. QED
    BY <2>1, <2>2
<1>11. QED
  BY <1>5, <1>7, <1>8, <1>10 DEF AInv

(* Sessions that end, by the clock or by hand.                             *)
LEMMA EndingKeeps ==
    ASSUME AInv, NEW s \in Ids, Lapse(s) \/ Logout(s)
    PROVE  AInv'
<1>1. /\ UNCHANGED <<password, row, caller, missed, config, pc, job, restarts>>
      /\ sessions' \subseteq sessions /\ lapsed' \subseteq sessions'
  BY DEF Lapse, Logout, Delete, AInv, TypeOK
<1>2. TypeOK'
  BY <1>1 DEF AInv, TypeOK, config
<1>3. JobsFit'
  BY <1>1 DEF AInv, JobsFit, SigningIn, Changing, Saving, Calling, Opened, OfItsUser, Session
<1>4. Writer' /\ Written' /\ ServedIsSaved'
  BY <1>1 DEF AInv, Writer, Written, Owed, Agrees, ServedIsSaved, config
<1>5. Kept'
  BY <1>1 DEF AInv, Kept, Accounted, Old, Excused, Doomed, Ender, Session
<1>6. QED
  BY <1>2, <1>3, <1>4, <1>5 DEF AInv

(* A request let through keeps what it was given; a session that has       *)
(* expired is gone.                                                        *)
LEMMA AuthoriseKeeps ==
    ASSUME AInv, NEW r \in Requests, Authorise(r)
    PROVE  AInv'
<1>1. /\ pc[r] = "authorise" /\ sessions' \subseteq sessions /\ lapsed' \subseteq sessions'
      /\ UNCHANGED <<password, row, caller, missed, config, restarts>>
  BY DEF Authorise, Delete, AInv, TypeOK
<1>2. /\ Others(r) /\ pc' \in [Requests -> Steps] /\ job' \in [Requests -> Jobs \cup {NoJob}]
      /\ \/ pc'[r] = "idle"
         \/ job'[r] = job[r] /\ pc'[r] = IF job[r].op = "change" THEN "check" ELSE "lock"
  <2>1. CASE Leave(r)
    BY <2>1, Leaves DEF AInv
  <2>2. CASE Goto(r, IF job[r].op = "change" THEN "check" ELSE "lock") /\ UNCHANGED job
    BY <2>2 DEF Goto, AInv, TypeOK, Others, Steps
  <2>3. QED
    BY <2>1, <2>2 DEF Authorise
<1>3. Fits(r)' /\ LeftWhole(r)' /\ pc'[r] # "write"
  <2>1. CASE pc'[r] = "idle"
    BY <2>1 DEF Fits, SigningIn, Changing, Saving, Calling, Opened, OfItsUser, LeftWhole
  <2>2. CASE job'[r] = job[r] /\ pc'[r] = IF job[r].op = "change" THEN "check" ELSE "lock"
    <3>1. \/ job[r].op = "change" /\ job[r] \in [op : {"change"}, cookie : Ids, new : Passwords]
          \/ /\ job[r].op = "save" /\ job[r].left = Fields
             /\ job[r] \in [op : {"save"}, cookie : Ids, form : Forms, left : Seq(FieldSet)]
      BY <1>1 DEF AInv, JobsFit, Calling, Written
    <3>2. row[job[r].cookie] # NoRow
      BY <1>1 DEF AInv, JobsFit, Opened
    <3>3. QED
      BY <1>1, <2>2, <3>1, <3>2 DEF Fits, SigningIn, Changing, Saving, Calling, Opened, OfItsUser,
         LeftWhole
  <2>3. QED
    BY <1>2, <2>1, <2>2
<1>4. TypeOK'
  BY <1>1, <1>2 DEF AInv, TypeOK, config
<1>5. JobsFit'
  BY <1>1, <1>2, <1>3, OthersFit DEF AInv
<1>6. Writer' /\ Written' /\ ServedIsSaved'
  BY <1>1, <1>2, <1>3, ConfigKept DEF AInv
<1>7. Kept'
  BY <1>1, <1>2, KeptStays DEF AInv
<1>8. QED
  BY <1>4, <1>5, <1>6, <1>7 DEF AInv

LEMMA CheckOldKeeps ==
    ASSUME AInv, NEW r \in Requests, CheckOld(r)
    PROVE  AInv'
<1>1. pc[r] = "check" /\ UNCHANGED <<users, config, restarts>>
  BY DEF CheckOld
<1>2. CASE Leave(r)
  BY <1>1, <1>2, Leaves, QuietStep DEF AInv, Fits, SigningIn, Changing, Saving, Calling, Opened,
     OfItsUser, LeftWhole
<1>3. CASE Session(r).user \in Local /\ Goto(r, "update") /\ UNCHANGED job
  <2>1. /\ Others(r) /\ pc'[r] = "update" /\ job' = job
        /\ pc' \in [Requests -> Steps] /\ job' \in [Requests -> Jobs \cup {NoJob}]
    BY <1>3 DEF Goto, AInv, TypeOK, Others, Steps
  <2>2. Fits(r)' /\ LeftWhole(r)'
    BY <1>1, <1>3, <2>1 DEF AInv, JobsFit, Fits, SigningIn, Changing, Saving, Calling, Opened,
       OfItsUser, LeftWhole, Session, users
  <2>3. QED
    BY <1>1, <2>1, <2>2, QuietStep
<1>4. QED
  BY <1>2, <1>3 DEF CheckOld

LEMMA StatementFailsKeeps ==
    ASSUME AInv, NEW r \in Requests, StatementFails(r)
    PROVE  AInv'
<1>1. /\ pc[r] \in {"insert", "authorise", "check", "update"} /\ Leave(r)
      /\ UNCHANGED <<users, config, restarts>>
  BY DEF StatementFails
<1>2. QED
  BY <1>1, Leaves, QuietStep DEF AInv, Fits, SigningIn, Changing, Saving, Calling, Opened,
     OfItsUser, LeftWhole

----------------------------------------------------------------------------
(* A change of password owes the end of the sessions it has made old.      *)

LEMMA UpdatePasswordKeeps ==
    ASSUME AInv, NEW r \in Requests, UpdatePassword(r)
    PROVE  AInv'
<1>1. /\ pc[r] = "update" /\ Goto(r, "revoke") /\ UNCHANGED job
      /\ password' = [password EXCEPT ![Session(r).user] = job[r].new]
      /\ caller' = [caller EXCEPT ![Session(r).user] = job[r].cookie]
      /\ missed' = missed \ SessionsOf(Session(r).user)
      /\ UNCHANGED <<sessions, row, lapsed, config, restarts>>
  BY DEF UpdatePassword
<1>2. /\ job[r].cookie \in Ids /\ job[r].new \in Passwords
      /\ job[r] \in [op : {"change"}, cookie : Ids, new : Passwords]
      /\ Session(r).user \in Local /\ row[job[r].cookie] # NoRow
  BY <1>1 DEF AInv, JobsFit, Changing, OfItsUser, Opened
<1>3. /\ Others(r) /\ pc'[r] = "revoke" /\ Session(r)' = Session(r)
      /\ pc' \in [Requests -> Steps] /\ job' \in [Requests -> Jobs \cup {NoJob}]
  BY <1>1 DEF AInv, TypeOK, Goto, Others, Steps, Session
<1>4. TypeOK'
  BY <1>1, <1>2, <1>3 DEF AInv, TypeOK, config
<1>5. Fits(r)' /\ LeftWhole(r)'
  BY <1>1, <1>2, <1>3 DEF Fits, SigningIn, Changing, Saving, Calling, Opened, OfItsUser, LeftWhole
<1>6. JobsFit'
  BY <1>1, <1>3, <1>5, OthersFit DEF AInv
<1>7. Writer' /\ Written' /\ ServedIsSaved'
  BY <1>1, <1>3, <1>5, ConfigKept DEF AInv
<1>8. Kept'
  <2> SUFFICES ASSUME NEW s \in sessions PROVE Accounted(s)'
    BY <1>1 DEF Kept
  <2>1. CASE row[s].user = Session(r).user
    <3>1. s = job[r].cookie => Excused(s)'
      BY <1>1, <1>2, <2>1 DEF Excused, AInv, TypeOK
    <3>2. s # job[r].cookie => Ender(r, s)'
      BY <1>1, <1>3, <2>1 DEF Ender
    <3>3. QED
      BY <3>1, <3>2 DEF Accounted, Doomed
  <2>2. CASE row[s].user # Session(r).user
    <3>1. /\ row[s].user \in Local => password'[row[s].user] = password[row[s].user]
          /\ row[s].user \in Local => caller'[row[s].user] = caller[row[s].user]
      BY <1>1, <2>2 DEF AInv, TypeOK
    <3>2. row[s].user \in Local /\ Old(s)' => Old(s)
      BY <1>1, <1>3, <2>2, <3>1 DEF Old, Others, Session
    <3>3. Doomed(s) => Doomed(s)'
      BY <1>1, <1>3 DEF Doomed, Ender, Others, Session
    <3>4. row[s].user \in Local /\ Excused(s) => Excused(s)'
      BY <1>1, <2>2, <3>1 DEF Excused, SessionsOf
    <3>5. QED
      BY <1>1, <3>2, <3>3, <3>4 DEF AInv, Kept, Accounted
  <2>3. QED
    BY <2>1, <2>2
<1>9. QED
  BY <1>4, <1>6, <1>7, <1>8 DEF AInv

(* The sessions of the user go, all but the caller's, or are missed, all of *)
(* them; other users' sessions are as they were.                           *)
LEMMA RevokeKeeps ==
    ASSUME AInv, NEW r \in Requests, Revoke(r) \/ RevokeFails(r)
    PROVE  AInv'
<1>1. /\ pc[r] = "revoke" /\ Leave(r) /\ UNCHANGED <<password, row, config, restarts>>
      /\ sessions' \subseteq sessions /\ missed \subseteq missed' /\ lapsed' \subseteq sessions'
      /\ missed' \subseteq missed \cup sessions /\ caller' = caller
      /\ \A s \in SessionsOf(Session(r).user) \cap sessions' : s \in missed' \/ s = job[r].cookie
  BY DEF Revoke, RevokeFails, SessionsOf, Delete, AInv, TypeOK
<1>3. /\ Others(r) /\ pc'[r] = "idle" /\ job'[r] = NoJob
      /\ pc' \in [Requests -> Steps] /\ job' \in [Requests -> Jobs \cup {NoJob}]
  BY <1>1, Leaves DEF AInv
<1>4. TypeOK'
  BY <1>1, <1>3 DEF AInv, TypeOK, config
<1>5. Fits(r)' /\ LeftWhole(r)'
  BY <1>3 DEF Fits, SigningIn, Changing, Saving, Calling, Opened, OfItsUser, LeftWhole
<1>6. JobsFit'
  BY <1>1, <1>3, <1>5, OthersFit DEF AInv
<1>7. Writer' /\ Written' /\ ServedIsSaved'
  BY <1>1, <1>3, <1>5, ConfigKept DEF AInv
<1>8. Kept'
  <2> SUFFICES ASSUME NEW s \in sessions', row[s].user \in Local, Old(s)', s \notin missed'
               PROVE  s = caller[row[s].user] \/ Doomed(s)'
    BY <1>1 DEF Kept, Accounted, Excused
  <2>1. s \in sessions /\ Old(s) /\ s \notin missed
    BY <1>1, <1>3 DEF Old, Others
  <2>2. s = caller[row[s].user] \/ Doomed(s)
    BY <2>1 DEF AInv, Kept, Accounted, Excused
  <2>3. ASSUME Doomed(s) PROVE Doomed(s)'
    <3>1. PICK q \in Requests : Ender(q, s)
      BY <2>3 DEF Doomed
    <3>2. q # r
      BY <1>1, <2>1, <3>1 DEF Ender, SessionsOf
    <3>3. Ender(q, s)'
      BY <1>1, <1>3, <3>1, <3>2 DEF Ender, Others, Session
    <3>4. QED
      BY <3>3 DEF Doomed
  <2>4. QED
    BY <2>2, <2>3
<1>9. QED
  BY <1>4, <1>6, <1>7, <1>8 DEF AInv

----------------------------------------------------------------------------
(* A save owes the serving of what it has written.                         *)

(* A saving request leaves sessions and passwords to the others.           *)
LEMMA UsersKept ==
    ASSUME AInv, NEW r \in Requests, Others(r), UNCHANGED users,
           pc[r] \in {"lock", "write"}, pc'[r] \in {"write", "idle"}, Saving(r)'
    PROVE  JobsFit' /\ Kept'
<1> USE DEF users
<1>1. Fits(r)'
  BY DEF Fits, SigningIn, Changing, Saving, Calling, Opened, OfItsUser
<1>2. QED
  BY <1>1, OthersFit, KeptStays DEF AInv

LEMMA LockConfigKeeps ==
    ASSUME AInv, NEW r \in Requests, LockConfig(r)
    PROVE  AInv'
<1>1. /\ pc[r] = "lock" /\ mu = NoOne /\ mu' = r /\ UNCHANGED <<users, settings, cfg, torn, job, restarts>>
      /\ Others(r) /\ pc'[r] = "write" /\ pc' \in [Requests -> Steps]
  BY DEF LockConfig, Goto, AInv, TypeOK, Others, Steps
<1>2. job[r].left = Fields /\ Saving(r)'
  BY <1>1 DEF AInv, JobsFit, Written, Saving
<1>3. TypeOK'
  BY <1>1 DEF AInv, TypeOK, users
<1>4. JobsFit' /\ Kept'
  BY <1>1, <1>2, UsersKept
<1>5. Writer'
  BY <1>1, AccessAssumption DEF AInv, Writer, Others
<1>6. Written'
  <2>1. Distinct(job[r].left) /\ Owed(r)'
    <3>1. \A f \in FieldSet \ torn : Agrees(f)
      BY <1>1 DEF AInv, ServedIsSaved, Agrees
    <3>2. ToSet(job[r].left) = FieldSet
      BY <1>2 DEF FieldSet
    <3>3. QED
      BY <1>1, <1>2, <3>1, <3>2, AccessAssumption DEF Distinct, Owed, Agrees, Plain
  <2>2. \A q \in Requests : pc[q] # "write"
    BY <1>1, AccessAssumption DEF AInv, Writer
  <2>3. SUFFICES ASSUME NEW q \in Requests
                 PROVE  /\ LeftWhole(q)'
                        /\ pc'[q] = "write" => Distinct(job'[q].left) /\ Owed(q)'
    BY DEF Written, LeftWhole
  <2>4. CASE q = r
    BY <1>1, <2>1, <2>4 DEF LeftWhole
  <2>5. CASE q # r
    BY <1>1, <2>2, <2>5 DEF AInv, Written, LeftWhole, Others
  <2>6. QED
    BY <2>4, <2>5
<1>7. ServedIsSaved'
  BY <1>1, AccessAssumption DEF ServedIsSaved
<1>8. QED
  BY <1>3, <1>4, <1>5, <1>6, <1>7 DEF AInv

(* Only one request writes, so what another owes does not come into it.    *)
LEMMA OnlyWriter ==
    ASSUME AInv, NEW r \in Requests, pc[r] = "write"
    PROVE  /\ mu = r /\ mu # NoOne
           /\ \A q \in Requests \ {r} : pc[q] # "write"
           /\ job[r] \in SaveJobs /\ Distinct(job[r].left) /\ Owed(r)
BY AccessAssumption DEF AInv, Writer, Written, JobsFit, Saving, SaveJobs

LEMMA WriteFieldKeeps ==
    ASSUME AInv, NEW r \in Requests, WriteField(r)
    PROVE  AInv'
<1> DEFINE left == job[r].left
           f == Head(left)
           value == job[r].form[f]
           written == ~ (f = Secret /\ value = Empty)
<1>1. /\ pc[r] = "write" /\ left # <<>> /\ UNCHANGED <<users, mu, pc, restarts>>
      /\ settings' = IF written THEN [settings EXCEPT ![f] = value] ELSE settings
      /\ cfg' = IF written /\ f = Secret THEN [cfg EXCEPT ![f] = value] ELSE cfg
      /\ torn' = IF written /\ f = Secret THEN torn \ {Secret} ELSE torn
      /\ job' = [job EXCEPT ![r].left = Tail(left)]
  BY DEF WriteField
<1>2. /\ mu = r /\ mu # NoOne /\ \A q \in Requests \ {r} : pc[q] # "write"
      /\ job[r] \in SaveJobs /\ Distinct(left) /\ Owed(r)
  BY <1>1, OnlyWriter
<1>3. /\ Tail(left) \in Seq(FieldSet) /\ Distinct(Tail(left))
      /\ f \in FieldSet /\ ToSet(Tail(left)) = ToSet(left) \ {f} /\ left \in Seq(FieldSet)
  BY <1>1, <1>2, TailLeaves DEF SaveJobs
<1>4. f \in ToSet(left)
  BY <1>1, <1>3 DEF ToSet
<1>5. value \in Values
  BY <1>2, <1>3, ValuesAreFields DEF ValuesFit, SaveJobs
<1>6. /\ job'[r] \in SaveJobs /\ job'[r].left = Tail(left) /\ job'[r].form = job[r].form
      /\ Others(r) /\ job' \in [Requests -> Jobs \cup {NoJob}]
  BY <1>1, <1>2, <1>3 DEF AInv, TypeOK, Others, SaveJobs, Jobs
<1>7. TypeOK'
  BY <1>1, <1>3, <1>5, <1>6 DEF AInv, TypeOK, users
<1>8. JobsFit' /\ Kept'
  <2>1. Saving(r)' /\ pc'[r] = "write"
    BY <1>1, <1>6 DEF Saving, SaveJobs
  <2>2. QED
    BY <1>1, <1>6, <2>1, UsersKept
<1>9. Writer'
  BY <1>1 DEF AInv, Writer
<1>10. Owed(r)'
  <2> SUFFICES ASSUME NEW g \in FieldSet
               PROVE  /\ g \in {Secret} \cup ToSet(Tail(left)) /\ g \notin torn' => Agrees(g)'
                      /\ g \in Plain \ ToSet(Tail(left)) => settings'[g] = job[r].form[g]
    BY <1>6 DEF Owed
  <2>1. CASE g # f
    <3>1. settings'[g] = settings[g] /\ cfg'[g] = cfg[g]
      BY <1>1, <2>1 DEF AInv, TypeOK
    <3>2. g \in torn' <=> g \in torn
      BY <1>1, <2>1
    <3>3. QED
      BY <1>2, <1>3, <2>1, <3>1, <3>2 DEF Owed, Agrees
  <2>2. CASE g = f /\ f = Secret
    <3>1. CASE written
      BY <1>1, <1>3, <2>2, <3>1 DEF AInv, TypeOK, Agrees, Plain
    <3>2. CASE ~written
      BY <1>1, <1>2, <1>3, <2>2, <3>2 DEF Owed, Agrees, Plain
    <3>3. QED
      BY <3>1, <3>2
  <2>3. CASE g = f /\ f # Secret
    BY <1>1, <1>3, <2>3 DEF AInv, TypeOK
  <2>4. QED
    BY <2>1, <2>2, <2>3
<1>11. Written'
  <2> SUFFICES ASSUME NEW q \in Requests
               PROVE  /\ LeftWhole(q)'
                      /\ pc'[q] = "write" => Distinct(job'[q].left) /\ Owed(q)'
    BY DEF Written, LeftWhole
  <2>1. CASE q = r
    BY <1>1, <1>3, <1>6, <1>10, <2>1 DEF LeftWhole
  <2>2. CASE q # r
    BY <1>1, <1>2, <1>6, <2>2 DEF AInv, Written, LeftWhole, Others
  <2>3. QED
    BY <2>1, <2>2
<1>12. ServedIsSaved'
  BY <1>1, <1>2 DEF ServedIsSaved
<1>13. QED
  BY <1>7, <1>8, <1>9, <1>11, <1>12 DEF AInv

(* The writer is done, with or without having served what it wrote.        *)
LEMMA DoneKeeps ==
    ASSUME AInv, NEW r \in Requests, pc[r] = "write", Leave(r), mu' = NoOne,
           UNCHANGED <<users, settings, restarts>>, torn' \subseteq FieldSet,
           cfg' \in [FieldSet -> Values], \A f \in FieldSet \ torn' : Agrees(f)'
    PROVE  AInv'
<1>1. /\ Others(r) /\ pc'[r] = "idle" /\ job'[r] = NoJob
      /\ pc' \in [Requests -> Steps] /\ job' \in [Requests -> Jobs \cup {NoJob}]
  BY Leaves DEF AInv
<1>2. \A q \in Requests \ {r} : pc[q] # "write"
  BY OnlyWriter
<1>3. TypeOK'
  BY <1>1 DEF AInv, TypeOK, users
<1>4. JobsFit' /\ Kept'
  BY <1>1, UsersKept DEF Saving
<1>5. Writer' /\ ServedIsSaved'
  BY <1>1, <1>2 DEF Writer, ServedIsSaved, Agrees, Others
<1>6. Written'
  BY <1>1, <1>2 DEF AInv, Written, Others
<1>7. QED
  BY <1>3, <1>4, <1>5, <1>6 DEF AInv

LEMMA ServeConfigKeeps ==
    ASSUME AInv, NEW r \in Requests, ServeConfig(r)
    PROVE  AInv'
<1>1. /\ pc[r] = "write" /\ job[r].left = <<>> /\ mu' = NoOne /\ Leave(r)
      /\ cfg' = [f \in FieldSet |-> IF f \in Plain THEN job[r].form[f] ELSE cfg[f]]
      /\ torn' = torn \ Plain /\ UNCHANGED <<users, settings, restarts>>
  BY DEF ServeConfig
<1>2. job[r] \in SaveJobs /\ Owed(r)
  BY <1>1, OnlyWriter
<1>3. ToSet(job[r].left) = {}
  BY <1>1 DEF ToSet
<1>4. cfg' \in [FieldSet -> Values] /\ torn' \subseteq FieldSet
  BY <1>1, <1>2, ValuesAreFields DEF AInv, TypeOK, ValuesFit, SaveJobs
<1>5. ASSUME NEW f \in FieldSet \ torn' PROVE Agrees(f)'
  <2>1. CASE f \in Plain
    BY <1>1, <1>2, <1>3, <2>1 DEF Owed, Agrees
  <2>2. CASE f \notin Plain
    BY <1>1, <1>2, <2>2 DEF Owed, Agrees, Plain
  <2>3. QED
    BY <2>1, <2>2
<1>6. QED
  BY <1>1, <1>4, <1>5, DoneKeeps

LEMMA WriteFailsKeeps ==
    ASSUME AInv, NEW r \in Requests, WriteFails(r)
    PROVE  AInv'
<1>1. /\ pc[r] = "write" /\ mu' = NoOne /\ Leave(r) /\ torn' = torn \cup (Plain \ ToSet(job[r].left))
      /\ UNCHANGED <<users, settings, cfg, restarts>>
  BY DEF WriteFails
<1>2. Owed(r)
  BY <1>1, OnlyWriter
<1>3. \A f \in FieldSet \ torn' : Agrees(f)'
  BY <1>1, <1>2 DEF Owed, Agrees, Plain
<1>4. cfg' \in [FieldSet -> Values] /\ torn' \subseteq FieldSet
  BY <1>1 DEF AInv, TypeOK, Plain
<1>5. QED
  BY <1>1, <1>3, <1>4, DoneKeeps

(* A restart spares what a change had not come to ending, and loads what   *)
(* is stored.                                                              *)
LEMMA RestartKeeps ==
    ASSUME AInv, Restart
    PROVE  AInv'
<1>1. PICK unread \in SUBSET FieldSet : cfg' = Loaded(unread) /\ torn' = unread
  BY DEF Restart
<1>2. /\ mu' = NoOne /\ pc' = [r \in Requests |-> "idle"] /\ job' = [r \in Requests |-> NoJob]
      /\ missed' = missed \cup {s \in sessions : Ending(row[s].user)}
      /\ UNCHANGED <<password, sessions, row, lapsed, caller, settings>>
  BY DEF Restart
<1>3. missed' \subseteq Ids
  BY <1>2 DEF AInv, TypeOK
<1>4. cfg' \in [FieldSet -> Values]
  BY <1>1, ValuesAreFields DEF AInv, TypeOK, Loaded, ValuesFit
<1>5. TypeOK'
  BY <1>1, <1>2, <1>3, <1>4 DEF AInv, TypeOK, Steps
<1>6. JobsFit' /\ Writer' /\ Written'
  BY <1>2 DEF JobsFit, SigningIn, Changing, Saving, Calling, Opened, OfItsUser, Writer, Written
<1>7. Kept'
  <2> SUFFICES ASSUME NEW s \in sessions, row[s].user \in Local, Old(s)', s \notin missed'
               PROVE  s = caller[row[s].user]
    BY <1>2 DEF Kept, Accounted, Excused
  <2>1. Old(s) /\ s \notin missed /\ ~Ending(row[s].user)
    BY <1>2 DEF Old
  <2>2. ~Doomed(s)
    BY <2>1 DEF Doomed, Ender, Ending
  <2>3. QED
    BY <2>1, <2>2 DEF AInv, Kept, Accounted, Excused
<1>8. ServedIsSaved'
  BY <1>1, <1>2 DEF ServedIsSaved, Loaded
<1>9. QED
  BY <1>5, <1>6, <1>7, <1>8 DEF AInv

----------------------------------------------------------------------------

LEMMA NextKeepsAInv == AInv /\ [Next]_vars => AInv'
<1> SUFFICES ASSUME AInv, [Next]_vars PROVE AInv'
  OBVIOUS
<1>1. CASE \E r \in Requests : Arrive(r)
  BY <1>1, ArriveKeeps
<1>2. CASE \E r \in Requests : Serve(r)
  BY <1>2, InsertSessionKeeps, AuthoriseKeeps, CheckOldKeeps, UpdatePasswordKeeps, RevokeKeeps,
     StatementFailsKeeps, LockConfigKeeps, WriteFieldKeeps, ServeConfigKeeps, WriteFailsKeeps DEF Serve
<1>3. CASE \E s \in Ids : Lapse(s) \/ Logout(s)
  BY <1>3, EndingKeeps
<1>4. CASE Restart
  BY <1>4, RestartKeeps
<1>5. CASE UNCHANGED vars
  <2> USE <1>5 DEF vars, users, config
  <2>1. TypeOK' /\ JobsFit'
    BY DEF AInv, TypeOK, JobsFit, SigningIn, Changing, Saving, Calling, Opened, OfItsUser, Session
  <2>2. Writer' /\ Written' /\ ServedIsSaved'
    BY DEF AInv, Writer, Written, Owed, Agrees, ServedIsSaved
  <2>3. Kept'
    BY DEF AInv, Kept, Accounted, Old, Excused, Doomed, Ender, Session
  <2>4. QED
    BY <2>1, <2>2, <2>3 DEF AInv
<1>6. QED
  BY <1>1, <1>2, <1>3, <1>4, <1>5 DEF Next

LEMMA AInvHolds == Spec => []AInv
BY InitAInv, NextKeepsAInv, PTL DEF Spec

(* Every variable of Access has its type.                                  *)
THEOREM AccessTypeCorrect == Spec => []TypeOK
<1>1. AInv => TypeOK
  BY DEF AInv
<1>2. QED
  BY <1>1, AInvHolds, PTL

(* Of the sessions opened with a password that handleAuthPasswordChange has *)
(* replaced, only its caller's and those it missed outlive it, however many *)
(* sign-ins and changes interleave; what is missed is forgotten at the next.*)
THEOREM OldSessionsAreEnded == Spec => []OnlyTheMissedOutlive
<1>1. AInv => OnlyTheMissedOutlive
  BY DEF AInv, Kept, Accounted, Old, Excused, Doomed, Ender, OnlyTheMissedOutlive, Outlives, Ending
<1>2. QED
  BY <1>1, AInvHolds, PTL

(* Outside a save, and but for fields a failed save or start set apart,    *)
(* Manager.cfg is what a restart would load, or a field cleared since.     *)
THEOREM ServedStaysSaved == Spec => []ServedIsSaved
<1>1. AInv => ServedIsSaved
  BY DEF AInv
<1>2. QED
  BY <1>1, AInvHolds, PTL

----------------------------------------------------------------------------
(* The policy table, for every path: what requiredRole asks is what the      *)
(* handler behind the path needs.                                            *)

AnyRole == Roles \cup {Public}

OpenPaths ==
    {<<"auth", "config">>, <<"auth", "me">>, <<"auth", "login">>,
     <<"auth", "login", "local">>, <<"auth", "callback">>, <<"auth", "logout">>,
     <<"pairing", "claim">>, <<"backup", "deposit">>}
ReadPaths ==
    {<<"readiness">>, <<"capsules">>, <<"capsules", "diff">>,
     <<"capsules", "timeline">>, <<"audit">>, <<"pairing", "list">>,
     <<"replication", "logs">>}
OperatorPaths ==
    {<<"custodians">>, <<"audit", "verify">>, <<"replication", "sync">>}
AdminPaths ==
    {<<"retention">>, <<"retention", "purge">>, <<"auth", "sso", "config">>,
     <<"auth", "sso", "test">>, <<"recovery-key">>, <<"pairing", "generate">>,
     <<"pairing", "revoke">>, <<"pairing", "clear">>, <<"replication", "targets">>,
     <<"replication", "targets", "test">>}

(* The rows of apiPolicy by role.                                          *)
LEMMA PublicEntries ==
    ASSUME NEW m, NEW p
    PROVE  <<m, p>> \in Listed(Public) <=>
             \/ /\ m = AnyMethod
                /\ p \in {<<"auth", "config">>, <<"auth", "me">>, <<"auth", "login">>,
                          <<"auth", "login", "local">>, <<"auth", "callback">>, <<"auth", "logout">>,
                          <<"pairing", "claim">>, <<"backup", "deposit">>}
             \/ m = "GET" /\ p = <<"auth", "sso", "config">>
BY DEF Listed, Operator, Public, Viewer, Admin

LEMMA ViewerEntries ==
    ASSUME NEW m, NEW p
    PROVE  <<m, p>> \in Listed(Viewer) <=>
             \/ /\ m = "GET"
                /\ p \in {<<"retention">>, <<"readiness">>, <<"capsules">>, <<"capsules", "diff">>,
                          <<"capsules", "timeline">>, <<"custodians">>, <<"audit">>,
                          <<"recovery-key">>, <<"pairing", "list">>, <<"replication", "targets">>,
                          <<"replication", "logs">>}
             \/ m = AnyMethod /\ p = <<"auth", "password">>
BY DEF Listed, Operator, Public, Viewer, Admin

LEMMA OperatorEntries ==
    ASSUME NEW m, NEW p
    PROVE  <<m, p>> \in Listed(Operator) <=>
             m = "POST" /\ p \in {<<"custodians">>, <<"audit", "verify">>, <<"replication", "sync">>}
BY DEF Listed, Operator, Public, Viewer, Admin

LEMMA AdminEntries ==
    ASSUME NEW m, NEW p
    PROVE  <<m, p>> \in Listed(Admin) <=>
             /\ m = "POST"
             /\ p \in {<<"retention">>, <<"retention", "purge">>, <<"auth", "sso", "config">>,
                       <<"auth", "sso", "test">>, <<"recovery-key">>, <<"pairing", "generate">>,
                       <<"pairing", "revoke">>, <<"pairing", "clear">>,
                       <<"replication", "targets">>, <<"replication", "targets", "test">>}
BY DEF Listed, Operator, Public, Viewer, Admin

(* No method of a path is listed for two roles, so the table has one answer *)
(* whatever order its rows are searched in.                                *)
LEMMA OneRoleEach ==
    ASSUME NEW m, NEW p, NEW r1 \in AnyRole, NEW r2 \in AnyRole,
           <<m, p>> \in Listed(r1), <<m, p>> \in Listed(r2)
    PROVE  r1 = r2
<1>1. ASSUME NEW q \in {Viewer, Operator, Admin}, <<m, p>> \in Listed(Public), <<m, p>> \in Listed(q) PROVE FALSE
  BY <1>1, PublicEntries, ViewerEntries, OperatorEntries, AdminEntries DEF AnyMethod
<1>2. ASSUME NEW q \in {Operator, Admin}, <<m, p>> \in Listed(Viewer), <<m, p>> \in Listed(q) PROVE FALSE
  BY <1>2, ViewerEntries, OperatorEntries, AdminEntries DEF AnyMethod
<1>3. ~(<<m, p>> \in Listed(Operator) /\ <<m, p>> \in Listed(Admin))
  BY OperatorEntries, AdminEntries
<1>4. QED
  BY <1>1, <1>2, <1>3 DEF AnyRole, Roles

(* The three ways requiredRole comes to its answer.                        *)
LEMMA EntryDecides ==
    ASSUME NEW m, NEW p, NEW r \in AnyRole, <<m, p>> \in Listed(r)
    PROVE  RequiredRole(m, p) = r
<1>1. (CHOOSE role \in AnyRole : <<m, p>> \in Listed(role)) = r
  BY OneRoleEach
<1>2. QED
  BY <1>1 DEF RequiredRole, AnyRole

LEMMA WildcardDecides ==
    ASSUME NEW m, NEW p, NEW r \in AnyRole, <<AnyMethod, p>> \in Listed(r),
           \A q \in AnyRole : <<m, p>> \notin Listed(q)
    PROVE  RequiredRole(m, p) = r
<1>1. (CHOOSE role \in AnyRole : <<AnyMethod, p>> \in Listed(role)) = r
  BY OneRoleEach
<1>2. QED
  BY <1>1 DEF RequiredRole, AnyRole

LEMMA UnlistedDecides ==
    ASSUME NEW m, NEW p,
           \A q \in AnyRole : <<m, p>> \notin Listed(q) /\ <<AnyMethod, p>> \notin Listed(q)
    PROVE  RequiredRole(m, p) =
              IF UnderCapsules(p) /\ m = "GET" THEN SubResourceRole(p) ELSE Admin
BY DEF RequiredRole, AnyRole

(* A method of a path needs at least the role its effect is for, and some  *)
(* method with that effect needs no more.                                  *)
Guarded(m, p) == RoleRank(RequiredRole(m, p)) >= RoleRank(Need(Effect(m, p)))
LetsIn(m, p) == RoleRank(RequiredRole(m, p)) <= RoleRank(Need(Effect(m, p)))
Reachable(m, p) ==
  Effect(m, p) # "none" => \E k \in Methods : Effect(k, p) = Effect(m, p) /\ LetsIn(k, p)
RoleBound(p) == \A m \in Methods : Guarded(m, p) /\ Reachable(m, p)

(* Every claim has a rank, and every effect a role that it is for.         *)
LEMMA RankIsNat == ASSUME NEW role PROVE RoleRank(role) \in Nat
BY DEF RoleRank, Public, Viewer, Operator, Admin

LEMMA Ladder ==
    /\ RoleRank(Public) = 0 /\ RoleRank(Viewer) = 1 /\ RoleRank(Operator) = 2 /\ RoleRank(Admin) = 3
    /\ Need("none") = Public /\ Need("public") = Public /\ Need("key") = Public
    /\ Need("read") = Viewer /\ Need("check") = Viewer /\ Need("own") = Viewer
    /\ Need("operate") = Operator /\ Need("take") = Operator
    /\ Need("configure") = Admin
BY DEF RoleRank, Need, Public, Viewer, Operator, Admin

(* The routes, grouped by who may call them.  Each group: what is required, *)
(* what the handler then does, and that neither exceeds the other.         *)
LEMMA PublicRoutes == ASSUME NEW p \in OpenPaths PROVE RoleBound(p)
<1>1. ASSUME NEW m \in Methods PROVE RequiredRole(m, p) = Public
  <2>1. <<AnyMethod, p>> \in Listed(Public)
    BY PublicEntries DEF OpenPaths
  <2>2. \A q \in AnyRole : <<m, p>> \notin Listed(q)
    BY PublicEntries, ViewerEntries, OperatorEntries, AdminEntries
       DEF OpenPaths, AnyRole, Roles, Methods, AnyMethod
  <2>3. QED
    BY <2>1, <2>2, WildcardDecides DEF AnyRole
<1>2. ASSUME NEW m \in Methods PROVE Effect(m, p) \in {"none", "public", "key"}
  BY DEF Routes, Effect, Asks, OpenPaths
<1>3. QED
  BY <1>1, <1>2, Ladder DEF RoleBound, Guarded, Reachable, LetsIn

LEMMA ViewersGet ==
    ASSUME NEW p \in ReadPaths \cup {<<"retention">>, <<"recovery-key">>, <<"replication", "targets">>, <<"custodians">>}
    PROVE  RequiredRole("GET", p) = Viewer
BY ViewerEntries, EntryDecides DEF ReadPaths, AnyRole, Roles

LEMMA OperatorsPost == ASSUME NEW p \in OperatorPaths PROVE RequiredRole("POST", p) = Operator
BY OperatorEntries, EntryDecides DEF OperatorPaths, AnyRole, Roles

LEMMA AdminsPost == ASSUME NEW p \in AdminPaths PROVE RequiredRole("POST", p) = Admin
BY AdminEntries, EntryDecides DEF AdminPaths, AnyRole, Roles

LEMMA ReadRoutes == ASSUME NEW p \in ReadPaths PROVE RoleBound(p)
<1>1. RequiredRole("GET", p) = Viewer /\ Effect("GET", p) = "read"
  <2>1. Effect("GET", p) = "read"
    BY SMTT(30) DEF Routes, Effect, Asks, ReadPaths
  <2>2. QED
    BY <2>1, ViewersGet
<1>2. ASSUME NEW m \in Methods \ {"GET"}
      PROVE  RequiredRole(m, p) = Admin /\ Effect(m, p) \in {"none", "read"}
  <2>1. \A q \in AnyRole : <<m, p>> \notin Listed(q) /\ <<AnyMethod, p>> \notin Listed(q)
    BY PublicEntries, ViewerEntries, OperatorEntries, AdminEntries
       DEF ReadPaths, AnyRole, Roles, Methods, AnyMethod
  <2>2. RequiredRole(m, p) = Admin
    BY <2>1, UnlistedDecides
  <2>3. Effect(m, p) \in {"none", "read"}
    BY DEF Routes, Effect, Asks, ReadPaths
  <2>4. QED
    BY <2>2, <2>3
<1>3. QED
  BY <1>1, <1>2, Ladder DEF RoleBound, Guarded, Reachable, LetsIn, Methods

LEMMA PasswordRoute == RoleBound(<<"auth", "password">>)
<1> DEFINE p == <<"auth", "password">>
<1>1. ASSUME NEW m \in Methods PROVE RequiredRole(m, p) = Viewer
  <2>1. <<AnyMethod, p>> \in Listed(Viewer)
    BY ViewerEntries
  <2>2. \A q \in AnyRole : <<m, p>> \notin Listed(q)
    BY PublicEntries, ViewerEntries, OperatorEntries, AdminEntries
       DEF AnyRole, Roles, Methods, AnyMethod
  <2>3. QED
    BY <2>1, <2>2, WildcardDecides DEF AnyRole, Roles
<1>2. ASSUME NEW m \in Methods PROVE Effect(m, p) \in {"none", "own"}
  BY DEF Routes, Effect, Asks
<1>3. QED
  BY <1>1, <1>2, Ladder DEF RoleBound, Guarded, Reachable, LetsIn

LEMMA MixedRoutes ==
    ASSUME NEW p \in {<<"retention">>, <<"recovery-key">>, <<"replication", "targets">>, <<"custodians">>,
                      <<"auth", "sso", "config">>}
    PROVE  RoleBound(p)
<1>1. ASSUME NEW m \in {"DELETE", "other"} PROVE Effect(m, p) = "none"
  <2>1. CASE p = <<"auth", "sso", "config">>
    BY <2>1 DEF Routes, Effect
  <2>2. CASE p = <<"custodians">>
    <3>1. Effect(m, p) = Gets(m, "operate")
      BY <2>2 DEF Routes, Effect
    <3>2. QED
      BY <3>1 DEF Gets
  <2>3. CASE p \in {<<"retention">>, <<"recovery-key">>, <<"replication", "targets">>}
    <3>1. CASE p = <<"retention">>
      BY <3>1 DEF Routes, Effect, Gets
    <3>2. CASE p = <<"recovery-key">>
      BY <3>2 DEF Routes, Effect, Gets
    <3>3. CASE p = <<"replication", "targets">>
      BY <3>3 DEF Routes, Effect, Gets
    <3>4. QED
      BY <2>3, <3>1, <3>2, <3>3
  <2>4. QED
    BY <2>1, <2>2, <2>3
<1>2. CASE p = <<"custodians">>
  <2>1. Effect("GET", p) = "read" /\ Effect("POST", p) = "operate"
    BY <1>2 DEF Routes, Effect, Gets
  <2>2. RequiredRole("GET", p) = Viewer /\ RequiredRole("POST", p) = Operator
    BY <1>2, ViewersGet, OperatorsPost DEF OperatorPaths
  <2>3. QED
    BY <1>1, <2>1, <2>2, Ladder, RankIsNat DEF RoleBound, Guarded, Reachable, LetsIn, Methods
<1>3. CASE p \in {<<"retention">>, <<"recovery-key">>, <<"replication", "targets">>}
  <2>1. Effect("GET", p) = "read" /\ Effect("POST", p) = "configure"
    BY <1>3 DEF Routes, Effect, Gets
  <2>2. RequiredRole("GET", p) = Viewer /\ RequiredRole("POST", p) = Admin
    BY <1>3, ViewersGet, AdminsPost DEF AdminPaths
  <2>3. QED
    BY <1>1, <2>1, <2>2, Ladder, RankIsNat DEF RoleBound, Guarded, Reachable, LetsIn, Methods
<1>4. CASE p = <<"auth", "sso", "config">>
  <2>1. Effect("GET", p) = "public" /\ Effect("POST", p) = "configure"
    BY <1>4 DEF Routes, Effect
  <2>2. RequiredRole("GET", p) = Public /\ RequiredRole("POST", p) = Admin
    BY <1>4, PublicEntries, EntryDecides, AdminsPost DEF AdminPaths, AnyRole
  <2>3. QED
    BY <1>1, <2>1, <2>2, Ladder, RankIsNat DEF RoleBound, Guarded, Reachable, LetsIn, Methods
<1>5. QED
  BY <1>2, <1>3, <1>4

LEMMA PostOnlyRoutes ==
    ASSUME NEW p \in {<<"audit", "verify">>, <<"replication", "sync">>, <<"retention", "purge">>,
                      <<"auth", "sso", "test">>, <<"pairing", "generate">>, <<"pairing", "revoke">>,
                      <<"pairing", "clear">>, <<"replication", "targets", "test">>}
    PROVE  RoleBound(p)
<1>1. CASE p \in {<<"audit", "verify">>, <<"replication", "sync">>}
  <2>1. \A m \in Methods : Effect(m, p) = IF m = "POST" THEN "operate" ELSE "none"
    BY <1>1 DEF Routes, Effect, Asks
  <2>2. RequiredRole("POST", p) = Operator
    BY <1>1, OperatorsPost DEF OperatorPaths
  <2>3. QED
    BY <2>1, <2>2, Ladder, RankIsNat DEF RoleBound, Guarded, Reachable, LetsIn, Methods
<1>2. CASE p \notin {<<"audit", "verify">>, <<"replication", "sync">>}
  <2>1. \A m \in Methods : Effect(m, p) = IF m = "POST" THEN "configure" ELSE "none"
    BY <1>2 DEF Routes, Effect, Asks
  <2>2. RequiredRole("POST", p) = Admin
    BY <1>2, AdminsPost DEF AdminPaths
  <2>3. QED
    BY <2>1, <2>2, Ladder, RankIsNat DEF RoleBound, Guarded, Reachable, LetsIn, Methods
<1>3. QED
  BY <1>1, <1>2

(* Every path there is no route for, of any length and with any segments.  *)
LEMMA OffRoute ==
    ASSUME NEW m, NEW p, p \notin Routes
    PROVE  RequiredRole(m, p) =
              IF UnderCapsules(p) /\ m = "GET" THEN SubResourceRole(p) ELSE Admin
<1>1. \A k : \A q \in AnyRole : <<k, p>> \notin Listed(q)
  BY PublicEntries, ViewerEntries, OperatorEntries, AdminEntries DEF Routes, AnyRole, Roles
<1>2. QED
  BY <1>1, UnlistedDecides

LEMMA CapsuleRoutes == ASSUME NEW p, p \notin Routes, UnderCapsules(p) PROVE RoleBound(p)
<1>1. ASSUME NEW m PROVE Effect(m, p) = CapsuleEffect(p)
  BY DEF Routes, Effect, UnderCapsules
<1>2. \/ SubResourceRole(p) = Operator /\ CapsuleEffect(p) = "take"
      \/ SubResourceRole(p) = Viewer /\ CapsuleEffect(p) \in {"check", "read"}
  BY DEF SubResourceRole, CapsuleEffect
<1>3. QED
  BY <1>1, <1>2, OffRoute, Ladder DEF RoleBound, Guarded, Reachable, LetsIn, Methods

LEMMA OtherPaths == ASSUME NEW p, p \notin Routes, ~UnderCapsules(p) PROVE RoleBound(p)
<1>1. ASSUME NEW m PROVE RequiredRole(m, p) = Admin
  BY OffRoute
<1>2. ASSUME NEW m PROVE Effect(m, p) \in {"none", "configure"}
  BY DEF Routes, Effect
<1>3. QED
  BY <1>1, <1>2, Ladder DEF RoleBound, Guarded, Reachable, LetsIn, Methods

(* Whatever a client writes for a path, an ID that is a route's word among  *)
(* them, requiredRole and the handler read it alike: the role asked for is  *)
(* at least what the effect needs, and a method with that effect asks for   *)
(* no more.                                                                 *)
THEOREM EveryPath == ASSUME NEW p PROVE RoleBound(p)
<1>1. CASE p \in Routes
  BY <1>1, PublicRoutes, ReadRoutes, PasswordRoute, MixedRoutes, PostOnlyRoutes
     DEF Routes, OpenPaths, ReadPaths
<1>2. CASE p \notin Routes
  BY <1>2, CapsuleRoutes, OtherPaths
<1>3. QED
  BY <1>1, <1>2

LEMMA NoRoleExceeds == ASSUME NEW role \in AnyRole PROVE Excess[role] = {} /\ Lacking[role] = {}
<1>1. \A call \in Calls : call[1] \in Methods /\ RoleBound(call[2])
  BY EveryPath DEF Calls
<1>2. Excess[role] = {}
  <2> SUFFICES ASSUME NEW call \in Calls, Admits(role, call), ~Suffices(role, EffectOf(call)) PROVE FALSE
    BY DEF Excess, AnyRole
  <2>1. QED
    BY <1>1, RankIsNat DEF RoleBound, Guarded, Admits, Suffices, EffectOf
<1>3. Lacking[role] = {}
  <2> SUFFICES ASSUME NEW call \in Calls, EffectOf(call) # "none", Suffices(role, EffectOf(call)),
                      \A m \in Methods : Effect(m, call[2]) = EffectOf(call)
                                           => ~Admits(role, <<m, call[2]>>)
               PROVE  FALSE
    BY DEF Lacking, AnyRole
  <2>1. PICK k \in Methods : Effect(k, call[2]) = EffectOf(call) /\ LetsIn(k, call[2])
    BY <1>1 DEF RoleBound, Reachable, EffectOf
  <2>2. Admits(role, <<k, call[2]>>)
    BY <1>1, <2>1, RankIsNat DEF Admits, LetsIn, Suffices, EffectOf
  <2>3. QED
    BY <2>1, <2>2
<1>4. QED
  BY <1>2, <1>3

(* A session has the role its sign-in gave it, and what that role may call   *)
(* is what it is for: no ID a client chooses, a word of a route included,    *)
(* and no method leads requiredRole and the handlers to different answers.   *)
THEOREM RolesAreBinding == Spec => []RolesBindHandlers
<1>1. ASSUME AInv PROVE RolesBindHandlers
  <2>1. \A s \in sessions : row[s].role \in Roles
    BY <1>1 DEF AInv, TypeOK, Rows
  <2>2. QED
    BY <2>1, NoRoleExceeds DEF RolesBindHandlers, AnyRole
<1>2. QED
  BY <1>1, AInvHolds, PTL

=============================================================================
