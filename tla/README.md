# Verification of the KyRecovery server

KyRecovery is a blind store for sealed backup capsules. Products pair once and
then push opaque containers; the server keeps the bytes, a row that describes
them and a hash-chained audit trail, copies capsules off site, verifies them
daily and purges them on an administrator's request. This directory holds TLA+
models of that core, TLC configurations that check them on small instances, and
theorems about them checked by TLAPS.

`PROJECT.json` is the index: components, runs, the map from every definition to
the lines it stands for, hazards, findings and theorems. To check a run:
`tlc -config MCPairing.cfg MCPairing`; to check the proofs of a module:
`tlapm IdLocksProofs.tla`.

## 1. The system

One Go process, one SQLite database over one connection (`SetMaxOpenConns(1)`,
so statements are serial), one directory `capsules/`. Every HTTP request is a
goroutine; the integrity sweep and the replication of a deposit are goroutines
too. No transaction spans two statements, except the audit event and its anchor.

| Component | State it keeps | Operations | What is hard |
|---|---|---|---|
| Per-ID locks, `server/idlock.go` | map from capsule ID to a counted mutex | acquire, release | the entry is waited for outside the map's mutex |
| Capsule store, `deposit.go`, `limits.go` | `capsules` rows, files, temporary files | deposit, duplicate, publish, roll back | row, audit event and file are three stores; any call may fail, the process may die between any two; retries |
| Verification, `verify.go` | `status` of a row | daily sweep, on-demand check | looks at capsules that are being published or purged |
| Retention, `retention.go` | the policy; what to purge is computed | save, preview, purge | calendar boundaries; lists rows before it locks them; unlink and DELETE are two steps |
| Audit ledger, `audit/chain.go` | `audit_events`, the one row `audit_anchor`, the chain's head in memory | start, record, verify | failed commits, restarts over a damaged log, a verifier beside appends, two processes |
| Pairing, `pairing/`, `recoverykey.go` | `paired_apps`, the pinned recovery key | generate, claim, revoke, clear, import | claims race each other, revocation and expiry |
| Admission, `ratelimit.go`, push slots | fixed-window buckets, a semaphore | ask, charge, take and give back a slot | asking and charging are two critical sections |
| Replication, `replication/` | targets, log, staging files, the remote objects | deposit's round, requested sync, edit or delete a target | no lock against purge, edits or another sync; budgets and a reaper |
| Sessions and sign-in, `auth.go` | `users`, `sessions` | sign in, change the password, sign out | a password is compared between two statements |
| Single sign-on configuration, `auth.go` | six settings and a copy in memory | save, load at start | six statements, one mutex, flags under the stored values |
| Authorization table, `server.go` | none | `requiredRole`, `parseCapsulePath`, the routes | the policy and the handlers each read the URL |
| Listing, download, timeline, diff | none (a download appends an event) | reads | a download holds no lock against a purge and a new deposit of the ID |
| Custodians, readiness | one table | insert, list | nothing |
| Sealing, envelopes, ceremony | none | cryptography | outside a state machine |
| Command line, SDK, console, build | none of their own | | |

How they meet: a deposit passes Admission, holds the lock of its ID, writes the
three stores, records in the ledger and starts a replication round; the sweep
and the purge take the same per-ID locks; every handler that changes something
records in the ledger, some refusing when that fails and some ignoring it. What
makes each part correct is stated in section 4, property by property.

## 2. The modules

| Module | Models | Built on |
|---|---|---|
| `IdMutex` | the promise: one everlasting lock per ID | |
| `IdLocks` | `idlock.go`, one action between any two mutex operations | implements `IdMutex` |
| `BlindStore` | the promise of a capsule store: announced, stored, condemned, removed, or damaged; never replaced | |
| `CapsuleStore` | deposit, verification and purge, one action per call to database, disk or ledger | uses the promise of `IdMutex` as one step; implements `BlindStore` |
| `AuditLedger` | `NewLedger`, `Record`, `Verify` over the two tables, one ledger per process | |
| `Pairing` | generate, claim, revoke, clear, key import | |
| `RateLimiter` | the fixed-window bucket, as operators | |
| `Admission` | the handlers that ask and charge buckets and hold push slots | extends `RateLimiter` |
| `Replication` | deposit round, requested sync, the four ways a target is reached, target administration | |
| `RetentionWindows` | the calendar and `retentionCandidates`, as operators | |
| `Retention` | deposits over time, saving the policy, the purge by it | extends `RetentionWindows` |
| `Authorization` | policy table, `requiredRole`, routes and what the handlers do, as operators | |
| `Access` | sign-in, sessions, password change, sign-out, single sign-on configuration | extends `Authorization` |
| `MC*` | values for TLC, symmetry | |
| `IdLocksProofs`, `CapsuleStoreProofs`, `AuditLedgerProofs`, `PairingProofs`, `AdmissionProofs`, `ReplicationProofs`, `AccessProofs`, `RetentionProofs` | theorems | the module in their name |

Conventions. `pc[r]` names the next call of a goroutine, so an interleaving or
a crash fits between any two calls. What the code waits for (a lock) is a guard; an early return is a disjunct. A definition
whose comment begins "Mutant" is a plausible mistake that `PROJECT.json` pairs
with the property it breaks: no specification uses it.

### 2.1 Locks

`IdLocks` follows `acquire` from `mu.Lock` over find-or-create and count-in to
the wait for the entry, and its release from `Unlock` to count-out and the
deletion of the entry. Lock objects are drawn from a pool and may be collected
and reused once no goroutine refers to them.

### 2.2 Capsule store

Request `r` is the r-th deposit to arrive; the number is also its
`DepositedAt` and, once stored, the receipt of its capsule. `log[r]` is the set
of audit events about it. `file` is indexed by path and `PathOf` need not be
injective, as on a case-insensitive volume. A failed statement or call changes nothing. `Failing` says what
may fail. A crash ends every goroutine; a power failure may also lose a
directory entry that was not flushed. Assumptions a reader should know:

- a purge sees deposits in flight as younger than its shortest window (a day;
  the guard of `PurgeStart`), since a deposit is bounded to a fraction of that;
- `Record` fails transiently when "ledger" may fail, and persistently only when
  the ledger could not resume at start (`healthy`);
- what a policy keeps is abstracted to "the `recent` youngest" and "the newest":
  the windows are `Retention`'s, which has one step where this module has every
  call of a removal;
- the update of the product's last backup time is left out; the replication it
  starts is `Replication`'s `Deposit`.

### 2.3 Audit ledger

The keyed hash is injective: the hash of an event is the sequence of events it
closes, so a link matches only the history it was made for. `Damage` loses or
alters a row or the anchor. The model has the latch of `NewLedger`: *any* error
while resuming, a transient one included, makes the ledger refuse to append
until the next restart, though the comment at chain.go:31 describes it as
evidence that the stored log is not whole.

### 2.4 Pairing and admission

A claim is key, lookup, guarded UPDATE, event and answer, one action each; a
revocation is its UPDATE, then its event with the answer. `Recorded` is
`ledger.Record` as these handlers call it: the append may fail, alone or because
the ledger has been latched since start, and the handler goes on as if it had
not. The process may end between any two of these steps, and all that was under
way is gone. Codes may repeat: `Lookup` takes any row with the code, whatever its
status, as the query does, so a revoked registration can shadow a pending one
that drew the same code. One clearing is under way at a time. The pinned key
is a singleton row. `Admission` leaves out the sweep of a limiter with more than 1024 keys
(it drops only stale buckets). It shows the overrun the split critical sections
allow and that it is bounded.

### 2.5 Replication

`clock` is this store's. An SFTP server stamps a staging file by its own clock,
which is ours plus `Skew` of its target, and `reapStaging` compares that stamp
with ours (sftp.go:125): both are in `Staged` and `Expired`. The skew may have
either sign and differ from target to target; that it drifts while a file is
staged is not modelled. Reaping happens in front of a transfer and on a
connection test (`TestConnection`); the budget of a transfer starts when it
dials. The file reaped from under a live transfer costs that sync and nothing
else, since the rename finds no file and the sync fails.

A target's record is reduced to whether it is auto-synced and disabled, and
`KindOf` to how it is reached; two records are never one place. The offsite
library is external: it creates an object only where there is none. A log row
that says "failed" is not kept. Row and file are read in one step (`Open`); the
status update and the event are one step (`Conclude`), which overwrites a
status an administrator saved meanwhile, as the code does. Targets are visited
in a fixed order, as ORDER BY does. The clock moves only while a staging file
exists, since nothing else looks at it.

### 2.6 Access and authorization

Comparing a password is a function of the hash read, so it is part of the read;
the time Argon2id takes is the gap before the next step. `row[s]` keeps the
password that opened session `s`, which the table does not, and two more
variables watch without guarding anything: `caller`, the session each user's
last change of password was made from, and `missed`, the sessions that change
did not come to end (opened by a sign-in that compared the old password and
inserted after the DELETE, or left when the DELETE failed or the process ended
before it). No more sign-ins run than there are identifiers left (`Drawable`). `ServeHTTP` and the handler both look the session up; an ended
session stays ended, so the second look-up is the one that counts. A federated
sign-in takes its role from the claim and the configuration; `ExchangeCode`
reads the configuration three times, and only the read that decides the role is
kept. Of the six settings the run keeps two that behave differently (the
secret, which a form may leave alone, and one that is always written). Events
the handlers append and whose errors they ignore are left out; so is the actor
they name, for which the session is read once more (it is "anonymous" if the
session ended meanwhile).

In `Authorization` a path is the sequence of its segments, canonical as
`ServeHTTP` demands. `RequiredRole` follows the lookup order of the policy
table; `Effect` follows the routes and, below `/api/capsules/`, the handler's own
reading of the URL, and says what a call does at worst. `Need` is the sentence
of the documentation about viewers, operators and administrators, with one
addition the code makes: `GET /api/capsules/<id>/verify` is a viewer's though it
writes the outcome to the row and the chain.

### 2.7 Retention

Times are half days of a real calendar (January to March 2026, in the run),
so that midnight boundaries and clamped month ends occur. A deposit is its row
and then its outcome, and holds its ID in between. The purge is the handler's:
refused unless it names the policy that is saved, then list, wait for each
listed ID, choose, and remove candidate by candidate; a failure or the end of
the process may stop it anywhere and may leave a row whose file is gone. Such a
row counts as a backup in the next choice, as it does in the code. IDs are
visited in one fixed order, as the listing has one. Two branches are left out
because they change nothing: a purge under zero days, which removes nothing, and
the candidate that has vanished, which cannot (only a purge, and under the same
mutex, removes a row that has settled). Saving holds the mutex too and is one
step; the preview reads only.

## 3. The runs

Each run exhausts its state space. Times are for two workers.

| Run | Instance | Distinct states, time |
|---|---|---|
| `idlocks` | 3 goroutines, 2 IDs, 3 lock objects | 8,967, 10 s |
| `store_faults` | 2 deposits, a verifier, purges; 1 ID, 2 bodies; database, disk and ledger fail, 1 crash, 1 damage | 1,057,920, 100 s |
| `store_live` | 2 deposits in 2 processes, a verifier, purges; 1 ID; disk errors, a crash or power failure; liveness | 69,633, 3 min |
| `ledger` | 2 recorders, 1 verifier, 3 events, 2 stops, 1 damage, failing statements; liveness | 58,970, 25 s |
| `pairing` | 2 registrations with one code, 2 claims, 2 keys, 2 time units, failing statements and appends, restarts | 767,553, 40 s |
| `admission` | 2 guessers, 2 depositors, limits of 1 and 2, 1 slot, window 1, 2 time units | 444,469, 15 s |
| `replication` | an SMB share and a staged SFTP target, the SFTP server's clock a unit behind, 2 syncs, at most 3 targets and jobs together, an edit, a fault, budget and grace 1, 2 time units | 1,951,108, 70 s |
| `access` | 2 requests, 2 sessions, a local and a federated user, 2 claims, 2 passwords, 2 forms, failing statements, 1 restart; every path of the table | 2,635,149, 90 s |
| `retention` | 3 deposits under 3 IDs of 2 products, 4 instants around the end of February, 2 policies | 1,279,948, 45 s |

`orphan_row`, `ledger_cli` and `old_sessions` are the runs that end in a
violation (section 4). `NoFork` and `ValidMeansWhole` are checked for one lost
or altered row: with two, all that a short log left may be gone.

Why these are enough: the hazards are races of two or three parties over one
capsule, code, target or user, so two or three goroutines and one or two names
reach every order of their steps; one crash between any two calls reaches every
intermediate durable state, and what the next requests find there does not
depend on how many crashes led to it; a limit of one or two is reached as a
large one is. Where capsules are compared with each other, `retention` has
three: two of one product, of which one can supersede the other, and one of
another product, which must not. Its four instants are the last day of a month,
the day after (another month, the same ISO week), and two on which a window's
cutoff falls exactly on the first and moves back over it. `MaxWork` in
`Replication` bounds targets and jobs together because each alone is cheap. A
deposit number, a clock or a restart count stops at its bound by a guard.

Deadlock is checked except in the store runs and in `retention`, where a
bounded number of requests may all be answered and the system then rests.

### Fairness

`IdLocks`, `CapsuleStore` and `AuditLedger` have liveness properties. A
goroutine that can run does (weak fairness of its steps: the Go scheduler is
preemptive and a call to the database or the disk returns, with or without an
error). Taking a mutex is strongly fair: `sync.Mutex` hands over to a waiter that starves
for a millisecond. No fairness is assumed of crashes, failures, damage,
arrivals or administrators. `Pairing`, `Admission`, `Replication`, `Access`
and `Retention` claim no liveness: their handlers do not wait for each other,
except in `SaveConfig` and for `retentionMu`, locks released by `defer`.

## 4. The properties

Locks. `MutualExclusion`: two goroutines past `acquire` on one ID are the same.
`MapHoldsOnlyWork`: the map holds no entry nobody uses. `ImplementsIdMutex`:
with fairness, a refinement. `EveryCallerGetsIn`.

Capsule store. `AckedDurable`: a capsule answered with 201 or 200 keeps its row
and exactly its bytes until a purge was announced or the medium lost them; it is
checked with crashes of the process and without power failures, which it does
not survive, because the directory is not flushed before the answer.
`FilesAreKnown`: a file is preceded by its audit entry and never without its
row, and a temporary file has its deposit. `CorruptIsEvidence`,
`PurgeIsNotCorruption`: nothing is called corrupt because it was looked at in
mid-publication, mid-purge or during an I/O error. `AnswersAreTrue`: when the
answer is sent the capsule is there, unless, beside a second process, the row a
retry read has gone since. `ImplementsBlindStore`. `EveryCallReturns`.

Ledger. `KeepsTheLog`: the two tables hold every committed event. `NoFork`: a
server that appends goes on from the last acknowledged event or refuses.
`ValidMeansWhole` and `HealthyVerifies`: the verdicts mean what they say.
`EveryCallReturns`.

Pairing. `HandedOnce`: one token per code. `TokensAreSound`: a claim under way
cannot revive a registration an administrator was told is revoked, and whoever
holds a token was given the pinned key. `ChainNeverLies`: a product the chain
calls paired has left "pending" for good and a token it calls revoked is good
for no deposit again, whatever raced, failed or died. The converse is not so:
the error of `Record` is ignored here (server.go:655 and 751; chain.go:101, "every
caller discards this error"), so a product can be paired or revoked with no
event, and no property forbids what the code means to do. `ClearedOnRecord`.

Admission. `AdmissionIsBounded`: racing requests overrun a limit by at most
their number less one, and a slot is taken exactly while a deposit runs.
`WindowsAreFixed`: a late charge prolongs no window. That one arriving after its
window's end opens a new one is left as it is in the code.

Replication. `SuccessIsACopy`: a logged success is a copy this store sent or
compared; a replica its server loses or damages afterwards still counts, and a
server that answers as a guest session and keeps nothing (the repository's README.md:103) is
outside. `ReplicasAreKept`: nothing a library target holds is replaced and a
whole replica never becomes a part of one. `StagingIsSafe`: the reaper takes no
file from a transfer within its budget, on every server whose clock is at most
the grace minute behind ours (`Skew[t] + Grace >= 0`). A server further behind
stamps new files as old ones, and the reaper of another sync can take them. `RoundsAreComplete`: one target's failure keeps no other
from being tried.

Access. `OnlyTheMissedOutlive`: a session opened with a password that is no
longer the user's is about to be ended, is the one the last change was made
from, or was missed by that change in one of the ways of section 2.6; two
changes from two sessions, each sparing its own caller, leave no other. That
sessions are missed at all contradicts what the code says, and `old_sessions`
shows it (below). `ServedIsSaved`: outside a save and but for fields a failed save or start left
behind, the configuration in force is what is stored; a field stored empty is
empty, or the flag's. The last clause is the code's: a cleared administrator
address is granted administrator again after a restart if the flag names it.
`RolesBindHandlers`: what `ServeHTTP` lets a role call never leads to a handler
that does more than the role is for, and each role can call all it is for.

Retention. `PurgeFollowsThePolicy`: a purge removes nothing the saved policy
promises among the completed backups, and leaves nothing else when it is
through; the promise is stated by whole weeks and months, without cutoffs or
buckets. `NothingLostEarly`: purging often loses nothing that purging once, now,
would keep. The exception it names is real: from noon to midnight of March 28
the month's window ends at noon of February 28, and at midnight it moves back
to the beginning of that day, over what may have been purged in between.

### Disagreements found

Three runs end in a violation, each of a sentence of the repository:

- `orphan_row` (`PurgeKeepsABackup`): a deposit that dies between its row and
  its file leaves a row that no goroutine will complete; it counts as the newest
  backup and a purge removes the completed one (retention.go:112).
- `ledger_cli` (`HealthyVerifies`): `kyrecovery audit verify` beside a running
  server reads the anchor, the server appends, and a healthy chain is reported
  broken; the mutex chain.go:140 relies on does not span processes.
- `old_sessions` (`OldSessionsEnd`): a password change is said to end every
  session of the old password but the caller's (db.go:744, server.go:941,
  the repository's README.md:240). A sign-in that compares the old password, is overtaken by the
  whole change and then inserts its session keeps it, for up to a day. No
  failure is needed; with one, or with a process that ends between the UPDATE and
  the DELETE, every old session stays, and the answer does not say so.

## 5. The proofs

Every theorem holds for all values of the constants that satisfy the named
assumptions of its module (`IdLocksAssumption`; `StoreAssumption`,
`SentinelAssumption`; `LedgerAssumption`, `LostAssumption`; `PairingAssumption`;
`WindowAssumption`, `AdmissionAssumption`; `ReplicationAssumption`,
`NoJobAssumption`; `AccessAssumption`; `CalendarAssumption`,
`RetentionAssumption`), none of which bounds anything but what must be finite or
distinct: a month has 28 to 31 days, and the calendar covers the instants. Each
module has an inductive invariant, a lemma per action that it is kept, and the
theorems that follow from it. A theorem that needs more of its constants says so
in its own `ASSUME`, and this section says why.

`IdLocksProofs`. Mutual exclusion is not inductive: it depends on the count
being the number of goroutines between count-in and count-out, which in turn
needs the entry in the map to be the one they hold. `IInv` is `TypeOK` with
`Registered`, nine named parts: who wants which ID (`WantsId`), what `mu`
protects (`MuHeld`), that every counted goroutine's entry is the one in the map
(`EntryInMap`), that an entry serves one ID (`OneIdPerEntry`), that the count is
exact (`RefsCount`), that an entry in the map has a user (`SomeoneUses`). There
is a lemma per action. From it: `TypeCorrect`, `AcquireExcludes`,
`MapIsBounded`, and `MapIsOneLockPerId`, the safety part of the refinement.

`CapsuleStoreProofs`, part 1: any number of processes on the data directory, any
`PathOf`, any combination of failures, power losses included. `StoreTypeCorrect`:
types alone are not inductive because `row[IdOf(r)]` needs `r` to have arrived,
hence `Arrived` and `HasTarget`. `FilesStayKnown` by `SInv`: a publishing
deposit owns its row (`Mine`), a file belongs to the row of its ID (`FileOf`),
what is past the record step is in the chain (`Announced`), and a purge works on
rows older than anything in flight, chosen from completed ones and current since
it re-read them (`PurgeInv`).

Part 2 proves the promises of a store, in layers over `SInv`: `LockInv` (whoever
is past `acquire` holds the lock of its ID), `KInv` (a published file is its
deposit's bytes; a purge is in the chain before the file goes), `HInv` (the row a
deposit or a verifier has read under the lock is still there), `EInv` (a verdict
of corruption has its reason from the moment it is about to be written) and, for
the refinement, `BInv`. `EInv` was an invariant of the instance of `store_faults`,
and `KInv` with `LockInv` of one with two hosts and power failures, before they
were proved. Each assumption is needed, and TLC finds the behaviour
without it:

- `OneProcess` (every goroutine uses one set of per-ID locks, as in the one
  server process): `AckedStayDurable`, `CorruptStaysEvidence`,
  `PurgeIsNeverCorruption`. `AnswersStayTrue` does without, for an exception
  that `AnswersAreTrue` names: with two processes and three deposits, one
  process's retry reads the row of a deposit that the other process then rolls
  back, a third deposit links its file, and the retry is answered 200 with the
  receipt of the one that is gone. The run `store_live` has two processes but two
  deposits, too few for that, because liveness with three takes too long; its
  instance with three deposits, without fairness, reaches the exception and
  nothing worse (838,406 states). In one process the exception is void, and there
  the proof needs the locks (`HInv`), elsewhere only `KInv`.
- `OwnPaths` (no two IDs share a path): `AnswersStayTrue`, `AckedStayDurable`,
  `CorruptStaysEvidence`, `StoreIsBlindStore`. limits.go:118 grants that two IDs can be one path on a
  case-insensitive volume, and `os.Link` protects the file, but the check that
  answers a retry does not tell whose file it finds: after a crash between one
  ID's row and its link, its retry is answered 200 because the other ID's file is
  at the path.
- `~PowerMayFail`: `AckedStayDurable`, `CorruptStaysEvidence`,
  `StoreIsBlindStore`. The file is flushed and its directory is not, so a power
  failure can take an acknowledged name back. `AnswersStayTrue` and
  `PurgeIsNeverCorruption` do without.

`StoreIsBlindStore` maps a receipt to its stage by the chain, the file and the
damage it suffered, and shows that every step of the store is a step of
`BlindStore` or none: recording announces, linking stores, the purge request
condemns, unlinking removes, damage decays, and nothing else moves a stage. It
needs no assumption on processes.

`AuditLedgerProofs` proves `LedgerTypeCorrect`, `LogIsKept` by `LInv` (the head
in memory is the end of the log unless the log was damaged), and
`HealthyChainVerifies` by `VInv` (whoever reads or appends holds the mutex, and
the anchor a verifier read is still the end). The last assumes what the code
assumes, that every goroutine is of the server's process; `ledger_cli` shows
that the assumption is needed. `NoSecondHistory` allows one lost or altered row:
`FInv` says that the anchor, and what a starting server read of it, is the end
of the log or is missing, and that if it is missing no event is; then a last row
that agrees with a missing anchor can only be that of an empty log.
`ValidStaysWhole`, also for one lost or altered row, goes on from `FInv` by
`WInv`: either the log is whole or some event at or before the last acknowledged
one is missing or does not link, and the anchor that a verifier holds is the end
of the log or missing, whatever has been appended since it was read.

`PairingProofs` (`PInv`): a claim past its lookup holds what it read, and a row
leaves "pending" once; so at most one claim of a registration is ever past the
UPDATE, and what it hands out is that registration's one token. From it
`OneTokenPerCode`, `TokensStaySound`, `ChainTellsNoLie` and `ClearingIsOnRecord`.
The chain tells no lie because an event is appended only from past the UPDATE
it reports, and no statement of any handler takes that UPDATE back.

`AdmissionProofs` (`MInv`): a window's count is not inductive, since a request
passes the check before it charges. What is: the count and the requests that
owe it a charge are together at most the limit and all parties but one
(`Bound`), where a request that passed because the window was over owes the next
one. From it `AdmissionStaysBounded` and `WindowsStayFixed`.

`ReplicationProofs` (`RInv`): what a goroutine holds is right for its step
(`JobFits`: the kind of target a step is for, bytes of this store, a success
that holds), the staging file of a transfer in time is there if its server's
clock is not too far behind (`Safe`), and a round nothing
disturbed has each target before it, in hand or behind it (`OnTrack`, which
needs that a purged capsule is not stored again while its sync runs). From it
`SuccessStaysACopy`, `StagingStaysSafe`, `ReplicasStayKept` and
`RoundsStayComplete`, for any skew and for targets of any kind: the run has an
`smb` and a `staged` one, whose steps include all others but the replacing PUT of
an `overwrite` target, which is covered by the proofs alone.

`AccessProofs` (`AInv`): what a request part way through still owes. For
sessions it is `Kept`: a change past its UPDATE ends what it finds (`Ender`,
`Doomed`), and a session of an old password is its caller's, about to go, or
accounted for as missed (`Old`, `Excused`, `Accounted`), where it matters that
two changes of one user may each be about to end the other's caller. A save holds the lock, and the fields it has left are served as they
are stored (`Writer`, `Written`). From it `OldSessionsAreEnded` and
`ServedStaysSaved`, for any settings in any order. The run tries the
table on some paths. `EveryPath` is about all, of any length: the entry that
decides a path's role (`EntryDecides`, `WildcardDecides`, `UnlistedDecides`) asks
for at least what the handler it is routed to needs, and some method with the
same effect asks for no more. `RolesAreBinding` follows, for any capsule names.

`RetentionProofs` is for any calendar, any policies and any number of deposits.
`MonthStart` is a recursive function, about which the provers know nothing until
it is shown that one such function exists; `StartsExist` shows it for every
length, by the least length without, so that no induction theorem is needed
(`LeastNat` is had from well-foundedness). With it, comparing instants is
comparing dates (`ByDate`), and the cutoff `time.AddDate` gives, month ends clamped, is
the window "not more than n months ago" (`WithinIsCutoff`). Then
`ChoiceKeepsThePromised` and `ChoiceTakesTheUnpromised`: what
`retentionCandidates` leaves is promised and what it chooses is not, even among
what is left. The second is stronger than it looks and is what makes a purge that
stops half-way harmless: no candidate is expired on account of another. `RInv`
says of a purge under way that its policy is the saved one, that what it has
listed is complete, that each remaining candidate is promised nothing among the
capsules it spares, and of a capsule that is gone that it was not promised when
it went. Deposits and purges only add to what a policy compares with, and time
only takes promises away (`PromiseShrinks`, `PromiseExpires`, the second but for
the stepping back of a month's cutoff). From it `PurgeFollows`,
`NothingIsLostEarly` and `RetentionTypeCorrect`.

Only model-checked: all liveness, and the fairness part of `ImplementsIdMutex`.
Liveness under fairness and `ENABLED` are out of the prover's reach, and so is an
induction theorem over data, which is why no module has a recursive operator,
hashes are sequences, and the calendar is reasoned about by least elements. Every
other property of the passing runs has a theorem.

## 6. What is not modelled

- Downloads. The row is read and then the file of its ID is opened, without the
  ID's lock (server.go:420 and 435): a purge and a new deposit of the same ID between the
  two would send the new capsule's bytes under the old row's digest. Nothing in
  the code prevents that or says it cannot happen, and apart from it a download
  depends on nothing but the one row per ID.
- Listing, timeline, diff, custodians, readiness: reads, single statements, and
  a function of two rows.
- The OIDC exchange, host keys, request signing, SMB mounting: inside libraries;
  a transfer or a sign-in may fail at any point.
- Cryptography: sealing, envelopes, Argon2id, the hash chain's primitive, the
  browser ceremony.
- Schema migration, flags, key files, listener shutdown, the console, the SDK,
  the build.

## 7. Plan

Built in this order: locks, store, ledger (the durable core), pairing and
admission (who may deposit), replication, access; then retention over calendar time, authorization, and the proofs of pairing, admission,
replication, access and the ledger under damage; then those of the store's
promises and its refinement, of the policy table and of retention. What could still be added:

1. What two processes on one data directory still guarantee beyond
   `AnswersAreTrue`: `AckedDurable` with the same exception.
2. The OIDC exchange with its state cookie, if the library's part of it moves
   into this repository.
