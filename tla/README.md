# A verification development of the PyBLOCK BLAKE2b supplier

TLA+ models of the supplier service, TLC runs over small instances of them, and TLAPS
proofs for every value of the constants. Paths in this file are relative to the
repository (`supplier/…`, `startos/…`, `scripts/…`).

Contents: [inventory](#1-inventory) ·
[plan](#2-plan) · [modules](#3-modules-and-how-they-correspond-to-the-code) ·
[runs](#4-runs) · [bounds](#5-bounds-and-assumptions) · [fairness](#6-fairness) ·
[proofs](#7-proofs) · [findings](#8-where-the-code-and-its-texts-disagree) ·
[limits](#9-what-is-not-modelled)

## 1. Inventory

The service runs in one container on StartOS. A shell entrypoint starts Tor if it is
needed and becomes the supplier, one Python thread that polls a local Bitcoin node, and
posts block templates to a pool. It tells StartOS how it is doing through one file,
`health.json`, which a separate short-lived process reads. Its configuration is another
file, `config.yaml`, which TypeScript code of the package writes.

| Component | State it keeps | Operations | Interacts with |
|---|---|---|---|
| Main loop (`supplier/main.py`) | `last_height`, `last_sent`, `last_write`, the health state in memory | an iteration: sync gate, publish condition, template, publication, report, sleep; `_heartbeat`; `_stop` (signals); `main` (exits) | RPC client and publisher (blocking calls), health record (writes) |
| Tor readiness (`supplier/tor.py`, `_await_tor`) | deadline of the window, last failure `error` | `wait_until_ready`, `smoke_test`, `socks_port_open`, retry of windows | Tor daemon (sockets), sentinel file, health record |
| Health record (`supplier/health.py`) | `health.json`, `health.json.tmp` | `write_health`, `write_state`, `touch`, `set` | written by the loop and by the signal handler on top of it |
| Health check (`healthcheck.py`, `read_state`, the ready function of `startos/main.ts`) | none of its own; reads the record, pids, the clock | read, judge, map to a StartOS result | health record, process table |
| Publication (`supplier/pyblock.py`) | the alarm timer | probe of the SOCKS port, POST under a deadline | Tor, pool |
| RPC client (`supplier/bitcoin_rpc.py`) | none | `call` | node |
| Entrypoint (`scripts/docker_entrypoint.sh`) | Tor sentinel | read the network mode, start Tor, wait for it, `exec` the supplier | `config.yaml`, Tor |
| Configuration file (`startos/fileModels/config.yaml.ts`) | `config.yaml`, `config.yaml.tmp` | `mergeConfig` | called by `main.ts` and by Configure |
| StartOS daemon (`startos/main.ts`) | the node's bridge address it saw | resolve, merge, start the daemon, run again when the address changes | configuration file, container |
| Configure action (`startos/actions/config.ts`, `init/index.ts`) | the critical task | resolve the password, merge | configuration file |
| Configuration loading (`supplier/config.py`, `_load_config`) | none | validate, retry | `config.yaml` |
| Supplier Dashboard action, package declaration, image build, release workflows | none, or outside the running service | – | – |

What is hard, and the properties that matter (each hazard of `PROJECT.json` names its line
and its properties):

* **Age against a guard in another process.** The record is only rewritten between
  blocking calls; the check calls it stale after 60 s. How old may it get in each phase
  (`RecordAgeBounded`, `FreshWhilePublishing`, `WaitingNeverStale`)?
* **A claim that is renewed.** `healthy_active` is rewritten by heartbeats and by the touch
  before a publication, after outages, reorganizations and swallowed signals. Is there
  always a recent acceptance behind it (`HealthyIsEarned`, `ImplementsContract`)?
* **Recovery.** After any sequence of outages, is the current tip published again, and is a
  lasting fault named (`Recovers`, `FaultsReported`, `ReadyWhenUsable`,
  `TorFaultsReported`, `SilenceIsNoticed`)?
* **Retries.** What keeps the rate of posts under the pool's limit (`PostsPolled`)?
* **One timer, three places it may strike.** The deadline of a publication is the process's
  only alarm: it may go off in the request, after the answer was read, in the `finally`
  clause that clears it, in the stop handler, or, if it is left on, in another call. Is the
  verdict of `publish` the pool's, is an answer that came in time told, and does a stop still
  stop (`VerdictIsPools`, `AnswerIsTold`, `AlarmIsOwn`, `DeadlineKept`, `StopEndsProcess`,
  `EveryCallReturns`)?
* **A writer interrupted by itself.** The signal handler calls `write_health` from inside
  `write_health` (`RecordWhole`, `StopIsRecorded`, `IsAtomicRegister`).
* **A record that outlives its process** and pids that start again
  (`SuccessFromLiveProcess`, `SuccessFromLiveWriter`, `GoneIsFailure`, `SuccessIsFresh`), and the sum of all delays:
  how old may the acceptance be that the operator is shown (`SuccessIsEarned`)?
* **Two callers of one read-modify-write, crashes inside it, and three parsers of one file**
  (YAML 1.2 in TypeScript, YAML 1.1 in Python, a `sed`)
  (`SavedIsKept`, `ConfigTypeOK`, `TorModeHasDaemon`, `RepairedBeforeLoad`,
  `AddressOfStart`, `CurrentAddressUsed`).

## 2. Plan

Order of work, the most important behaviour first. All of it is done.

1. `SupplierLoop`, the loop with every branch and every way it ends; its abstract
   specification `SupplierContract` (the claim to be active is a lease) and the
   refinement `SupplierRefinement`; proofs.
2. `TorReadiness`, the wait before the loop; proofs.
3. `HealthCheck`, reader against the life of the process; proofs.
4. `HealthFile`, the record on the disk, as an implementation of `HealthRegister`.
5. `ConfigStore`, the configuration file, its two writers and two readers; proofs.
6. Runs, mutants, findings; the first theorems.
7. `Publication`: the deadline of `pyblock.py` step by step; proofs.
8. `Supplier`: the process, the record and the check of `HealthCheck` composed with
   `SupplierContract`; proofs. Named tips (two of one height) in the loop.
9. Proofs of `HealthFile`: its types and what alone can tear a record, for signals at any
   step; `RecordWhole`, `StopIsRecorded` and the refinement of `HealthRegister`, for signals
   that strike no filled buffer.

## 3. Modules and how they correspond to the code

### SupplierLoop, SupplierContract, SupplierRefinement

`pc` is the place in `run()`: a pending call (`netinfo`, `chaininfo`, `template`,
`publishing`), an answer about to be acted on (`evaluate`, `templated`, `answered`),
`sleeping`, `ended`. A call is two steps: it returns (some time passes, the answer is chosen
from what the node, Tor or the pool can answer *then*), and the loop acts on the answer.
Between any two steps headers and blocks arrive, the chain reorganizes, the node stops,
the pool and Tor change. This is how the gap between `getblockchaininfo` and
`getblocktemplate` exists in the model.

| Code | Definition |
|---|---|
| `_node_sync_status`, `_valid_chain_height` | `NodeSyncStatus`, `ValidHeight` |
| `except RPCError/Exception` after each call | `NodeUnavailable`, `TemplateUnavailable` |
| `height == last_height and elapsed < PUBLISH_INTERVAL_S` | `NothingToPublish`, `Idle`, `RequestTemplate` |
| `_heartbeat` | `Heartbeat` |
| `health.touch(); write_health(health)` before `publish` | `BeginPublication` |
| `publish` and its exceptions | `PublicationReturns`, `PublishTorNotReady`, `PublishFailed`, `PublishAnswered` |
| `_stop`; its own failure inside a call | `Stopped`, `StopSwallowed` |
| `main`: what is recorded at an exit | `Terminates`, `UnexpectedException`, `StorageFails`, `Killed` |

`record` is the state in the file, `memory` the one in `health`; they differ only after a
swallowed stop. Time is kept as ages: of the record, of `last_sent`, of the iteration's
`now`, and as history of the last acceptance and of the beginning of the last publication.

`SupplierContract` is what a reader of "active on the Carousel" relies on: the claim is made
only by an accepted publication, and it is a lease of at most `Limit`. `SupplierRefinement` instantiates it with `Limit <- ActiveGap`, the sum
of the publish interval, a poll, two calls and a publication.

### Publication

`publish` from the caller's step to the caller's step: `Begin` (to the onion through Tor, or
in clear), `Probes`, `Arm` (the handler), `SetTimer` (the timer), `Enter` (the `try`), `Sends`,
the pool's decision, the answer as it is read (`Ends`, `Answered`, `Fails`), the `finally`
clause (`Disarm`, `Restore`), and what comes out (`Leaves`, `Failures`, `Surfaces`, `Raises`).
Two handlers run on top of any step: `AlarmGoesOff` and `StopArrives`, the latter in two
parts, its write and its `sys.exit` (`StopExits`, `StopFails`), so that the alarm can strike
between them. `Rest` is the arithmetic by which an earlier timer is restored. `LateAlarm` is a
timer that was left on and strikes a call of the loop. `SupplierLoop` meets a publication as
one step with any of these outcomes, `PublicationReturns`.

The model takes these steps of the code, which no run forbids: a publication that the pool
accepted may be reported as failed, by an alarm at or after the deadline while the answer is
read or the timer is being cleared, which costs a second POST (`AnswerIsTold` is what remains
true: not before the deadline); an alarm inside the `finally` clause leaves the handler of the
deadline installed, without a timer that could call it (`pyblock.py:62-63` says the alarm
state is restored even when publication fails); a stop whose write fails while the timer runs
outside the `try`, which is after `setitimer` (`pyblock.py:76`) and at the start of the
`finally` clause (80), leaves the timer on, and `AlarmIsOwn` excepts exactly those two places.

### TorReadiness

`_await_tor`, `wait_until_ready` and `smoke_test`. An attempt is up to six socket operations,
each with the *attempt's* timeout, so an attempt can last six timeouts; `WaitingNeverStale`
shows that this still fits between two reports. `error` is the variable of
`wait_until_ready`; `observed` is a history of what really failed last.

### HealthCheck

The process side: entrypoint, Tor daemon, loop, hang, exit, kill, restart, each with a pid that
is free at that moment and may have been another's before (`FreePids`).
The reader's side: `CheckBegins` takes `now` (the ready function and `read_state`),
`ReadRecord`, `RecordMissing` (the existence test after a failed read), `JudgeRecord`
(`read_state`, `process_alive`), `CheckFails` (timeout, no JSON). The content of the loop's
reports is left open here; `Supplier` closes it. A record that does not parse (`torn`, what
`file_torn` shows a stop may leave) is one that cannot be read. The age a record shows is
that of the wall clock (`ClockSet`), `silence` is the real one.

### Supplier

`HealthCheck` with a loop that keeps `SupplierContract`: each report is one step of the
process and of the contract (`RunBegins`, `Heartbeats`, `PublicationBegins`,
`PublicationAccepted`, `Withdraws`, `RunEnds`), and while a loop runs and claims, time passes
only within its lease (`Ages`). That `SupplierLoop` keeps the contract is what
`SupplierRefinement` says, so the chain from the pool's answer to what StartOS shows is
closed: `SuccessIsEarned` bounds the age of the acceptance behind a success by the lease,
the stale guard and the duration of a check. The contract binds a running loop only; a
hung or killed one leaves its claim to age in the record.

### HealthFile, HealthRegister

`write_health` as open, dump (in pieces, into a buffer), flush, fsync, replace, on inodes with
two names; `writers` is the stack of calls in progress, because a Python signal handler runs
in the main thread between two steps. `SystemExit` and `OSError` unwind that stack, closing
each file on the way, which writes what is left in its buffer. `HealthRegister` is an
atomic register with a durable copy and a reader that keeps what it opened; the refinement
maps the three to the contents of `names.json`, `disk.json` and `opened`.

### ConfigStore

`file` and `tmp`; `mergeConfig` split at its awaits (`*Merges` reads and merges, `Empties`,
`Fills`, `Renames`), by `main` and by `configure`; any of the three may fail
(`WriteFails`). Values are kept by how the readers treat them: npm `yaml` and `shape.parse`
(`Parse`), the entrypoint's `sed` (`SedNetwork`), and PyYAML and `Config.load` (`LoadResult`,
`LoadedNetwork`). The readers do not agree: npm `yaml` reads YAML 1.2 and PyYAML 1.1, so that
`on` or `2024-01-01` is a string to main, which writes it back as it was, and a boolean or a
date to the supplier (`"ambiguous"`); and `sed` takes the small letters a word begins with,
where the supplier lowers the word (`"toR"`). `container` is the entrypoint and the supplier up to the end
of `_load_config`.

## 4. Runs

Passing:

| Run | What it shows | Size |
|---|---|---|
| `loop_safety` | In seconds, calls and publications at once or at their timeout, all faults but initial block download and reorganizations: types and the assertion of `main.py:258`; the record's age; the claim's age; fresh during a publication; what is left of a lost stop; posts a poll apart | 5.4 million states, 110 s |
| `loop_liveness` | In units of 5 s, outages that last or pass, reorganizations to another tip of the same height: `Recovers` (the current tip is posted, not just its height), `FaultsReported`, refinement of the contract | 620 000 states, 90 s |
| `tor_wait` | Whatever Tor and the target do: never stale, route proved, blame kept within a window; a usable route ends the wait; a lasting fault is named | about 35 s |
| `publication` | Call after call in both network modes, failures, an alarm and a stop at every step: the deadline is kept, the verdict is the pool's, the alarm is its call's own and takes back no answer that came in time, a stop stops, every call returns | 25 000 states, 3 s |
| `supplier` | Two starts with the same pids, kills in any phase, hangs, slow checks, a clock set forward: what a success and an absent process mean; silence is noticed; an acceptance of bounded age behind every success | 2.1 million states, 140 s |
| `health_file` | Storage failures, kills, restarts, power failures, up to two stops: an atomic register, a whole record, a stop that is recorded | about 30 s |
| `config_store` | Hand edits, failed writes, crashes, stops, changing address, values the readers take differently: never truncated, saved settings kept, Tor when needed, no end but for what main cannot see to be wrong, the address of the start and in the end the current one used | 910 000 states, 70 s |

Violations, one for each finding of section 8: `healthy_stale`, `unsynchronized_tip`,
`stop_not_final`, `check_pids`, `file_torn`. Each checks a sentence of the
repository's own documentation or comments, and TLC finds the behaviour of the code that
contradicts it.

Every property of a passing run has a mutant in `PROJECT.json`: a definition of the model
with a plausible bug (a dropped guard, a missing reset, a write in place) under which TLC
finds that property violated. The mutated forms stand before the definition they replace,
with a suffix: `BeginPublication_WithoutTouch` before `BeginPublication`.

Deadlock is checked except in the runs of the loop and of `Publication`, where the process
may be over for good.

## 5. Bounds and assumptions

Every bound is a constant and named so in its module.

* **Ages** saturate at `MaxAge`, which the assumption of each module puts beyond everything
  the guards and properties compare (`BoundAssumption`, `HeartbeatSafeAssumption`,
  `HealthCheckAssumption`). `sent` and `iter` saturate at the publish interval, `post` at the
  poll interval: the code, or the property, compares them with nothing else.
* **Delays.** Safety in seconds uses the two extremes of a call (0 and its timeout); ages are
  sums, so their bounds are met at the extremes. Liveness uses units of 5 s: 20, 15, 60, 30
  and 35 s are 4, 3, 12, 6 and 7; the 2 s poll is one unit; a publication takes one. The
  units keep the order of all the intervals that the loop compares.
* **Heights** 0..2 (safety) and 0..1 (liveness) give new heights, headers ahead of blocks,
  and a reorganization back to a height already published.
* **TorReadiness** uses units of 3 s, with the attempt's 10 s and the retry's 10 s as three
  and the stale guard as 20 units; the window is 12 units instead of 60, still more than one
  attempt that times out at each stage, so that windows end in every phase of an attempt.
  An operation takes nothing, or its whole timeout.
* **Publication**: units of 5 s, a deadline of 6 and a probe of 1, in both network modes; one
  stop in a call, since a second one interrupts the first and adds no order of steps that the
  failing write does not have.
* **Supplier**: units of 30 s (guard 2, check at most 1, the lease of 117 s as 4), two starts,
  which is what it takes for a record to outlive its process, and two pids, as many as there are
  processes at a time, so that the second start is given those of the first; `acceptAge`
  saturates beyond the bound of `SuccessIsEarned`. `check_pids` is `HealthCheck` alone, in
  units of 15 s, with the same two pids.
* **HealthFile**: one record of the loop besides "stopped" and "failed"; five inodes, enough
  for two names, two durable names and an open file; permutations of inodes are a symmetry
  (no operator chooses among them). Up to two signals a run, so that the handler can be
  interrupted by itself. In the passing run a signal strikes outside a write or at the steps
  open, fsync and replace, where the interrupted writer's buffer is empty; `file_torn`
  is the rest (dump, flush).
* **ConfigStore**: two addresses, one password, two upsets (hand edits, failed writes or
  crashes). Passwords are only copied and compared with none, so one, or none, is what the
  runs can tell apart; the proofs have any number of them.

Assumed of the code's environment:

* an RPC call takes at most its timeout. `urlopen` applies the timeout to each read, so a
  node that trickles its answer could take longer; the local node is taken not to;
* `SupplierLoop` measures time steadily; wall clock changes are in `HealthCheck` only;
* a health record fits in one buffer and none is shorter than the one of a stop;
* StartOS does not start the service while Configure runs (`allowedStatuses: 'only-stopped'`),
  completes a `main` in progress before it runs it again, and ends it with the service: main
  and Configure never merge at the same time;
* a password and a supplier name are strings to both YAML readers, and no value is one that
  PyYAML fails to build at all (section 8);
* `config.yaml` is edited by hand only while the service is stopped and Configure is idle.

## 6. Fairness

* Loop: `WF(LoopStep)`. The thread waits only in calls with a timeout, in a publication with
  a deadline and in sleeps, so it keeps stepping while the process lives. Nothing is assumed
  of the node, the pool, Tor, or the ends of the process.
* Tor: `WF(Wait)`, for the same reason. Nothing is assumed of Tor and the target.
* Publication: `WF` of the probe (which has a timeout), of the arming, of the `finally` clause, of the alarm
  once it is due, of a stop handler that has begun, and of time. Nothing is assumed of the
  request and the response: one that trickles keeps the thread waiting, and only the alarm
  ends that. Nothing is assumed of the pool.
* Supplier: `WF(Check)`, since StartOS runs the check periodically and each has a timeout, and
  `WF(Ages)` (time). Nothing is assumed of the supplier, which may hang.
* Configuration: `WF` of the start, of the run (the entrypoint and the supplier's retries
  every `RETRY_INTERVAL_S`), of the restart after a change of address, and of Configure.

The liveness properties have the form "if from some time on the environment is such, then
…", so no fairness of the environment is needed.

## 7. Proofs

The theorems are in `SupplierLoop_proofs`, `TorReadiness_proofs`, `Publication_proofs`,
`ConfigStore_proofs`, `HealthFile_proofs`, `HealthCheck_proofs` and `Supplier_proofs`, checked by `tlapm`, for all
values of the constants under the named assumptions. Those assumptions hold of the code's own values
(`DeadlineAssumption` is what `main.py:292-294` claims, 35 s ≤ 60 s; in
`HeartbeatSafeAssumption` six timeouts of 10 s meet the 60 s exactly).

| Theorem | Statement |
|---|---|
| `TypeCorrect` | the loop's types; the assertion of `main.py:258` |
| `RecordAgeTheorem`, `FreshTheorem` | the record's age in every phase |
| `HealthyTheorem` | a healthy record stands for an acceptance at most `ActiveGap` old |
| `PostsTheorem` | two publications begin at least a poll apart |
| `LostStopTheorem` | a loop that goes on under "stopped" is in its first publication, or about to report a failed one |
| `Refinement` | the loop implements `SupplierContract` |
| `TorTypeCorrect`, `WaitingTheorem`, `RouteTheorem`, `BlameTheorem` | the same for the wait for Tor |
| `PublicationTypeCorrect`, `DeadlineIsKept` | the timer's arithmetic; no publication outlasts its probe and its deadline |
| `VerdictIsThePools`, `AlarmBelongsToItsCall`, `AnswersAreTold`, `StopEndsTheProcess` | what the handlers may and may not do to the outcome of `publish` |
| `HealthCheckTypeCorrect` | types; no two processes share a pid |
| `SuccessIsOfALiveProcess`, `AbsenceIsFailure` | what a success and an absent process mean, with pids that are given again: within a start they tell the process, and only a record of an earlier start can be taken for that of another |
| `SuccessIsRecent` | a success stands for a recent record, if the clock is never set back (`ClockSteps \subseteq Nat`) |
| `SupplierIsHealthCheck` | the composition restricts `HealthCheck` and adds nothing to it, so the four theorems above hold of it |
| `ConfigTypeCorrect`, `SavedSettingsKept` | `config.yaml` is never truncated, and keeps what Configure saved |
| `TorModeAgreed`, `RepairPrecedesLoad` | the two readers of the network mode agree once main has merged, and otherwise but for a line that sed cuts short; what main has merged ends the supplier only for a value that YAML 1.2 and 1.1 read differently |
| `AddressIsOfStart` | a supplier started for an address of the node runs with that address |
| `HealthFileTypeCorrect` | types of writers, names and inodes; no file has both names |
| `ExitAloneTears` | for signals at any step: only the exit of a stop that unwinds through a write with data in its buffer tears a record; every other step is one of the register |
| `RecordIsWhole`, `StopLeavesItsRecord`, `FileIsRegister` | the record is whole, a stop leaves its record, and the file is an atomic register, if no signal strikes a filled buffer (`SettledOnly`) |
| `ActiveIsEarned` | a success is backed by an acceptance no older than lease, guard and check together, if the clock is never set back |

The safety invariants are not inductive: an age bound at the end of an iteration says nothing
without the bounds at the points before it. The inductive invariant of the loop has four
parts. `RecordAgeByLocation` bounds the record's age at each `pc` by what may have passed
since the last write; it distinguishes the time before the first answered publication, when
no heartbeat is possible and three calls may follow each other. `ClaimAgeByLocation` does
the same for the acceptance, and ties it to `last_sent`: while the loop may still idle, the
acceptance is no older than `last_sent`, because `now` is taken before the template is
requested. `MemoryInv` says when the state in memory may differ from the file, without which
a touch could write a claim nobody made. `PostAgeByLocation` says that from the sleep to the
next publication a poll interval has passed. `MemoryInv` also carries `LostStopIsBrief`: only
a touch could write a swallowed "stopped" from memory, and it may only before the first
answered publication. For Tor, `WaitAge` and `RouteAge` count the
operations of an attempt, `ErrorIsObserved` relates the variable `error` to the history.

The refinement is proved step by step: each action of the loop is one of the contract's or a
stutter, given the invariant before and after it (`ClaimInv'` is what keeps a tick within
the lease).

`Publication_proofs` follows the timer: while the request is out, what is left on it and the
time spent stay within the limit (`TimerCovers`); `Honest` relates the outcome to the pool's
decision; `Owned` says that, unless it was leaked, the timer is off but from its setting to the
`finally` clause, and never goes off early; and `StopTraced` follows the stop from the signal to
`SystemExit`, which tells one that the alarm cut short from one that got through.

For the check the inductive invariant ties the record to the run that wrote it (`Traced`), and
within a run the pid to the process (`PidsOwned`): the record of this run, and the copy a check
holds of it, have the pid of the loop and never that of the Tor daemon, which was started beside
it. A record of an earlier run says nothing about pids, and there the stronger statement,
`SuccessFromLiveWriter`, is false (`check_pids`). `SilenceSeen` says that the age in
the record, and in the copy the check holds, is no less than the real one, which a clock set
back breaks. `LeaseHeld` adds the acceptance: within the lease while the loop runs, within
the lease and the silence once it does not, and within what a check in progress may still
conclude from the copy it has read.

For the health record the invariant about signals at any step is `FileInv`. The innermost
call writes the file named `health.json.tmp`; by the time of its fsync that file holds its
record, and by the time of its replace it is synced (`TopInv`). Until a handler has replaced
it, every call in progress has opened that same file or none (`InodeInv`); after that the
process only exits. What `health.json`, its last durable name and a reader lead to is
another file (`Apart`), so a write reaches what can be read only by the rename, or by the
unwinding of a call whose file a nested handler has renamed: hence `OnlyExitTears`, which
says of every other step that it keeps those files whole (`Sound`) and is one of the
register. `file_torn` shows that the unwinding does tear the record. If signals strike
only at open, fsync and replace, an interrupted call has nothing left in its buffer
(`BufferInv`) and the unwinding writes nothing; `WholeInv` adds that, and `StopInv` for the
record of the stop itself. `SettledOnly` restricts the moments of a signal, not the code: what
lies outside it is the finding.

For the configuration the invariant says that main and Configure exclude each other and that
the file does not change while a container runs (`Exclusive`, `FileSteps`), and that what is
renamed is what was merged (`Pending`). On it rest `Kept` (the settings are in the file and in
what main is about to write), `Modes` (the Tor daemon's mode is that of the file in place)
and `Repaired` (from the merge on, what main writes and leaves has no value that main itself takes
for one of a wrong type, and has the address main saw).

Only model-checked: all liveness, which is out of the prover's reach, as is `ENABLED`:
`Recovers`, `FaultsReported`, `ReadyWhenUsable`, `TorFaultsReported`, `SilenceIsNoticed`, `EveryCallReturns`, `CurrentAddressUsed`. Every safety property of a
passing run is proved.

## 8. Where the code and its texts disagree

Shown by a run:

* `healthy_stale`: between a publication and the next touch lie a sleep and two calls of up
  to 30 s: the record of a healthy loop can be 62 s old, against `main.py:45-47`.
* `unsynchronized_tip`: a header may arrive between the gate and the template, against
  `README.md:53`.
* `stop_not_final`: the deadline's alarm raises anywhere in the main thread, the stop handler
  included. If it goes off after the handler's write and before its `sys.exit`, `publish`
  takes it for a failure, and the loop goes on under a record that says "stopped", against
  `health.py:201-202`, until the failure is reported (`LostStopIsBrief`). (A stop whose own write fails inside an RPC call is swallowed in the
  same way by the call's `except Exception`.)
* `check_pids`: after a restart the pid in an old healthy record may be that of the new
  entrypoint or Tor daemon, against `health.py:13-14`.
* `file_torn`: a stop in the middle of `json.dump`, or before its flush, makes the handler
  rename the file that the interrupted write goes on filling, against `health.py:98-100`.

Noticed while modelling, each one a branch of the model without a run of its own:

* Configure reads the stored file before it writes, so it fails on one that cannot be parsed
  (`config.ts:157`); the message of `supplier-dashboard.ts:75` sends the operator there;
* a bridge address that is not resolved leaves `rpc-host` empty, which the loader records as
  `config_error`, while the warning of `main.ts` speaks of `node_unavailable`;
* the shape of `config.yaml.ts` accepts any port from 1, the loader only those from 1024;
* a publication that fails is repeated at every poll (2 s), not at the interval of 20 s of
  `instructions.md:109`. `PostsPolled` is what remains true;
* `gbt_unsupported` is recorded for any failure of `getblocktemplate` (`main.py:279`), against
  `health.py:38`;
* `pyblock_rejected` is recorded also when the pool was not reached (`main.py:308`), against
  `health.py:41`;
* the failure last seen is kept within a window, and forgotten at the next one (`tor.py:203`),
  against `CHANGELOG.md:41`;
* the 10 s of an attempt bound each operation of it, not the attempt (`tor.py:132`), against
  `CHANGELOG.md:40`; the record is not stale all the same (`WaitingNeverStale`);
* a clock that is set back makes a record look younger than it is (`health.py:224`).
  `SuccessIsFresh` is checked with a clock set forward only;
* main's repair (`config.yaml.ts:9-13`) and the supplier read different YAML. A value like `on`,
  `1_000` or `2024-01-01` is a string to the one and not to the other, so a merge keeps it and
  `.strip()` ends the supplier (`config.py:74`, `108`) instead of a `config_error`; Configure
  accepts such a user name (`config.ts:154`). A password of that kind is loaded as another value
  (`config.py:112`), one like `no` counts as missing, and a value that PyYAML fails to build,
  like `2024-13-45`, ends the supplier in any field;
* `network: toR` in a file that main has not merged, because the node's address is not known,
  gives a supplier that publishes over Tor and no Tor daemon (`docker_entrypoint.sh:24`,
  `config.py:116`); it then waits for Tor and sends nothing in clear;
* the timer is set before the `try` that clears it (`pyblock.py:76-77`): a stop whose write fails
  in between leaves it on, and the alarm may strike the loop;
* a stop before the flush of a write is overwritten by the interrupted record when it is
  closed (`health.py:104`, `main.py:340`), the same cause as `file_torn`.

## 9. What is not modelled

* HTTP with its redirects, gzip, authentication, SOCKS encoding, JSON details: answers are
  kept by the branch they lead to.
* More than one stop in a publication. Name resolution, which no handler can interrupt, comes
  first in a clearnet publication and has a shorter timeout of its own.
* A wall clock that is set back, in the loop: `elapsed` (`main.py:260`) then delays the next
  publication by as much.
* `supplier-name` of the configuration, on which nothing depends.
* `write_pid` and `read_pid`, which serve records that this code no longer writes.
* The Supplier Dashboard action: a function of one address, covered by its unit tests.
* A value of the configuration that only YAML 1.2 takes for a number, like `1e3`: main drops it,
  the supplier would read a string.
* The package declaration, image build and release workflows.
