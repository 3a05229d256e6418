# Rocker: a TLA+ verification of the sandbox server

Rocker hands out sandboxes. A **client** (`librocker_client`, C, with the Rust
wrapper `librocker_client_wrapper`) asks a **server** (`rocker_server` on top of
`core`, Rust) over an abstract unix datagram socket; the server clones a
**guard**, the first process of a new pid, mount and user namespace, which
mounts the application's package through a loop device; the server sends
descriptors of the guard's namespaces back, and the client enters them and runs
the application there. When everything inside has ended the guard exits, the
server's **resource worker** reaps it and gives its loop device back.

The source calls the server JM, a guard JG and a client JC; so do we.

## 1. Inventory

| component | code | state | operations | talks to |
|---|---|---|---|---|
| receiving loop and pool | `rocker_server/src/main.rs:35-59, 208-229` | socket, queue of a 4-thread pool, one thread taken for good by `resource_worker` | `gen_server_socket`, `uau_serve`, and the end of both | clients (datagrams), workers (jobs) |
| request worker | `main.rs:62-101`, `core/src/master.rs:88-204, 262-283, 330-370, 479-527` | one `RockerCfg` (guard pid, loop id, ids, name) and three descriptors | parse, `RockerCfg::init`, `get_namespace_fds`, `registe_resource`, `send_back`, closing | guard (socket pair, `kill`, `/proc/<pid>`), `RESOURCE`, client |
| guard | `master.rs:212-260, 405-476, 530-575` | its mounts, its loop device | the closure `guard_ops`: private mounts, name, `/proc`, loop device, overlay, `unshare`, then the watch over `/proc` | worker (two datagrams), kernel |
| resource worker | `main.rs:103-129`, `master.rs:373-403, 479-498` | the map `RESOURCE`: pid to `RockerCfg`, under a mutex | `wait`, remove, `resource_clean`, `loop_destroy` | guards (`wait`), workers (mutex), kernel |
| loop devices | `core/src/loop` | which devices exist and who bound each | `get_loop_dev`, `bind_pkg`, `loop_unbind`, `loop_destroy` | guards, resource worker, kernel |
| request codec | `main.rs:131-206`, `librocker_client/src/lib.c:60-86`, `client_ffi/mod.rs`, `master.rs:88-124, 286-327` | a buffer of 512 bytes; the directories of the host | numbers and byte strings, packed and unpacked; `RockerCfg::new` and its three checks | client, server, host |
| reply transport | `main.rs:232-261`, `librocker_client/src/io.c:422-559` | an ancillary buffer | `send_resq`, `recv_fd` | server, client |
| guard name | `master.rs:97-102, 462-476`, `librocker_client/src/utils.c:48-68`, `lib.c:183-195` | a counter of the server | `guard_set_self_name`, `ROCKER_get_guardname` | server, client, `/proc/<pid>/stat` |
| client entry | `librocker_client/src/lib.c:95-175`, `namespace.c`, `client_ffi/mod.rs`, `client_ffi/metal.rs` | two pipe ends, a child and a grandchild | `ROCKER_enter_rocker`, `enter_ns`, `run_in_brother`, `res_convert!` | server, guard's namespaces |
| semaphore around the log | `core/src/utils/mod.rs:41-122, 181-194` | a named POSIX semaphore shared by all processes | `p`, `sem_get`, `sem_put` | every thread and guard that reports an error |
| client io, log, utils | `librocker_client/src/{io,log,utils}.c` | files, error chains | wrappers of libc | client entry |

What is hard here. *Concurrency*: up to three workers, their guards, the resource
worker and the kernel share the loop devices, the pid numbers and the map
`RESOURCE`; the kernel's answer to `LOOP_CTL_GET_FREE` reserves nothing, and a
pid is looked up in `/proc` by one thread while another may reap it. *Failure*:
a guard may hang in a mount (the worker gives up after 2 s and kills it), report
an error, or vanish without a word; a worker fails by panicking, which skips
what it had left to do. *Ordering*: the `RockerCfg` of a guard reaches `RESOURCE`
only at the end of set-up, so a guard can be reaped before it is registered.
*Timeouts*: the client waits 3 s, the server up to 2 s for each of two datagrams.
*Restart*: `RESOURCE`, the queue and every descriptor end with the server, its
guards do not. *Limits*: every request leaves descriptors open in the server, and
a client near its own limit receives fewer than were sent.

What makes each component correct, in one line each:

- *pool and worker*: every queued request is finished, one client gets one
  sandbox and only a complete one, its own; what stays open is bounded.
- *guard*: a guard that is given up ends; while it runs it keeps the device it
  bound.
- *resource worker*: what a registered guard held is given back, once, and never
  another guard's device; the entry of a running guard stays.
- *restart*: the guards of two servers never run side by side.
- *loop devices*: a device serves one guard at a time.
- *codec, transport*: what is decoded is what was encoded, or a refusal; a refusal
  by the host changes it no more than it must.
- *guard name*: the name a client is told is the one `/proc` shows.
- *client entry*: the caller is not disturbed by what its child does, and is told
  how far it got.
- *semaphore*: one writer at a time, and nobody blocks for ever, so that a worker
  or a guard that fails does end.

PROJECT.json lists the components with the state of their modelling, and the
hazards, each at its line.

## 2. Modules

| module | models | constants |
|---|---|---|
| `LoopDev` | the loop devices as `core/src/loop` drives them | `LoopId`, `Req`, `None` |
| `RockerMaster` | receiving loop, pool, workers, guards, resource worker, end and restart of the server, and what they need of clients and kernel; EXTENDS `LoopDev` | `Pid`, `PoolSize`, `FdLimit` |
| `RockerService` | the promise: ask, grant or deny, build, lease a device, end, give it back | `Req`, `LoopId` |
| `ClientRole` | what server and client take each other for; `RockerMaster` and `ClientEntry` both implement it | `Req` |
| `RockerMasterInv` | the two inductive invariants of `RockerMaster` | |
| `RockerMasterProofs` | theorems about it: devices, generations, descriptors | |
| `RockerEntryProofs` | theorems about what clients are sent and `RESOURCE` keeps; `RockerMaster` implements `ClientRole` | |
| `RockerRefinement` | theorem: `RockerMaster` implements `RockerService` | |
| `GuardWatch` | the guard's last loop, its scan of `/proc`, and the processes of its namespace | `MaxPid`, `Period`, `Delay` |
| `GuardWatchProofs` | theorems about it | |
| `ClientEntry` | one call of `ROCKER_enter_rocker` and the error kind its Rust wrapper returns | |
| `ClientEntryProofs` | theorems about it; `ClientEntry` implements `ClientRole` | |
| `ReqCodec` | a request from the Rust wrapper through the C client to `req_parse` and `RockerCfg::new` | `Slots`, `Room`, `Word`, the values tried |
| `ReqCodecProofs` | theorems about it: decoding undoes encoding | |
| `SemLog` | error reports and the semaphore around them, with the theorems | `Thread`, `Guard`, `Server`, `SemMax`, `OpenFails` |
| `GuardName` | the names of guards and their comparison | `Client`, `Pid`, `Width`, `NameLen` |
| `GuardNameProofs` | theorems about them | |
| `MC...` | values and symmetry for TLC | |

`PROJECT.json` maps every definition to the lines it stands for. Operators keep
the source's names where there is one (`start_guard`, `registe_resource`,
`enter_rocker`). A definition introduced by "Faulty variant" is no part of the
model: it is the bug a run must be able to see.

### 2.1 The server: RockerMaster

One element of `Req` names a request together with its worker, its `RockerCfg`,
its guard and its client. The worker's place is `pc`: `idle`, `queued` (in the
pool's `queue`), `parse`, `init` (`RockerCfg::init` before `clone`), `loop_id` and
`errno` (waiting for the guard's two datagrams), `idmap`, `mnt`, `pid`, `user` (the
loop of `get_namespace_fds`), `register`, `send`, `close`, `kill` (the `SIGKILL` of a
set-up that failed), `refuse` (the answer of `check!`), `hung` (for ever in a
report), and `done`, `panicked` or `lost` (its server ended). The guard's place is
`guard`: `prep`, `get_free`, `bind`, `overlay`, `ready` (the watch), `pdie` (about to end
after an error), `zombie`, `reaped`. The reaper's place is `rpc`; from `clean` until it
is back at `wait` it holds the lock of `RESOURCE` (`ResourceLocked`), so no worker can
register meanwhile; if it panics there (`dead`) the lock is poisoned, every later
`registe_resource` panics (`RegisterPoisoned`), and nobody `wait`s any more; if its
report hangs there (`hung`) it keeps the lock. `off` means that there is no server.

*Reports.* Every error of a worker ends in `pdie`, every one of the reaper in
`_info!` (`Info`), and both call `p`, which `Reports` stands for. `semLog` is what of
`SemLog` matters here: `new` until a server has opened `SEM_LOG` with its first
report, then `ready`; or `stuck`, when that report found no descriptor for it, and
its thread and each that reports later wait inside the initialiser for ever. A
worker that hangs keeps its thread of the pool (`Busy`).

Two descriptors of one namespace are the same data, so `fds[r][ns]` is the guard
whose namespace worker `r` opened, `entry[r]` what its client was sent, and
`inherited[g]` the guards whose mount namespaces `g` was born holding, because
`clone` is called without `CLONE_FILES` while other workers have descriptors open.
A mount namespace exists while anybody holds it (`NsHeld`), and a device whose
`LOOP_CLR_FD` came while it was mounted is cleared then (`LoopAutoclear`).

Atomic are: one system call or one datagram, together with the local computation
up to the next one that another process can see. Three calls are kept together
where the steps between concern nobody else: the private mounts, the name and
`/proc` (`GuardPrep`); open, bind and mount of the package (`GuardMntLoop`, with
the failure between them in `GuardFails`); overlay and `unshare` (`GuardSeal`). A
timeout of two seconds may end a wait as long as no datagram has come
(`recv_timed_out`); what the guard does and sends between that and the `SIGKILL`
comes too late, so `SetupFails` and `KillGuard` are two steps. A client may stop
waiting at any time, a guard may die at any time (`GuardCrash`). Pids are reused as
soon as `wait()` has returned them (`FreePid`).

*End and restart.* `ServerEnds` may happen at any moment: threads, queue,
descriptors and `RESOURCE` are gone, guards and loop devices stay, and what the
guards were becomes the host's init's to reap (`InitReaps`). Every guard was born
with a copy of the server's socket, so the abstract address stays taken while one
lives (`AddressTaken`); `gen_server_socket` succeeds only after that. A client that
asks meanwhile is queued by the kernel, read by nobody, and waits its 3 s
(`SendUnread`).

*Descriptors.* `OpenFds` counts what requests hold in the server: a socket pair,
neither end of which is ever closed (`pair`), the namespaces (`fds`), and the
control device once it is open (`ctl`). What is opened and closed within one step
needs room only (`MayOpen`). `FdLimit` stands for `RLIMIT_NOFILE` less what the
server has open before the first request. `loop_unbind` would leave its descriptor
open if `LOOP_CLR_FD` failed (`master.rs:380-381`); that ioctl fails only on a device
that is not bound, and `ReleaseOwn` says that there is none such.

### 2.2 GuardWatch

What `RockerMaster` takes as one step, `guard_running_alone`, is here a listing of
`/proc`, pid by pid (`List`), followed by one `is_dir()` per entry (`Stat`), and a
decision. Processes of the namespace have a state and a parent: the application
is a child of the client's caller, outside; what it forks has its parent inside;
orphans become the guard's, who never calls `wait()`. Time is counted only while
the guard sleeps: `Period` is the sleep, `Delay` the longest a client needs after
`SUCCESS`. The code has 20 s against a client that gives up after 3 s, hence
`Delay < Period`. When `/proc` cannot be listed (`ReadDirFails`), `pnk!` reports and
panics, which ends the guard and all in its namespace (`panicked`), or the report
hangs (`hung`). The model leaves out processes put into the namespace from
outside later (`nsenter`).

### 2.3 ClientEntry

Caller and child have a place each; the child's are the calls of
`ROCKER_enter_rocker_inner` in order. Each may fail as its macro lets it, with the
error number of the code, after a report that needs the log's lock: `locked` says
that the lock was copied, by the fork, in the middle of another thread's report.
The pipe holds one result or nothing; `Writers` are the processes that have its
write end open. The server and the guard are an environment that does what
`RockerMaster` allows: answer, refuse, stay silent, grant a guard that is dead.
`arrived` is how many descriptors found room in the caller (the kernel cuts the
message and sets `MSG_CTRUNC`, which `recv_fd` does not look at); the rest of the
buffer is zeros. `full` says that the queue at the server's address has no room: the
socket is a blocking one without a time limit for sending, so `SendReq` waits as long
as that is so, and nothing bounds it (`QueueChanges`): the 3 s are those of `recv_fd`.
`res_convert` turns the number into the wrapper's error kind through the table the
wrapper writes down again (`metal`).

That the environment is the server is not left to prose: `ClientRole` names the
stations of a client, from `new` to `left`, and when it has a living process 1;
`RockerMaster` implements it for all its clients (`ServesClients`, also proved) and
`ClientEntry` for one call (`PlaysClient`), each with the other's moves as its
environment's.

### 2.4 ReqCodec

A string is a sequence of bytes, all of them the number of the field it was given
for, NUL is 0; so two fields that were swapped or a boundary that slipped show.
Machine integers are `Word` values with the upper half negative, and strings are
shorter than the largest of them (`CodecAssumption`). `recvfrom` cuts. `Ends` is
where the loop of `req_parse` has `u_idx` after each number, `Piece` the bytes
between two ends, `Given` the strings it does not pass over. `NilAssumption` says
that the marks for "nothing" are no strings, hosts or requests.
What was parsed meets one of all `Hosts`: does the user exist, the group, and what
is at the three paths (`Place`; `blocked` is where no directory can be made).
`RockerCfg_new` checks them in the order of the code and makes directories on the
way. A request without a group never gets that far, so `check_gid`'s branch for
`None` (`master.rs:296`) serves nobody.

### 2.5 SemLog, GuardName

`SemLog`: `count` is the semaphore, which outlives every process; a reporter that
waited in vain prints without it and posts all the same, one that panics or is
killed does not post; `strayed` remembers that either has happened. `once` is the
`Once` of the `lazy_static SEM_LOG` in each process: `new`, `running` or `ready`. Who
comes first runs the initialiser, the others wait for it. When `sem_open` fails
(`SemOpenFails`) the initialiser calls `pdie`, `pdie` calls `p`, and `p` needs `SEM_LOG`: the
reporter is back at `once`, which he himself has set to `running`. `clone` gives a guard
the server's `once` as it is at that moment, without the thread that works on it.
Either way `running` stays for good (`InitialiserLost`).

`GuardName`: bytes are NUL, SOH (which NUL is replaced by), white space, the
parenthesis that closes a name in `/proc`, or other; a counter has `Width` of them,
a name `NameLen`. `get_process_name` reads the line as `scanf` does, so a name with
white space in it is cut, and a parenthesis at its end is taken for the one behind
the name. `fetch_sub` wraps, and refused requests use numbers up too. `Restart` begins
the counter anew, once the guards of the old server are gone. `Compare` is no action
but what a client finds if it compares in a given state. `LateName` is a name with
white space behind its second byte: the counter of one server reaches the first of
them after 223 * 2^16 requests.

## 3. Runs

| run | question | answer |
|---|---|---|
| `master_safety` | may concurrent requests, crashes, restarts, reaping and pid reuse share a device, drop or confuse a sandbox, or cost more descriptors than they should? | no; clients get their own sandbox, and entries stay, until a pid is reused |
| `master_liveness` | does everything end? | yes: requests, unless `SEM_LOG` cannot be opened; guards given up; devices of registered guards |
| `sandbox_gone` | is a sandbox gone with its guard? | no |
| `stopped_released` | is what a stopped guard held released? | no, if it was not registered |
| `guard_watch` | does a guard wait for its client, see everybody, and end? | yes, if nobody leaves orphan zombies |
| `guard_watch_orphans` | ... whatever they leave? | no |
| `client_entry` | is the answer of the call true, does it say how far the call got, and does it come? | yes, while the child lives, was not forked inside a report, and finds room for its request |
| `client_entry_child_dies` | ... whatever happens to the child? | no |
| `req_codec` | is what is accepted what was asked, and what suits the host; what does a refusal leave behind? | yes; directories at most, and those only for a user and a group the host has |
| `sem_log` | do reports exclude each other, and never block? | until somebody strays; never, unless the initialiser of `SEM_LOG` is lost |
| `sem_open_fails` | does `pdie` end in a panic? | no, if `sem_open` fails |
| `guard_name` | when can a client take another's guard for its own? | only when that guard's name is a late one |

The properties, in words and with the code they are about, stand in the modules.
Those of `master_safety`, by the danger they are about:

- *devices*: `LoopExclusive`, `ReleaseOwn`; *whose sandbox*: `EntryIsOwn`,
  `GrantedRegistered`; *what the map keeps*: `NoLiveEntryDropped`;
- *restart*: `OneGeneration`; *descriptors*: `LeakBound`;
- *the promise to clients*: `ImplementsService`, `ServesClients`;
- *what the proofs rest on*: `TypeOK`, `IInv`, `EntryInv`.

**Bounds.** *master*: two requests are what every race here needs: one that
clones while the other's descriptors are open, one that registers while the
other is reaped, one that takes the device or the pid the other has given back,
one of a server that ended and one of the next; two devices and two pids let each
of these be the same or different. `PoolSize` is the code's 4 in the safety run, 2
in the liveness run, where one of two requests has to queue. `FdLimit` is 12 in the
safety run, one more than two requests can cost by `LeakBound`, so the bound and
not the limit is what holds; it is 7 in the liveness run, where a failed request
leaves too few for the next. Requests, devices and pids are interchangeable, so the
safety run uses symmetry; liveness is checked without, with one device.
*guard_watch*: three processes besides the guard: an application, its child, and
one that gets a number used before. *client_entry* is finite by itself.
*req_codec*: an `int` of three bits, a buffer of 10 bytes behind the numbers, two
slots for up to three overlay directories, strings of 0 to 2 bytes: every sum of
lengths below, at and above the buffer occurs, and every host is met. *sem_log*: two
threads of a server and two guards, so that each kind of process meets itself and
the other, a largest count of 2, and a `sem_open` that may fail; the violated run
needs one thread. *guard_name*: two clients and one pid, which each may be given; a
counter of three digits to the base five, all 125
values, white space, NUL and the parenthesis among them in each place, and round
again when it is used up.

**Deadlock** is checked in the master, semaphore and name runs; elsewhere the
modelled activity has an end (a call that returned, a guard that exited, a request
that was parsed).

**Fairness.** In `RockerMaster` the threads of the server run, `wait()` sees every
dead child, the host's init reaps the guards of a server that ended, the kernel
clears idle devices. Each is weak: no step of a worker needs more, since
`registe_resource` waits for a lock whose holder lets go, dies of it, or hangs in a
report, and what hangs in a report has no step. Nothing is assumed of guards: one
may hang in a mount, in `pdie` on a lock that `clone` copied (`PdieEnds`), or stay for
ever because of orphan zombies (`guard_watch_orphans`). Nor is anything of crashes,
clients, the end of the server or its restart. In `GuardWatch` the guard's loop runs,
and every parent but the guard waits for its children. In `ClientEntry` caller and
child run, the server need not. In `SemLog` a reporter that is alive runs, but only
within a report.

The liveness properties say themselves where they end. `RequestAnswered` counts a
worker that panicked or was lost with its server as at rest, and says nothing once
`SEM_LOG` is stuck. `KilledGuardReaped` speaks of guards a worker gave up, whose
`SIGKILL` is a step of the worker, and leaves a zombie to a `resource_worker` that has
panicked or hangs. `LoopReleased` needs a server, its `resource_worker`, one descriptor
to open the device with, and numbers that were not reused. `CallReturns` needs that
the queue at the server's address does not stay full. `ReleasedUnlessOrphans` does
not speak of a guard that hangs in the report of a failed `read_dir`, `NobodyStuck` not
of a process that has lost the initialiser of `SEM_LOG`.

## 4. Findings

Each of the five violated runs is a statement of the repository that its code
does not keep; `PROJECT.json` quotes both.

1. *A sandbox outlives its guard* (`sandbox_gone`). A guard is cloned with copies
   of all descriptors the server has open at that moment, other guards' mount
   namespaces among them, and keeps them until it exits.
2. *A guard that stops early leaks its device* (`stopped_released`): its number is
   in no `RockerCfg` the resource worker can find.
3. *Orphan zombies keep a sandbox for ever* (`guard_watch_orphans`): process 1 does
   not wait.
4. *A caller can hang for ever* (`client_entry_child_dies`): it holds the write end
   of the pipe it reads.
5. *Who reports an error may hang* (`sem_open_fails`). A server whose first report is
   about a lack of descriptors cannot open `SEM_LOG` then; the initialiser calls
   `pdie`, and `pdie` waits for the initialiser. The worker hangs instead of panicking,
   and each later one that fails hangs behind it, until the pool has no thread left.

Observed in the same models, without a run of their own:

- *The server runs out of descriptors.* A delivered request leaves two open, any
  other up to five (`LeakBound`): whatever happens, a server survives
  `(FdLimit - 1) \div 5` requests for which a guard is cloned, and no more than half
  of `FdLimit`. From then on every request is refused, and `loop_unbind` fails as well, so devices
  stay bound although their guards are reaped.
- *A guard that failed may stay*: cloned while another thread is in the initialiser
  of `SEM_LOG`, it cannot report, and the server does not kill a guard that has
  answered with an error (`PdieEnds` fails with a guard and `OpenFails = FALSE`, too).
- *A panic of `resource_worker`* ends all sandboxes to come: each later worker gets
  as far as `registe_resource`, panics, and answers nobody (`RegisterPoisoned`).
  Opening `/dev/loop-control` for the first time without a descriptor left is
  enough.
- *A server cannot be restarted while a guard of the last one lives*, although it
  sets `SO_REUSEADDR` (`main.rs:217`); that is also what keeps two generations
  apart (`OneGeneration`). Until then requests are sent without an error and
  nobody reads them. The loop devices of those guards are never unbound.
- A client can be sent another guard's namespaces once pids are reused
  (`EntryIsOwn` without its premise fails).
- An application forked between the listing of `/proc` and the look at its
  parent's entry is killed with a guard that takes itself for alone
  (`SteadyProcessSeen` cannot be made `victims = {}`).
- `check_path`, of which the comment at `master.rs:303` says only that it checks,
  makes the two directories before it looks at the package, and leaves them behind
  when it refuses.
- Two successive guards in 256 have equal process names, and so have those of two
  servers, although `lib.h:16` promises none; a name whose second byte is white
  space makes `ROCKER_get_guardname` end the process that calls it (`Compare` is
  "aborted").
- *A client never recognises its guard*: eight bytes are sent, the process has
  fifteen (`guard_set_self_name` runs in the clone, `master.rs:473`), so the careful
  clean-up of `README.md:110-114` never kills anything. This is `NamesDiffer`.
- ... *but may take another's guard for its own*, past 223 * 2^16 requests to one
  server (`Compare` without the exception of `MistakenOnlyLate` fails): the guard's
  name is a byte, a parenthesis and white space. `scanf` stops there, the parenthesis
  is stripped, and what is left equals a name that ended at a NUL second byte when
  it was sent. Nothing ends a server before that.
- A request without a gid, or with an id above the largest int, is refused,
  although the wrapper's type allows both (`CanAsk`).

## 5. Proofs

All theorems hold for every value of the constants the named assumptions allow,
and all proofs are checked to the last leaf.

*RockerMaster.* `IInv` (in `RockerMasterInv`) is inductive: `Init => IInv` and
`IInv /\ [Next]_vars => IInv'`, one step per action, one below for each conjunct the
action can disturb. `LoopExclusive` alone is not inductive: a guard past `bind`
keeps its device only because nobody unbinds it, that is, because what the reaper
cleans is the device of a guard whose `RockerCfg` it took from the map (`CfgInv`),
which knows its own device (`WorkerInv`, `GuardInv`), still bound to it
(`OwnedInv`), and a marked device is cleared only when its guard has ended
(`BindInv`). Pids matter only while their holders are unreaped (`PidUnique`), so
the argument does not mind reuse. `OneGeneration` needs that a new server starts
only when no lost guard runs (`GenerationInv`), `LeakBound` that descriptors belong
to requests that have begun and not been delivered (`FdInv`), and then counts: it
is the one theorem that asks for a finite `Req`. From `IInv` follow `TypeCorrect`,
`Exclusive`, `ReleasesOwn`, `Generations` and `Leaks`. `Refinement` maps `client`,
`guard` with `sealed`, and `bind` to `RockerService`'s three variables and shows
that each action is one of its actions or a stutter; `Grant` needs `WorkerInv` (a
worker that sends has heard `SUCCESS`), `Up` and `Return` need `BindInv`.

*What clients are sent.* `EntryInv` comes on top of `IInv`. `NamesInv` needs no
premise: whoever a descriptor refers to exists, and a reply is complete. `OwnInv`
holds until a pid is reused: what `get_namespace_fds` opens under `/proc/<pid>` is
the worker's own guard (`OwnFds`), a `RockerCfg` stays in the map from
`registe_resource` until its guard is reaped (`OwnReg`), and the number between
`wait()` and `remove()` is a reaped guard's (`OwnReaped`). The lemma `StillUnused`
carries the premise back over a step: a guard gets its number once, so numbers that
all differ after a step did before. From it follow `EntryOwn`, `GrantedKept`, and
the action property `EntriesStay`, which needs `CfgInv` too: only the own number
leads to an entry. `RoleRefinement` shows `ServesClients`; that a client who enters
finds a guard needs `NamesInv`, and that a new guard brings no old client to life
needs that nothing refers to a guard that was never cloned.

*GuardWatch.* `SteadyProcessSeen` needs an invariant about a look in progress: a
process that lives and is not `fresh` is still to be listed, is listed, or has
already made `res` false. `ClientNotForestalled` needs that a guard past its first
look has slept `Period` seconds, all counted in `age` as long as they matter.

*SemLog.* While nobody has strayed the count is 1, or it is 0 and somebody prints,
whatever becomes of the initialisers.

*ClientEntry.* `IInv` follows the result back to the child that wrote it.
`PlaceInv` ties the places of caller, child and server to each other; `EnteredInv`
says that the child has entered exactly the namespaces before its place in `NS`,
and that nobody has entered any without a grant; `ErrInv` what is known when each
error number is set, `AppInv` where an application runs, `PipeInv` that what is in
the pipe is the child's last word, and `ResultInv` that the caller returns that or
its own. `KindTrue` adds the table of the wrapper: one case for each number. The
invariant is needed whole: `SuccessMeansInside` speaks of a result and an
application that no single step relates. `RoleRefinement` shows `PlaysClient`, one
case for each action; so the two halves of a call, `ServesClients` and
`PlaysClient`, are now both proved, the one for any number of clients, the other
for each.

*GuardName.* No invariant over time is needed but one that says where names come
from: what a client holds is `CStr(ne_bytes(n))` and what a pid has is
`guard_set_self_name(m)`, for some integers `n` and `m`, however they came about.
`NamesDiffer` is the argument, by length: what is sent has at most `Width` bytes
(`SentName`), what is shown has more, because a name has `NameLen - 1` bytes, none of
them NUL, of which white space takes away at most the first two, or leaves one byte
at most, which is refused (`ShownName`); unless there is white space further on,
where the name is cut short. It says more than `MistakenOnlyLate` asks for: the
names differ even when the guard is the client's own, so that the client does not
recognise it (section 4). It assumes `NameAssumption`, the sizes, and nothing else;
that the exception for late names is needed TLC shows.

*ReqCodec.* `RoundTrip` is the theorem: for every number of slots, size of buffer
and width of an `int`, `req_parse` of what arrives is the request that was asked,
when it `CanAsk`, and `Refused` when not. It is a statement about loops over
sequences, so it needs induction: `Induction` is stated of a set of numbers, not of
a predicate, and proved from the least counterexample; `Recursion` builds the
function that a step and a start define, from which `EndsValue` and `FlattenValue`
get the recursion equations of `Ends` and of the joined message. `Pieces` is the
heart: between two ends lies exactly the string that was put there, whatever the
others are. `IovValue` says that the length sent with a string is the number of
its bytes in the message, NULL and empty ones included, where `1 + (-1)` as a
`size_t` has to come to 0. `PackedValue` and `PathsValue` put them together, with
the cut of the buffer noticed by `Fits`; `CanAskValue` says in terms of the request
what the test for zeros refuses. The invariant is then short: `wire` and `cfg` are
functions of `req`, nothing is held against the host before it is decoded, and
`check_path` leaves a host that suits or one that does not (`NewHost`).

Assumed are only the facts about constants that the modules name. Most are sorts
and sizes. One says something about the world: strings are shorter than the largest
`int` (`CodecAssumption`; no path the kernel takes comes near). `NilAssumption` keeps
the model's marks apart from its values.

Only model-checked: the liveness properties `RequestAnswered`, `KilledGuardReaped`,
`LoopReleased`, `ReleasedUnlessOrphans`, `CallReturns` and `NobodyStuck`, which rest
on fairness and are out of the prover's reach. Every safety and action property of
a passing run is a theorem.

## 6. Plan

Done: the core (`LoopDev`, `RockerMaster`, `RockerService`, invariant, refinement),
then, outward, the guard's watch, the client, codec, semaphore and name; then the
end and restart of the server, its descriptors, the poisoned lock, the host checks
of `RockerCfg::new`, the wrapper's error kinds, the composition of server and
client by `ClientRole`, the proofs about what clients are sent, and
those about a client's call, the names of guards and the codec.

What could be added:

1. `guard_running_alone`, one step in `RockerMaster`, implemented by `GuardWatch`.
   For safety it is: a guard that ends too early is `GuardCrash`.

Not modelled, and why:

- *The text of reports, `ChainedError`, the error kinds, build scripts, tests*: no
  state that a property could tell apart.
- *The bytes of the reply's ancillary buffer* (`fte_init`): sizes and alignment of
  C structures; the message is modelled as a pid and the descriptors that arrive.
- *Paths.* They are opaque. So are the overlays: one over a directory above
  `app_exec_dir` hides the package, which was mounted first (`master.rs:448`), and
  two sandboxes of one application share upper and work directories
  (`master.rs:429`), which the kernel's documentation calls undefined.
- *A second semaphore.* `SEM_LOG` is a file under `/dev/shm`; an overlay over `/dev`
  would give a guard another one. `SemLog` has one for all.
- *Client helpers off the client's path*: `read_file`, `copy_file`, `remove_all`,
  `sock_connect`, `proc_new`, log rotation. `return_err_if_err___` (`log.h:82`)
  evaluates its operation once to test it and again to use it, but its callers are
  these helpers (`namespace.c:80`, `io.c:124-126`).
- *The intermediate child* of `ROCKER_enter_rocker` is never waited for
  (`lib.c:164`) and stays a zombie of the caller: nothing the models have depends
  on it.
- *The rest of `utils.c`* (`ncpu`, `proc_exit_num`, the caller's own process name):
  wrappers of one libc call, not on the client's path.
