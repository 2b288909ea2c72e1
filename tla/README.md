# Verification of hop-sdk-go

TLA+ models of the Go SDK for Hop and of the scripts and the workflow that
release it, TLC configurations that check them on small instances, and TLAPS
proofs that hold for every instance.  `PROJECT.json` lists the runs, the
mutants, the theorems, the hazards and, for every definition that models code,
the source lines it models.

    tlc -workers 2 -config EndpointSafety.cfg MCEndpointLifecycle.tla
    tlapm EndpointLifecycleProofs.tla

## The system

An `Endpoint` owns one node of libhop, a C library with the protocol in it, and
a pump goroutine.  The SDK hangs on those two.  The repository is a mirror:
its tree is exported from a directory of the canonical repository `hopmesh/hop`, and
a version tag pushed to it starts `release.yml`, which publishes the module with
native libraries that a workflow of the canonical repository has built.  The
scripts of both sides (`native/native-artifacts.py`, `.github/*.py`) are here.

| Component | State | Operations | Talks to |
|---|---|---|---|
| Endpoint life cycle (`endpoint.go`) | `nodeMu`, `closed`, `done`, `closers`, the node | `New`, `withNode`, `registerCloser`, `Close`, `pumpLoop` | libhop under `nodeMu`; bearers through hooks and send functions |
| Link registry (`endpoint.go:319-336`) | `links` under `mu`; the core's own set of links | `registerLink`, `deliver`, `linkDown` | called by every bearer; read by the pump |
| Client calls (`endpoint.go:251-317`, `394-405`) | `pending` under `mu`, a one-place channel per call, the core's durable response queue | `RequestTimeout`, `AcceptServiceResponse`, the response half of `pump` | callers and pump meet in `pending` and the channel |
| Service dispatch (`endpoint.go:180-238`, `369-393`) | `handlers` under `mu`, the core's durable request queue | `On`, `AcceptServiceRequest`, `RejectServiceRequest`, the request half of `pump` | runs application handlers on the pump goroutine |
| WSS bearer (`wss_bearer.go`) | per connection: a socket and `closeOnce`; per server: slots, leases, permits | `pumpConn`, `dialWss`, `wssHandler`, the HTTP admission | one reader goroutine per connection; the pump writes |
| TCP and in-process bearers (`tcp_bearer.go`) | `conns`, `closing`, sockets | `Listen`, `Dial`, `recvLoop`, `sendFramed`, `ConnectInProcess` | the same seam |
| Discovery (`discovery.go`) | none | `Attach`, `Resolve`, `DialByName` | HTTP, then a bearer |
| cgo bindings (`hop.go`) | none but handles for callbacks | one method per C function | libhop |
| hop-install (`cmd/hop-install/main.go`) | `dest`, `dest.previous` and staging directories on disk | download, verify, extract, replace | HTTP, the file system |
| Native artifacts run (`native/native-artifacts.py`) | partial artifacts by group and attempt, the bundle of an attempt | `authorize-ci`, `pack`, `create-manifest`, `download-partials`, `verify*`, `download-github` | the CI run and the artifacts of a commit, through GitHub's API |
| Release of the mirror (`release.yml`, `release-provenance.py`, `release-artifact.py`) | outputs of jobs, artifacts of the run, the GitHub release | prepare, build, publish | canonical CI and native run; artifacts by name |
| Package export (`package-export-smoke.py`) | none: trees in, trees out | `expected_export_tree`, `go_module_files`, `validate_go` | called by both of the above |

What is hard about it:

* three kinds of goroutines (the pump, one reader per connection, any number of
  application goroutines) share one node that `Close` frees;
* `Close` runs hooks outside the lock, and those hooks call back into the
  endpoint and wait for each other through `sync.Once`;
* the pump polls queues that a poll does not consume, acts on what it copied
  after the lock is gone, and runs application code in between;
* answers, timers and `Close` race for every call;
* requests outlive the process, and their acceptance is a separate step;
* the installer may die between any two renames, and its runs do not exclude
  each other;
* a release reads two other repositories' runs in several calls while anyone may
  re-run them, in full or in part, and is itself re-run from any failed job, with
  outputs and artifacts of earlier attempts;
* the script that verifies the mirror is a file of the mirror, and so is the map
  that says what the mirror should hold.

What makes each component correct:

* life cycle: nothing touches the node while or after it is freed; teardown
  happens once, loses no hook, comes to an end, and leaves no goroutine behind;
* link registry: a link the core knows has a send function until it is closed,
  and a closed link never comes back;
* client calls: an answer reaches its caller, exactly that one, or stays
  queued; nobody waits for ever; the pump is never blocked by a caller;
* dispatch: what is acknowledged was done; what failed is redone; one bad
  request does not stop the others;
* admission: what is acquired is released once, and in the end; a socket
  without a slot reaches no handler; a link's reader always has a deadline;
* TCP: packets arrive whole and in order; no socket or goroutine outlives its
  endpoint; two endpoints that fill each other's sockets do not stop;
* installer: the destination is whole or absent, holds only what was signed for the
  version, and an installation is there under one of two names at every moment;
* native run: authorized by CI's latest attempt and no other; a bundle has the
  newest build of each group;
* export: the mirror is what the canonical tree and map make of it, path by path;
* release: what is published is what one build packed, from a green commit and
  from one attempt of its native run; artifacts of earlier attempts neither take
  the place of this one's nor stand in its way.

## The modules

| Module | What it is |
|---|---|
| `NodeContract` | what `hop.h` asks of the owner of a node handle: one `free`, alone |
| `EndpointLifecycle` | the goroutines of an endpoint and of its WSS connections, step by step |
| `MCEndpointLifecycle` | its instance for TLC |
| `EndpointLifecycleProofs` | its proofs |
| `RequestReply` | what `Request` promises |
| `ServiceCalls` | `RequestTimeout`, the pump's response half and `Close` |
| `MCServiceCalls`, `ServiceCallsProofs` | instance and proofs |
| `RequestQueue` | what `hop.h` promises of a queue of requests that is worked off at least once |
| `ServiceDispatch` | `On`, the pump's request half, acceptance and rejection, restarts |
| `MCServiceDispatch`, `ServiceDispatchProofs` | instance and proofs |
| `HttpAdmission` | slots, leases, permits and deadlines of an `HTTPServer`, from accept to teardown |
| `MCHttpAdmission`, `HttpAdmissionProofs` | instance and proofs |
| `PacketPipe` | what one direction of a TCP link promises |
| `TcpFraming`, `MCTcpFraming` | `sendFramed` and `recvLoop` byte by byte, and its instance |
| `TcpBearer` | `Listen`, `Dial`, the readers, the pumps and `Close` of two endpoints |
| `MCTcpBearer`, `TcpBearerProofs` | instance, and the proofs of both `TcpBearer` and `TcpFraming` |
| `HopInstall` | runs of `hop-install` over one version, with failures and crashes |
| `MCHopInstall`, `HopInstallProofs` | instance and proofs |
| `SourceCI` | the CI run of a canonical commit, with re-runs: what the scripts take for granted |
| `CanonicalRuns` | what a release may rely on about CI and the native run of a commit |
| `NativeRun` | `authorize-ci`, the groups' partial artifacts and `download-partials`, over attempts |
| `MCNativeRun`, `NativeRunProofs` | instance and proofs |
| `NativeBundle` | archives, manifests, signatures and statements: what is packed and what is verified |
| `PackageExport` | the export of a component, the comparison of trees and the module's zip |
| `ReleasePipeline` | a push of a tag, the run of `release.yml` and its re-runs |
| `MCReleasePipeline`, `ReleasePipelineProofs` | instance and proofs |

`EndpointLifecycle` refines `NodeContract` (`Contract`), `ServiceCalls` refines
`RequestReply` (`Promise`), `ServiceDispatch` refines `RequestQueue`
(`AtLeastOnce`), `TcpFraming` refines `PacketPipe` (`Reassembles`),
`NativeRun` refines `CanonicalRuns` (`ImplementsContract`), and
`ReleasePipeline` is composed of `CanonicalRuns`, `NativeBundle` and
`PackageExport`: it runs against what `NativeRun` is shown to promise. A module
ends with its properties; operators marked "Mutant" are plausible bugs, each of
which some property catches (the pairs are in `PROJECT.json`), and are used by
nothing else.

### EndpointLifecycle

`pc[t]` is the next step of goroutine `t`.  A libhop call is `Enter` (lock, see
that the endpoint is open) followed by a step that returns from it, so that the
calls of other goroutines, and `free`, can fall in between; `Refuse` is
`withNode` on a closed endpoint.  `closeLink` is a subroutine: `target[t]` is
the link it works on and `ret[t]` the step that called it, which is a failing
read, a failing write on the pump, a hook run by `Close`, or `registerCloser`
on a closed endpoint.  `sync.Once` is `once[l]`, with the waiting of a second
caller (`OnceSkip` is enabled only when the first is done).  The release of the
connection's HTTP permit, the last thing the once does, keeps no state here.
The pump's batch is a number (`reqs`), and what a handler does is one of reply,
`Close`, return or panic; the other two modules look at requests and answers.
Critical sections of `mu` are atomic: nothing blocks inside them.

The lock around `free` in `Close` (`endpoint.go:427`) turns out not to be what
protects the node from new calls: `closed` is set in an earlier critical
section, so a call in flight has ended before the hooks run and none begins
afterwards.  The model keeps it as it is.

### ServiceCalls

A call is made once; its request id is its name.  `nodeMu` is only the holder
between sending and registering: every other critical section is a single step.
The core's response queue is `rows`: `Poll` copies it, `AcceptResponse`
consumes from it.  Calls in `Nested` are made by a handler, that is on the pump
goroutine: `Served` waits for them.

### ServiceDispatch

Requests are names, in the core's durable `queue` until accepted or rejected.
`Restart` clears everything but that queue and what was accepted.  A handler may
settle its request itself, and may leave it to another goroutine (`deferred`).
The order of a batch is left open.  `finished`, `rejected` and `excused` record
what happened and influence nothing.  The acceptance by the pump may always fail
(`SettleFails`): the code ignores its result.

`RequestQueue` is what all of this comes to: a request is handed out at most once
for each look at the queue, leaves it only by the hand of someone to whom it was
handed, and is acknowledged only when it is done.  `InHand` are the requests of
the running handler and of the goroutines it left work to.  A look may be old when
it is used: `HandOut` does not ask whether the request still waits, because the
pump does not.

### HttpAdmission

`pc[c]` is where the goroutine of socket `c` is in its HTTP request; `link[c]` is
the link that came of an upgrade and runs beside it.  net/http and the
WebSocket library appear as the callbacks they make (`StateNew` in the accept
loop, `StateHijacked`, `StateClosed`) and the deadlines they set: `deadline[c]` is
who set the socket's deadlines last.  A lease is released in two steps, because
its entry goes under the admission's lock and its token after that (`giving`).
The lease's timer is `AfterFunc`: it fires first and closes the socket in a
goroutine of its own, and `Stop` comes too late for a timer that has fired.
`sync.Once` and the lookup in `leases` come to one condition, `c \in leases`.
The `/_hop` handler releases by `defer`, that is after its link has begun to run
(`Detach`).  HTTP/2 is left out (the server does not configure it, and a hijack
needs HTTP/1.1); so are the previous `ConnState` and `ConnContext` of the
server, which are only called through.  The upgrade's own response is assumed to
be written: the library gives it a deadline only if `HandshakeTimeout` is set.

### TcpFraming and TcpBearer

`TcpFraming` is one direction of a stream, with bytes: `rest` is what a
`conn.Write` has yet to write, `onWire` what is on its way, `got` what `io.ReadFull`
has read.  A write may fail in the middle of a frame; nothing is written after
it, because a socket that has failed stays failed.  The mutant of `WriteBreaks` is a
write deadline, which would break just that.  The base of a byte is a constant;
the header is the code's four bytes, written by `Shift` and read by `Announced`.
Its definitions have names of their own (`StreamInit`, `StreamSpec`), because
`TcpBearerProofs` extends both modules.

`TcpBearer` is the control around it, for two endpoints and the connections
between them, with a frame as a unit.  An accepted connection is registered by
the accept loop, which is therefore busy until `Register`.  A connection is
established, and can be written to, before it is accepted (`Backlog`).  The hooks
run in any order, but for Listen's two, where the listener's comes first.
`registerLink`, `linkDown`, `deliver` and the pump's drain are one step each:
`EndpointLifecycle` has what is inside them.

### HopInstall

`pc[i]` is the next step of run `i`.  A directory is a set of files and a name is
`dest`, `backup` (`dest.previous`) or the run's own staging directory; a run that
died leaves that one behind for good, under a name nobody meets again, so the
model drops it.  What an archive or a manifest may hold is chosen when it is
read: four kinds of manifests, and archive entries that match the inventory or
do not.  A local bundle may therefore change after `verifyFile`.  `os.RemoveAll`
opens the directory and removes file by file through it: `hand[i]` follows a
directory that another run renames meanwhile.  `os.Rename` refuses a target that
exists.  Every call may fail (`Rejected`, `Fails`), and the process may die
anywhere (`Crash`), until the environment's `calm`, which only the liveness property
uses.  `overlap` and `fault` record what happened and influence nothing.  On macOS
a tool rewrites the library's install name in the staging directory; only its
failure is here.

Two things the code does that the model shows and no text of the repository
speaks of.  `dest.previous` is removed without looking for the ownership marker.
And runs over one version do not exclude each other: two of them
may fail each other for ever, can lose the installation if one also
meets trouble, and three can without any (one restores the backup
while another is emptying it).

### SourceCI, CanonicalRuns and NativeRun

`ci` is the CI run of one commit: its attempt and the latest result of each
job.  A re-run repeats any set of jobs and the gate, which needs them all; only
jobs of `AlwaysJobs` are never skipped.  `stamp[j]` is the attempt GitHub shows
for job `j`; after a partial re-run a job that was carried over may show its old
attempt or the new one, and the model has both.

`authorize-ci` is four calls: the run is looked up (`SelectRun`), waited for
(`WatchRun`), looked up again (`QueryAgain`, which keeps its attempt in `seen`),
and its jobs are read (`ReadJobs`).  CI may be re-run between any two.  What
makes the last two agree is that `validate_ci_authorization` compares the
attempt of each job it reads with `seen`: the gate is repeated by every re-run,
so a re-run that came in between shows.

`GroupBuilt(g)` uploads the partial artifact of group `g` under the attempt, and
`Assemble` is `download-partials` and the upload of the attempt's bundle.
`Rerun` is what GitHub does: in full, the failed jobs, or one job, and always
what needs them.  That is why a group's newest partial may be older than the
attempt.  Artifacts expire.  The jobs of the canonical native workflow are
external: its file is not in the repository. `cleared` and `last` record what
happened and influence nothing.

`CanonicalRuns` forgets all of this but the status and the attempt of the native
run, the bundles that can be had, and that nothing succeeds before CI was green.

### NativeBundle and PackageExport

Pure operators over trees, archives and directories.  A digest is what was
digested, and a signature a copy of the manifest it was made over (`seal`):
hashes and keys are taken to do their work.  A file of a native run is named by
its target, its attempt, and whether it was altered since; its contents are
`Packed` from a build's output and read back through `Entries` and `Extracted`.
`create-manifest` runs on packed archives, so `Listed` reads the inventory from
the file whose digest the manifest has.

`ExpectedExportTree` moves files as `add_tree` and `add_file` do, and
`replace_text` where a component has a replacement.  The components whose
branches are here are those of the current allowlist that one repository can
hold; the branches for retired ones (Elixir, Rust, Android) are not.  Whether
the package export itself is the map's inverse is not asked: `MirrorIsExport`
compares with the same function that the code calls, under the canonical map
instead of the mirror's.

### ReleasePipeline

`push` is the number of a push in a table of kinds (`Push`): what the tag names,
the mirror's tree and the source's.  It never changes: a tag is pushed once.
`release.pc` is the step of the running job, `release.job` how each job stands,
`facts` the outputs that jobs hand to later ones, `work` the disk of the runner,
`store` the artifacts of the run by name, and `published` the release.  A job is
a sequence of steps; `Check` is a script that fails if something does not hold,
and `verdict` records whether a failure was that or the environment's.
`download_github` is two steps, because its calls are: the comparison of the
run's attempt (`DownloadGithub`), and the listing and download of the attempt's
artifact (`FetchBundle`); the native run may be re-run between them, as it may
before the first.
`Received` is a directory after a transfer: as it was, or with its manifest, its
statement or an archive altered, or an archive missing.  `RerunFailed` starts at
the job that failed with the outputs of earlier attempts, `RerunAll` afresh;
artifacts stay. `CanonicalStep` runs the other repository meanwhile.

Abstractions.  `Assets` are the targets the workflow publishes; the other
targets of a bundle (embedded, mobile) are in `Targets` but not in the
instance.  The zip of the sources is made from the tag's own commit: whether its
inspection passes, before anything is packed, is `SourceZipClean`, and the zip
itself is not among the files of the release.  The two manifests are uploaded together in `CreateFails`.  `validate_go`'s
runs of the go tool are the failure of the build job (`RunnerFails`).  The
attestation of the assets adds nothing to the release's files. `TagRequired`
says which command line is modelled: the one whose parser demands a tag, as the
code's does, or the one the workflow's comment describes (`verify_release`
itself takes a tag or none).  Only the first is the code at this commit, and
`ReleaseTag` takes it: every prepare job fails there, and nothing is published.
The `Release` run takes the second.  What it shows of the steps before
`VerifyBundle` (`SourceWasGreen`, and that only an export gets past the
comparison of the trees) is shown of the code as well; what it shows of the
steps after it is about a workflow whose parser has been repaired, and no
property claims that a legitimate tag is published today.  The theorems hold for either value.

What the model shows and no text promises otherwise.  The build verifies the
archive of its own host and copies the others, and does not verify the statement
again: a file that is altered between prepare and build is published as it is,
and it is `hop-install`'s own verification that protects whoever installs it.
`HandedOnWhole` therefore claims all of the bundle when prepare hands it on, and
`PublishedAsBuilt` its manifest, its signature and the host's archive.  A re-run of all jobs after a release was published replaces its
files.  A publish that failed halfway leaves a mixture until a publish job
finishes.

## The runs

| Run | Instance | Question |
|---|---|---|
| `EndpointSafety` | 2 connections, 2 applications, a batch of 1; 465,000 states | teardown once, no hook lost, no closed link back, no packet dropped, no circle of waiting, the contract |
| `EndpointLiveness` | 1 connection, 1 application, a batch of 1; 6,200 states | `Close` returns; a closed endpoint winds down |
| `Calls` | 2 outside calls and 1 nested; 24,000 states | routing, leaks, the promise; calls return, answers wake, the pump resumes |
| `Dispatch` | 3 requests, 2 services, 1 poisoned; 39,000 states | worked off at least once; reruns have a reason; poison |
| `Admission` | 2 sockets, 1 slot, 1 permit; 22,500 states | tokens are given back once, and in the end; overflow; the reader's deadline |
| `AdmissionRequestsTimed` | the same | finding: a handler runs without deadlines |
| `Framing` | packets of 0, 1, 2, 5 and 6 bytes, limit 5, 9 bytes in flight; 95,000 states | frames are reassembled |
| `Tcp` | 1 connection, 1 frame in flight; 175,000 states | sockets and goroutines end; pumps resume |
| `Install` | 2 runs of the installer, a release of 2 files; 400,000 states | whole or nothing; never lost; later runs recover |
| `Native` | 2 groups, 3 CI jobs of which 2 authorize; CI runs twice, the native run three times; 614,000 states | authorized by the latest attempt; the newest builds bundled; the contract |
| `Release` | 19 kinds of push, 2 CI jobs, 2 targets; every run at most twice; the parser repaired; 398,000 states | the mirror is the export; the source was green; handed on whole; published as built; no upload refused; a failed publish can be repeated |
| `ReleaseTag` | the same, with the parser as it is | finding: a bound bundle is rejected |

Why the bounds suffice.  Two connections and two applications give every pair of
goroutines that can meet: two hooks in one `Close`, two `Close` calls, a hook
late and a hook early, a write to one link while the other closes.  The pump and
its handler are there once, as in the code.  With a batch of 1 every step of the
handler is reached from every state of the others.  In `ServiceCalls` two
outside calls meet in the pump's batch, and a nested one keeps the pump from
them.  In `ServiceDispatch` a poisoned request, a good one beside it on the same
service and one on a service whose handler comes later are the cases of the
pump's loop. In `HttpAdmission` a second socket is what a lost or doubled token
would hurt: with one slot and one permit each is at its limit as soon as one
socket has it. In `TcpFraming` two headers and a short frame fit what is in flight
at once, one packet just meets the limit and one exceeds it, and both are longer
than a header.  In `TcpBearer`
connections only share the accept loop, the map and the pump; one of them with
room for one frame already makes both pumps wait on each other. In `HopInstall`
two runs follow one another for ever and may meet at any step; with two files a
removal or an extraction has a middle. In `NativeRun` a third attempt is the
first that can follow two partial re-runs of different groups; two CI attempts
give a re-run between any two of the four calls.  In `ReleasePipeline` the
pushes differ from a legitimate one in one respect each, one for every check
that the scripts make of a push; two attempts are one with trouble and one that
follows it (the last is kept for after the trouble: `Start`), and two of CI and
of the native run put a re-run between any two reads. Counters (`signals`,
`frees`) are not bounded by a guard: the invariants say that they stay at most
1.  `MaxBatch`, the `Capacity` of sockets, and the numbers of attempts (`MaxCI`,
`MaxNative`, `MaxAttempt`) are the only bounds.  Symmetry is used in runs
without liveness only.  Deadlock is checked in the runs of the SDK, where
`Ended` says where the system may stop; it is not in those of the release, which
stops wherever its attempts are used up and nobody re-runs it.

Fairness.  `EndpointLifecycle`: strong fairness for each goroutine's next step,
because Go's mutexes hand over to waiters that have waited long; `select` takes
a `done` that stays ready, since it picks at random; a handler returns; the
buffer of a socket that was shut runs dry.  Nothing makes a peer send, a
connection start or an application call `Close`.  `ServiceCalls`: the same; that
timers fire is a premise of the properties that need it, so that `AnswerWakes`
does not hold merely because everyone gives up.  `ServiceDispatch`: the pump
runs, handlers are registered and return (a poisoned one may panic every time),
acceptance is persisted in the end if tried again and again, and the process
does not crash for ever (`<>[][~Restart]_vars`).  `HttpAdmission`: goroutines
run, timers fire, handlers return; a read ends if its socket was closed or a
deadline watches over it, and only then.  `TcpFraming` states no liveness.
`TcpBearer`: the fairness of an endpoint (`Runs`) is a premise of each property,
so that the other endpoint may hang at any point; packets to send, connections
and frames too long may come or not.  Peers that never accept are excluded in
`PumpsResume` only.  `HopInstall`: as a premise of `Recovers`, someone runs the
installer again and again, and the trouble ends (`<>calm`).  `ReleasePipeline`:
GitHub runs the steps of a job (`WF_vars(JobStep)`), and once the trouble is
over (`CalmDown`, which may never come) the operator, who may then re-run
everything or only what failed, does the latter: an assumption on people, and
`Recovers` says what it buys.
`NativeRun` states no liveness.

## What is proved

For every set of connections, application goroutines, calls, requests, services,
sockets, jobs, groups, targets and pushes, and for any limits, from the
assumptions that the names of goroutines differ (`ThreadsDiffer`), `MaxBatch \in
Nat`, `CallsAssumption`, `DispatchAssumption`, `AdmissionAssumption`,
`BearerAssumption` (finite sets, positive limits), `FramingAssumption` (a byte has
two values at least, the limit fits the header, and so do the packets),
`InstallAssumption` (names
differ, a release has a file), `CIAssumption` (the gate is a job that always
runs), `NativeAssumption`, `AuthAssumption` (the gate is among the jobs the
authorization reads) and `ReleaseAssumption` (the host is a published target,
and a mirror's tree is a function):

* `CloseIsSafe`: `CloseSafe` is inductive.  Its parts build on each other.
  `ControlOK` keeps each goroutine within the steps of its kind, so that only an
  application or the pump is ever inside `Close`.  `LockInv` ties the lock to
  the libhop call in progress, and says that once `closed` is set that call is
  the `free`.  `TeardownInv` says that at most one goroutine is past the check
  of `closed`, and that it has signalled and freed nothing yet.  `HookInv`
  follows each hook: on record in `closers`, or taken by the goroutine that
  tears down, or run.  `TornDownOnce` and `ClosersRun` alone are not inductive:
  the first needs the uniqueness of the tearing goroutine, the second the hooks
  in its hands.
* `TearsDownOnce`, `NoHookLost`, `TypeCorrect` follow.  `NothingResurrected` and
  `NoPacketDropped` rest on `LinkInv` besides, which follows a link through
  registration: what the core and the registry know of it is determined by where
  its own goroutine and its `closeLink` stand.  `KeepsContract`: every step of
  `EndpointLifecycle` is a step of `NodeContract` or a stutter; that `Free`
  finds no user is `LockInv`.
* `NoWaitingCircle`: a goroutine waits for `nodeMu` or for another's `closeLink`.
  `OnceInv` says that a once that is running is run by one goroutine, which is in
  `linkDown` and can only wait for the lock; the holder of the lock, by `LockInv`,
  waits for nothing.  So every chain of waiting is at most two long, and its end can
  go on, for any number of goroutines: that is `WaitsEnd`, which TLC checks on its
  instance too.  (The run's deadlock check would not notice two goroutines that
  wait for each other while a third goes on.  That a goroutine that is not `Blocked` has a step is read off the
  guards: ENABLED is out of the prover's reach.)
* `RoutingIsSafe`: `RoutingSafe` is inductive: who holds the lock between send
  and register, where an answer is on its way to the channel (`Handover`), and
  that nested calls and routing exclude each other (`Nesting`).  `PumpIsFree`,
  `WaitersReachable`, `RegistersInTime`, `LeaksNothing`, `NestedNeverAnswered`
  and the refinement `KeepsPromise` follow.
* `DispatchIsSafe`: `DispatchSafe` is inductive: a run that counts is still
  going on or has been accepted.  `RerunsForAReason` follows.  `ServesAtLeastOnce`: every step of `ServiceDispatch`
  is one of `RequestQueue` or a stutter; that what the pump settles is done, and is
  the current request, is in the invariant.

* `AdmissionIsSafe`: the invariant has three parts.  `Shape` says where a lease,
  a token on its way back and a link can be, in terms of `pc`; `SlotsCounted`
  that the tokens are as many as the leases and the tokens on their way back;
  `PermitsCounted` the same for permits and the sockets that hold one.  The
  counts are not inductive alone: that a step takes one socket from exactly one
  set is `Shape`.  `TokensConserved`, `LimitsHold` and `ReaderKeepsDeadline`
  follow.  `OverflowKeptOut` is shown by `UntimedShut`: a socket that has been
  accepted and never had a timer is shut, and reads nothing.
* `NoSocketOutlives`: `IInv` follows an open socket through the hands it passes.
  `Placed` ties sockets to goroutines, `Covered` says that Listen has its hook
  before it accepts anything, `OnRecord` that an open socket is in the map or
  among the hooks unless it has just arrived, `HooksRun` that the node is freed
  after them.  `SocketsEnd` alone says nothing until it is too late.
* `NeverInPart`, `TypesHold` and `KeptWhenAlone`, for any number of installers:
  as long as no two replace at once (`Alone`), `Placed` says where the
  installation is at each step, `Prepared` what a staging directory holds at
  each step before, and `Verified` why: what is known of the manifest.
  `HandsClosed` keeps a removal from following its directory to the destination.
* `TwoLoseNothing`: two runs (`AtMostTwo`) that meet at any step keep the
  installation under one of its names, unless a run dies or fails in the replacement.
  `Paired` says what each may rely on: the installation is at the destination, or the
  other has moved it aside and is about to put its own there; and when both are
  about to touch the backup, it is whole.  The hypothesis is needed: with a third
  run the property is false, as the section on `HopInstall` says.
* `StreamIsPipe`: what is handed over is what was sent, for packets of any length,
  pieces of any size and any base of a byte.  `FInv` lays the frames of the packets
  that are still to be handed over along the bytes that were read, are on their way
  and are yet to be written; the reader is `WithinFrame`, so it never asks for bytes
  beyond the frame that it is in.  A header that is read in full is then the header
  of the first packet, and `RoundTrip` (four digits give the length back) says how
  much follows it.

* `LatestAuthorized`: `GateLast` says that the attempt shown for the gate is the
  run's own, that a gate that has succeeded found every other job ended and none
  failed, and that nothing is built before CI was green.  With the gate among
  the jobs that are read, a success of the attempt in `seen` therefore means
  that no re-run came in between. `NewestBundled` needs `LastBuilds` (a group's
  last build is its newest partial) and `InOrder` (no partial is of a later
  attempt). `Implements`: every step of `NativeRun` is one of `CanonicalRuns`;
  that a run succeeds only after CI was green is that nothing is built before
  `authorize-ci` has passed.
* `MirrorFaithful`: `Compared` says that past its step the prepare job has
  compared the mirror with the export under the mirror's map.  The map itself is
  exported unchanged from the canonical one (`SHARED_EXPORTS`), so the trees can
  be equal only if the maps are: that is the lemma the theorem rests on.
  `GreenWhenBelieved`: the required checks are all the jobs, and each must have
  ended well, which is a green run at that moment whatever was read before.
* `InputWhole` and `PublishedWhole`: `JobOrder` ties the outputs of a job to its
  having ended, `Carried` what a runner's disk holds at each step to the attempt
  of the native run that this run has read, `Stored` the artifacts that the
  outputs name to the same, and `Shown` the release to the artifact that was
  verified.  `PublishedAsBuilt` alone speaks of the last job only.  Under them is
  `VerifiedIsWhole`: of all that a transfer can make of a bundle, only the bundle
  itself passes `verify-provenance`.
* `UploadsSucceed`: `Free` says that no artifact has the name of an attempt to
  come, nor of this one before the job that uploads it has done so.  The names are
  told apart by the attempt alone, and an attempt runs each job at most once.
* Of the operators that `ReleasePipeline` is built from: `UnpacksAsPacked` (the
  files that a build packs are the files that an installation extracts, each with
  its contents and its executable bit), `ExtractsInside` (nothing is extracted
  outside the directory, whatever the archive holds) and `VerifiesExactly`
  (`verify-provenance` accepts the bundles that a native run makes of that source at
  that attempt, and nothing else; that hashes and signatures do their work is in
  the model).

The type invariants are proved (`TypeCorrect`, `LimitsHold`, each `TypesHold`)
or are part of the inductive invariants (`RoutingSafe`, `DispatchSafe`), and no
run repeats them. The composite invariants `CloseSafe`, `RoutingSafe`,
`DispatchSafe` and `AdmissionSafe` are not among the runs' invariants: the parts
that matter are, and the theorems have the rest.

Only model-checked: the liveness properties, since fairness and leads-to are out
of the prover's reach (`CloseReturns`, `WindsDown`, `AnswerWakes`, `CallReturns`,
`PumpResumes`, `PoisonDoesNotBlock`, `TokensRecover`, `PumpsResume`, `Recovers`).
Every other property of a passing run is stated by a theorem, some under a
hypothesis that the theorem names: `TwoLoseNothing` is about two runs, and
`KeptWhenAlone` about any number that do not replace at once.

## Findings

* `verify-provenance` demands `--tag` (`native-artifacts.py:973`), and
  `release.yml:71-79` calls it without, on purpose: "the bundle's own tag is
  deliberately NOT cross-checked against this release tag" (`release.yml:59`).
  Every prepare job fails there (`ReleaseTag`).
* The release of a lease clears the socket's deadlines, those included that
  net/http has set for the request; the handler of a connection's first request
  then runs without any, although `Attach` installs "all net/http limits"
  (`wss_bearer.go:48`, `157`; `AdmissionRequestsTimed`).

Observed in the models, and not stated as properties, since the texts can be
read either way.  `Close` "stops the pump" (`endpoint.go:408`) but returns while
the pump may be in a batch, whose next handler is then started.  A request whose
handler hands the work to another goroutine is accepted when the handler returns
(`endpoint.go:390`; compare line 180).  A handler that rejects its request may
have a retransmission, queued meanwhile, accepted by the pump (compare line
188).

## Not modelled

libhop itself (not in the repository): its queues and its ownership rule are
modelled from `hop.h`.  The cgo conversions, the pub/sub and inbox calls and the
relay pool are single calls under `withNode` with no state in Go: they are the
generic application call of `EndpointLifecycle`.  Discovery is one sequential
fetch and the validation of what it returns.  The in-process bearer is two
`registerLink` calls whose send functions call `deliver`.

Of `package-export-smoke.py`: `write_export` and `static_check` (they write a
tree and run other tools over it); the validators of the Elixir, Apple, Android
and embedded packages and of the surfaces of published packages, which no
workflow of this repository reaches and which run compilers and package managers
over a checkout and compare the text of manifests, so that their logic is in the
tools; and the export branches of retired components.  Of `native-artifacts.py`:
the XCFramework manifests.  Of `release-provenance.py`: the HTTP client's own
checks (redirects, sizes, pages).  The canonical repository's workflows are not
here.

## Plan

Done, in this order: life cycle, client calls, dispatch, admission, TCP,
installer, native run, export and release.  What would come next:

1. `Discovery`: `Resolve` and `DialByName` as operators over responses, and what
   a stale or a wrong record leads to; the in-process bearer, two pumps that
   deliver into each other's endpoint.
2. The installer's `validateManifest` and `validateArchivePath` as operators,
   and that they accept what `NativeBundle` makes: the installer against the
   release.
3. Three runs of the installer at once: which of their meetings lose the
   installation, and what a lock on the destination would buy.
