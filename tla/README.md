# Verification of SlapOS: instance nodes, recipes and programs of partitions

SlapOS is a repository of buildout recipes, templates and software releases. Most
of it is configuration: it renders files for programs that live elsewhere. What
has state, steps and failures of its own are the *instance nodes* (programs cron
runs on a partition to serve its shared instances), and the recipes and scripts
that run again and again against SlapOS Master, a registry, other partitions or
the file system. This project models them in TLA+, checks the models with TLC and
proves the main invariants with TLAPS.

## Inventory

| Part | State | Operations | Interacts with |
|---|---|---|---|
| CDN instance node, `slapos/recipe/cdninstancenode.py` | `domain_validation`, `used_hosts` (SQLite) | `preDeployInstanceValidation`, `shouldDestroyInstance`, `_processDestroyedInstance`, `instanceNodePostProcessing` | DNS, the publish file, `bang()` |
| Base instance node, `slapos/recipe/instancenode.py` | `requestinstance_db` (SQLite) | `install`, `_processInstance`, `updateInstanceInDB`, requests and publications | SlapOS Master, the recorder |
| Pid file, `PIDFileLock` in `instancenode.py` | a file, its flock | `__enter__`, `__exit__` | other runs that cron starts |
| Databases, `slapos/recipe/localinstancedb.py` | rows, one transaction per call | `InstanceListComparator`, `updateFromValidationResults` | node and recorder |
| Validation and recorder, `slapos/recipe/slapconfiguration.py` | `instance_db` (SQLite), one validator | `JsonSchema`, `DefaultValidator`, `JsonSchemaWithDB` | slapgrid, SlapOS Master |
| Requests, `slapos/recipe/request.py` | `connection-*` options | `__init__`, `install` | requested instances |
| Publication, `publish.py`, `publish_early.py` | parameters at SlapOS Master, error file | `__init__`, `install`, `update` | services, SlapOS Master |
| Wrappers, `slapos/recipe/librecipe/execute.py` | pid file, log files, signal handlers | `generic_exec`, `_wait_files_creation` | logrotate, the program, inotify |
| Keys, `certificate_authority`, `sshkeys_authority.py` | keys and certificates | `checkRequestDir`, `sshkeys_authority`, `Request.install` | openssl, services |
| Re6st registry, `slapos/recipe/re6stnet` | `token.json`, request and status files | `install`, `manage` | registry, SlapOS Master |
| Backup, `software/theia`, `slapos/recipe/pbs.py` | backup directory, repository, clone | export, pull, push, import | rdiff-backup, services, event queue |
| Takeover, `slapos/recipe/addresiliency/takeover.py` | names at SlapOS Master, a lock file | one script | SlapOS Master, event queue |
| Error pages, `software/rapid-cdn/software.py` | source pages, published pages, manifest, state of an updater | manager, updater, seed | operator, haproxy |
| Parameters of SimpleRAN, `parse-parameters.py` | one pass over the parameters | `core_network`, `ors_radio`, `configure_cpu` | users of SIM cards, radio hardware |
| Notebook kernel, `ERP5kernel.py` | magics, last status and response | `do_execute` | ERP5 |
| Virtual machine, `template-kvm-run.py` | disk, qemu | one script, signal handler | supervisord, qemu, image downloader |
| Other recipes, stacks, components, software releases | generated files | `install` | external programs |

What is hard in it:

* A run is a long sequence of commits, files and calls. It may be killed between
  any two of them, and the next run starts from what is there.
* Programs of one partition share files and run at any time: recorder and node,
  recipe and manager, wrapper and logrotate, manager and updater, export and pull.
* Instances compete: for a domain, for host names, addresses, devices, tokens.
  Claims are made, dropped, put on hold and taken up again.
* SlapOS Master, the registry, ERP5 and the network refuse or lose calls, and the
  caller is run again.
* Much rests on small orders: lock before pid, publish before install, test before
  watch, handler before signal, signature before data.

What makes the parts correct:

* CDN node: a domain has one owner; a row that says 'valid' is backed by the other
  two tables; retention gives names back; what is forgotten leaves nothing behind;
  the table comes to agree with the requests;
* bangs: slapgrid learns of every change, the bangs stop, a verdict that waits for
  slapgrid is reached;
* lock: two runs do not overlap, and a death does not open the lock;
* base node: what it has deployed it can destroy, 'valid' means deployed and
  published, and it does only what the list says;
* recorder: the recorded verdict is the one of the schema, and nobody is refused
  for what somebody else asked;
* backup: what is restored is one export, a clone without its proxy says so, the
  last export arrives; takeover: there is one exporter;
* publication and requests: services keep their generated values, values arrive,
  nothing is installed with an empty one;
* wrappers: nothing is killed or lost by a rotation, every rotation is followed;
* keys: key and certificate belong together; tokens: access follows the list;
* SimpleRAN: addresses, identifiers and devices are told apart, threads follow the
  frame; kernel: a result is that of its cell; virtual machine: a guest has its disk.

`PROJECT.json` lists every part, the hazards with their lines, and which property
covers which hazard.

## Modules

| Module | What it models |
|---|---|
| `InstanceLists` | tables keyed by reference, and their comparison |
| `CDNInstanceNode` | the CDN node's runs on its three tables, one step per commit |
| `DomainRegistry` | abstract: what the `domain_validation` table promises |
| `CDNBang` | clock, `.timestamp`, slapgrid, publish sections, bangs |
| `CDNBangHistory` | `CDNBang` with a memory of when and by which run each verdict was written |
| `CDNBangClock` | `CDNBang` under fairness, with a clock that never stops |
| `PIDFileLock` | the lock, one step per system call |
| `InstanceNode` | recorder, base node and SlapOS Master, one step per call or commit |
| `DeploymentLedger` | abstract: what an instance node promises about what it deploys |
| `Resilience` | export, backup server, import |
| `Takeover` | the takeover and the names at SlapOS Master |
| `CoreNetwork`, `Radio`, `FrameThreads` | `parse-parameters.py` of SimpleRAN |
| `ParameterValidation` | main and shared parameters, defaults, reporting |
| `GenericExec`, `FileWait` | wrappers against logrotate, and files that are waited for |
| `PublishedParameters` | `publish_early`, `publish`, `publish_failsafe` over runs |
| `Requests` | `request`, optional and mandatory, over runs |
| `KeyAuthorities` | certificate and ssh key authorities, pairs that are provided |
| `Re6stTokens` | recipe, manager and registry of a re6st network |
| `ErrorPages` | error page manager, updater and seed |
| `NotebookKernel` | cells, magics and posts of the ERP5 kernel |
| `VirtualMachine` | the runner of a virtual machine, its disk and qemu |
| `Programs` | composes the programs of partitions, `Resilience` to `VirtualMachine`, and states what is checked and proved of them |
| `MC...` | definitions that give TLC small instances |
| `...Proofs`, `CDNInstanceNodeTables` | theorems |

### CDNInstanceNode

Every `execute()` and `insertMany()` of the code is a transaction of its own, so
a step ends with one commit and `Die` may come between any two. `pc` says where
the run is, `cur` which instance it processes, `added`, `changed`, `removed` and
`instance_map` are the local variables of `install()`. The node is the only
writer of its tables while the pid file holds, so reads belong to the step they
precede.

| Code | Steps |
|---|---|
| `install()`, comparison and loops | `Install`, `ProcessInstance`, `AtRemoved`, `Finish` |
| `preDeployInstanceValidation`, parameters and aliases | `ValidateParameters` |
| the same, domain | `KeepDomain`, `DropDomain`, `DropHosts`, `RestoreDomain`, `RefuseDomain`, `GetOrGenerateToken`, `VerifyCustomDomainDNS` |
| `addUsedHosts` (two commits) | `ClearHosts`, `AddHosts` |
| `postDeployInstanceValidation`, `updateInstanceInDB` | `PostDeployInstanceValidation`, `UpdateInstanceInDB` |
| `shouldDestroyInstance` | `KeepRetained`, `EnterRetention`, `RetainHosts`, `RetainRow` |
| `_processDestroyedInstance` | `Destroy`, `DestroyHosts`, `DestroyRow`, `DestroyRowFails` |
| recorder | `RecordRequests` |

Abstractions: a parameter set is a custom domain, the set of alias names that are
checked, and one boolean for all the checks that depend on the parameters alone;
aliases are compared as sets where the code compares strings; the hash of a row
is an injective digest of its parameters; whether the DNS answers, the publish
section is there and the delay has passed is a choice of each step. Two fields are
not in the code: `challenged` of an entry says that its token was once found in
the DNS, and `interrupted` holds the instances a death left half done.

### CDNBang

One instance is one step here. The clock counts whole seconds, as the timestamps
do. `SlapgridStarts` records the list and reads the verdicts, `SlapgridEnds`
touches `.timestamp`; the node runs at any time in between. `seen` is the last
view slapgrid had of the verdicts. `Fail` is a run that dies or whose `bang()`
raises.

The rows have one date each, which is what the node decides by. What those dates are
meant to say is kept apart from them, in `CDNBangHistory`, whose variables look at
nothing but the changes of the verdicts: `written` is the second in which a verdict last
changed, `level` holds the instances for which this was the second of the run's
`.timestamp`, `lost` those whose verdict was changed by a run that did not get to its
bang. So a row that is dated too late, too early or again and again shows.

The liveness properties need a clock that does not stop at its bound: with one that
does, a row that is dated anew in every run ends up no younger than `.timestamp`, and the
bangs stop for that reason only. In `CDNBangClock` the clock goes on, and a second that
nothing is dated by, and no delay still depends on, is taken out of the count at once
(`Forget`): the node compares dates, and looks how long ago a retention began, so what
it does is the same. `MaxTime` is then the number of dates that are in use at one time.

### PIDFileLock

Inodes, the path, the flock per inode and the descriptors of every process. A
process is killed at any label (`Kill`); an inode is used again when nothing
refers to it; a process that starts again has the same pid, so pids are reused.

### InstanceNode

`Record` is one transaction of the recorder, on the list as slapgrid got it, and
has the branches of `updateFromValidationResults`. The run is `Install`,
`ProcessInstance`, then `RequestInstance` or `RequestFails`, `Publish` or
`PublishFails`, `UpdateInstanceInDB`; removed instances go through `AtRemoved`,
`RequestDestroyed` or `DestroyFails`, `DestroyRow`; `Finish` and `EndRun` end it, `Die`
comes anywhere. `deployed` and `published` are what SlapOS Master has. Auxiliary:
`answered` (the connection the Master had when the node last requested the instance),
`lost` (instances a run left half done), `unsent` (a publication failed),
`judgedBefore` (rows recorded before the schema changed and not modified since).
A connection is known by the parameters it is of: an instance publishes that of its
parameters some time after they were requested (`Connect`), and what the node takes over
is what is there at the moment of its request, which may be nothing (`Message`) or the
connection of the parameters before.
The ledger sees `instance_db`, the copy of it a run works on, and `deployed`; commits,
publications, failures and deaths are stuttering steps of it.

### The programs of partitions

`Resilience`. A part of a backup is the root or a partition; its content is the
number of the export (root) or of the last write (partition), and its signature is
that content. Export, backup server and clone are three processes; `Notified` says
whom the end of a job starts. A partition may have its own signature script
(`custom`). Copies go part by part, signatures first, as rdiff-backup orders them. The check
at the end of an export looks at files under `srv/backup/` only, so that a change it meets
is one it reports or one it does not see (`CheckPartitions`).
`snapshot` keeps what each export copied.

`Takeover`. One step per rename; SlapOS Master refuses a name another partition has,
and the root instance requests the exporter in between. `CoreNetwork`, `Radio`,
`FrameThreads` are functions of their inputs: the runs enumerate the inputs, and the
steps are the parts of the functions. An address that a SIM card forces is an address and
whether it is spelled as `netaddr` spells it, since the code compares texts; what the user
set of a PDN's range, of the identifiers of node and cells, and what rf-info names as
devices, is kept (`SetDefault`). A configuration of the threads is a row of the two
tables; the name of one, the seventh of NR, is DDDSU and says 2DL/2UL, and its pattern is
that of the numbers. Patterns that a user writes out are not modelled.

`ParameterValidation`. One property and several sub-schemas; whether jsonschema finds
an instance valid is an input. The validator's tables live as long as the
recipe, so one instance is validated with what others left in them.

`GenericExec`. A log is known by its generation. The wrapper's steps are system
calls, the handler runs between any two (`Deliver`), output goes through pipes.
`FileWait` has the queue of inotify and, without inotify, the polling.

`PublishedParameters`, `Requests`. A run of buildout initializes sections, then
installs parts, in some order; it may die in between, and runs are repeated.
`PublishSlave` is the `publish_failsafe` of rapid-cdn. Auxiliary: `lost`, the
parameters whose published value an early publication has dropped.

`KeyAuthorities`. A file is known by the key it was made of; `Blank` is a file without
content. `Left` is what a death leaves to the next pass.

`Re6stTokens`. Each request file, status file and call is a step. `WriteRemove` writes a
`.remove` file and removes the `.add` file in one step: for a manager to come between
them it would have to end and begin again, and it sleeps three seconds when it
begins. One manager runs at a time (see *Not modelled*). `spoiled` and `crossed` are
the instances a death, or a return before the removal was over, leaves uncertain.

`ErrorPages`. A request holds the lock of the manager from `Receive` to `PublishPage`;
the updater takes the manifest under that lock and the pages without it.
`NotebookKernel`: a cell is one step, as the kernel handles one at a time; a post is
answered, refused, or lost before or after ERP5 had it. `VirtualMachine`: signals come
at every step, also while an image is copied or `qemu-img create` runs; qemu outlives a
program that is killed hard. A disk remembers the image it is of and the one that was asked
for when it was made; auxiliary: `cut`, the disks whose making was stopped or failed half
way.

## Runs

| Run | Instance | Shows |
|---|---|---|
| `cdn_node` | 2 instances, 2 names, 4 changes of the list, 1 death, retention | `OneOwnerPerDomain`, `ValidRowBacked`, `RetainedReleases`, `ValidAliasesDisjoint`, `ForgottenLeavesNothing` |
| `cdn_immediate` | every parameter set, 2 changes, 1 death, no retention | `TypeOK`, `ValidatedWasChallenged`, the refinement of `DomainRegistry` |
| `cdn_converges` | 2 rivals for one domain, 3 changes at any time, 1 death, retention | `Converges` |
| `cdn_bang` | 2 instances, delay 1, clock to 2, 4 changes or failures, 1 failure at most, with history | `OnlySameSecondIsMissed`, `RetainedForTheDelay` |
| `cdn_bang_live` | 2 instances, delay 1, endless clock with 5 dates at once, 3 changes or failures, 1 failure at most | `MissedBangIsMadeGood`, `BangsStopWhileRequested`, `AcceptedBecomesValid` |
| `pid_lock` | 3 processes, 4 inodes, 2 deaths | `OverlapOnlyByRemoval` |
| `base_node` | 2 instances, 2 parameter sets, 3 changes of list, schema or connection, 1 failed call, 1 death | `DeployedIsTracked`, `ValidRowIsServed`, `VerdictOfTheSchema`, the refinement of `DeploymentLedger`, `DeploymentsConverge` |
| `recipes` | the programs, see below | their properties, and the types of all of them |
| `cdn_restore` | retention, 3 changes | violates `ValidatedWasChallenged` |
| `cdn_lost_bang` | 1 instance | violates `ChangesReachMaster` |
| `cdn_bang_loop` | 1 instance, fair, endless clock | violates `BangsStop` |
| `pid_lock_exclusion` | 3 processes, no death | violates `MutualExclusion` |

`recipes` runs the programs of partitions, which module `Programs` composes. They share
no state, so a behaviour has one of them: `program` says which, chosen in the initial
state, and each property speaks of the behaviours of its program. That makes the state
space the sum of theirs. Programs that have a variable of the same name share it
(`at`, `published`, `changes`...); it is None in the behaviours of the others.

| Program | Instance | Shows |
|---|---|---|
| resilience | 1 partition and the root, with or without its own script, 2 exports, 1 write, 1 failure or death | `RestoredIsOneExport`, `StoppedProxyIsReported`, `LastExportArrives` |
| takeover | 3 partitions, 2 deaths | `LockedCloneIsExporter` |
| core network | 2 networks, 1 or 2 PDNs of 3 settings, up to 3 of 13 shared instances | `SimsAreKeptApart` |
| radio | 5 serial numbers around the wraps, 2 cells, every hardware, 4 settings of the user and rf-info | `EveryCellHasItsOwn` |
| threads | every TDD configuration, bandwidths of both directions, antennas, modes | `ThreadsFollowTheFrame` |
| validation | up to 2 shared instances, 2 sub-schemas, defaults that agree, conflict or are refused | `RefusedForAReason` |
| exec | 2 streams, 1 line each, 2 rotations | `NothingIsKilledOrLost`, `RotationIsFollowed` |
| wait | 2 files, 3 changes | `NothingIsMissed` |
| publish | 2 generated values, 2 deaths or failed calls, 2 changes | `ServicesKeepTheirValue`, `PublicationConverges` |
| error pages | the cluster and 1 shared instance, 2 writes, 2 faults | `FrontendsConverge` |
| notebook | 6 cells | `ResultIsOfTheCell` |
| request | 2 children, one optional, 2 values each, 3 changes, 1 failure | `MandatoryValuesArrive` |
| keys | 1 certificate, 1 ssh key, 4 keys, 2 deaths or removals | `PairsMatch` |
| re6st | 1 shared instance, 2 tokens, 3 changes, 2 faults | `AccessFollowsTheList` |
| machine | 2 images, 2 paths, 4 changes or signals, 3 starts | `GuestHasItsDisk` |

The bounds. Two instances are enough for every conflict of the nodes: each test is
about one instance and *another*. Two names allow an instance to change domain, and to
have an alias that is another's domain. Four changes of the list allow a claim, a
disappearance, a rival's claim and a return. In `cdn_node` and `cdn_immediate` the list
changes between runs (`RequestsBetweenRuns`): a run works on its copy, so that a change
during a run is the same as one after it; `cdn_converges` drops that constraint. One
death is enough to find any single commit missing; `cdn_bang_live` has one instance that
passes the checks and one that does not at first, so that one can be retained, or gone,
while the other stays; five dates are `now`, `.timestamp`, that of the run and one per row; properties that a death may
legitimately break for the instance it interrupted say so (`Settled`). Three processes
are what an overlap needs: one that ends, one that waits, one that comes. The four
inodes are one per process and one for the path.

In `recipes`, two exports make a mixture possible and one failure any single command
missing; three SIM cards let one be skipped between two; the serial numbers are on
both sides of each modulus; two cells, two streams, two children and two files are one
and another. The tokens of an instance do not depend on those of the others (two
instances give the same result in fifteen times the states); two tokens are one and
the one after a return. Two rotations let the second come while the first is
followed. Error codes are independent of each other, and so are the pages of shared
instances but for that of the cluster.

Every property of a passing run is tried against a faulty variant of a step or
helper, which stands beside the definition it varies; `PROJECT.json` pairs them. Every
type invariant is proved as well.

Fairness. `CDNInstanceNode!FairSpec`: cron starts a run every minute and a started
run goes on (weak fairness of `NodeStep`); time passes, so a run finds an instance
that stays away expired in the end (strong fairness of `Destroy`, because the step
is enabled only while the loop is at that instance). `CDNBangClock!FairSpec`: the same
for the node, slapgrid processes a partition that is due, and the frontends report
what they serve; the clock of `CDNBangClock` may go on and never has to, and the
forgetting of seconds is of the model alone. `InstanceNode!FairSpec`: cron runs the node, slapgrid passes and
records, a deployed instance publishes its connection. `ProgramsFairness` is weak
fairness of what runs again by itself: exports once started, the queue of the backup
server, imports, the loop of a wrapper and the delivery of signals, runs of
buildout, threads of the manager and polls of the updater, each while its program is
the one that runs. Nothing is assumed of requests, DNS, deaths, rotations, users or
the clock.

### Disagreements found

1. **A domain validated without a challenge** (`cdn_restore`). An instance whose
   challenge was not answered yet enters retention: its entry stays with
   `validated=False`. When it returns, `preDeployInstanceValidation` takes the
   entry for one that had been validated and restores it
   (`cdninstancenode.py:739-753`). Without retention the property holds
   (`cdn_immediate`, theorem `ChallengedWithoutRetention`).
2. **A change slapgrid is not told of** (`cdn_lost_bang`). A verdict written in the
   second in which `.timestamp` is touched is not newer than it, and the next run
   sees no change (`cdninstancenode.py:856-863`). `OnlySameSecondIsMissed` shows
   that this is the only loss besides the verdicts of runs that did not get to their bang.
3. **Bangs without end** (`cdn_bang_loop`). An empty list is not recorded
   (`slapconfiguration.py:790`, `localinstancedb.py:346`): the last instance stays
   requested for the node, and if its publish section was pending every run bangs.
   `BangsStopWhileRequested` shows that the bangs stop in every other case.
4. **The lock does not exclude** (`pid_lock_exclusion`). `__exit__` unlocks, then
   removes the path; between the two another run may lock the file that is about
   to be removed, and a third run locks a new one (`instancenode.py:785-793`).
   `OverlapOnlyByRemoval` shows that removals are the only way to an overlap.

These were met while modelling and have no run of their own; the models do what the
code does, and the properties name the case:

5. **A failed pull is reported as done.** `continue` outside of a loop does nothing
   (`pbs.py:177`): the script ends with status 0 and the push follows, although a comment
   wants it run again. `LastExportArrives` holds when nothing failed since that export.
6. **A file created between test and watch is waited for** (`execute.py:20-34`), although
   the order was chosen so that no event is missed. `NothingIsMissed` excepts these files.
7. **An unchanged instance keeps the verdict of the old schema**
   (`localinstancedb.py:364`), where a test expects that changed validation is seen
   (`test_instancenode.py:1286`). `VerdictOfTheSchema` excepts these rows.
8. **`name` is not optional** in `request.py:107`, as the documentation has it.
9. **An early publication drops a value** (`publish_early.py:145`). A parameter that is
   forced is not initialized, so when another new value is published early, alone, what
   was published of the forced one is dropped; if that run dies and the parameter is not
   forced in the next, its service gets a new value. An attempt to prove
   `ServicesKeepTheirValue` showed it; the property excepts these parameters (`lost`).
10. **A single external disk needs an index** (`template-kvm-run.py:259`), where a
   comment says it does not.
11. **A row is valid with the connection of older parameters**
   (`instancenode.py:309-336`). After a change of parameters the node takes over what the
   instance had published before it was processed again; the row says 'valid', and a valid
   row is not looked at again. `ValidRowIsServed` promises the connection SlapOS Master had,
   not that of the row's parameters.
12. **Another spelling of an IPv6 address is not recognised**
   (`parse-parameters.py:1246`, `1257`). The texts of addresses are compared, so that an
   address a SIM card forces in other letters or with zeros written out is handed out a
   second time. `AddressesAreDistinct` excepts these.
13. **The range a user sets is not looked at** (`parse-parameters.py:1211-1251`). The
   schema describes `ipv4_start` as the first available address of the PDN, but addresses
   are handed out from the range that the code computed.
14. **A single TDD pattern is scaled the wrong way** (`parse-parameters.py:715-716`):
   by period / 5 ms, where two patterns are by 5 ms / period. A frame of 2.5 ms counts for a
   quarter of its slots, one of 1 ms for a twenty-fifth. `ThreadsFollowTheFrame` says what
   the code does. The name of the seventh configuration (line 71) has three letters D and one
   U for "2DL/2UL".
15. **A disk cut short is taken for the disk** (`template-kvm-run.py:119`, `154`): what a
   stop while the image is copied, or while `qemu-img create` runs, leaves is there at the
   next start. `GuestHasItsDisk` excepts these disks (`cut`).

## Proofs

TLAPS proves every safety property the passing runs check (invariants, action
properties and the two refinements), for any sets of instances, names, parameters,
processes, inodes, children, keys, slaves or SIM cards and any bounds:

* `CDNInstanceNodeProofs`: `TypeCorrect`, `OneOwner`, `Implements` (the refinement
  of `DomainRegistry`) and `ChallengedWithoutRetention`;
* `CDNInstanceNodeTables`: `RowsBacked`, `RetentionReleases`, `NothingLeftBehind`
  and `AliasesDisjoint`, how the three tables agree (`ValidRowBacked`,
  `RetainedReleases`, `ForgottenLeavesNothing`, `ValidAliasesDisjoint`);
* `CDNBangProofs`: `TypeCorrect`, `MissedOnlyInTheSameSecond` (`OnlySameSecondIsMissed`)
  and `RetentionIsKept` (`RetainedForTheDelay`, when there is a delay: without one an
  instance is destroyed at once);
* `PIDFileLockProofs`: `Exclusion` (`OverlapOnlyByRemoval`);
* `InstanceNodeProofs`: `TypeCorrect`, `NothingIsForgotten` (`DeployedIsTracked`),
  `ValidMeansServed` (`ValidRowIsServed`), `VerdictsFollowTheSchema`
  (`VerdictOfTheSchema`) and `ImplementsLedger`, the refinement of `DeploymentLedger`;
* `ResilienceProofs`: `TypeCorrect`, `StoppedMeansReported` (`StoppedProxyIsReported`)
  and `RestoredMeansOneExport` (`RestoredIsOneExport`), of `Resilience` alone;
* `ProgramsProofs`, of the composition: `RestoredWhateverRuns` (both of the above),
  `OneExporterAfterTakeover`, `CellShowsItsResult`, `SignalsKillNothing`,
  `WaitKnowsItsFiles`, `PairsBelongTogether`, `GuestRunsFromItsDisk`, `ValuesStay`,
  `NoValueIsMissing` (the safety half of `MandatoryValuesArrive`), `RefusalsHaveAReason`,
  `CellsHaveTheirOwn`, `SimsStayApart`, `ThreadsAreOfTheFrame`, and `ProgramsTypes`;
* `Re6stTokensProofs`: `AccessIsRemoved` (`AccessFollowsTheList`).

They rest on the named assumptions of the modules: what the constants are, that
the values that stand for nothing (`Absent`, `NoHost`, `NoInstance`, `None`) are
not among the things, and that bounds are natural numbers. In `ProgramsProofs` and
`Re6stTokensProofs` the assumptions stand in the theorems that need them:

| Assumed | Of what | Why |
|---|---|---|
| the bounds are natural numbers | `MaxDeaths`, `MaxChanges`... | they bound the model, not the code |
| `None` is no number, page, image, token, status | the values that stand for nothing | a key that is not in a dict, a file that is not there |
| `Key` are positive numbers; some value may be generated (`MaxValues` not 0, types only) | the names of generated parameters | a name is a number, 0 stands for the other parameters |
| `Inputs` | lists of shared instances with their verdicts; flags | what jsonschema and buildout hand over |
| `PagesConstants` | the cluster is no shared instance, a link is no page | the manifest knows them by different keys |
| `Re6stConstants` | finitely many shared instances | one partition has them |
| `RadioConstants` | serial numbers are numbers, `gnb_id_bits` is 22 to 32, at most 4 antennas, what is set is a number | the schemas of the input ("range 22 to 32", 1, 2 or 4) |
| `NetworkConstants` | a network does not end before it begins, prefixes are not empty, IMSIs are ordered like integers | `netaddr` and the schema of a SIM card |

The argument for the node. `OneOwnerPerDomain` is not inductive: the search for
another owner comes a commit before the answer of the DNS, and the steps use rows
that earlier steps must have left in place. `IInv` adds `RunInv` (what `cur`,
`added`, `changed`, `removed` and `instance_map` say about the tables at each
label) and `ChallengeInv` (while a challenge is pending the entry is there, not
validated, and nobody else owns the domain). `TypeStep`, `RunStep` and
`ChallengeStep` show, step by step, that they are preserved. `RegistryStep` shows
that a step claims one free domain, releases one, or changes no owner; lemmas
`Claiming` and `Releasing` reduce that to what happened to one entry. From it come
both the refinement and, with `OneOwnerStep`, the single owner. Without retention
`NeverRetained` is invariant, which makes `RestoreDomain` impossible: a domain is
validated by its challenge only.

The argument for the tables. None of the four properties is inductive: each speaks
of instances nothing is under way on, so what makes it true happens while it says
nothing. `CurInv` says what the tables hold for `cur` at each label, in the order
of the commits: the clash check has passed, then the domain is owned, then the names
are registered, then the row may say 'valid'. Lemma `Settling` shows that an instance
that is settled after a step was settled before it with the same rows, or is the one
the run is done with (`UpdateInstanceInDB`, `RetainRow`, `DestroyRow`); so it is
enough that these three steps find what the row will promise (`RowDone`). For the
aliases of two rows, the row written earlier has its aliases among its registered
names (`AliasesRegistered`: by the row's promise if it has a domain, otherwise it has
no alias), and the clash check looked there.

The argument for the bangs. `OnlySameSecondIsMissed` speaks of the moments when nothing
is under way, so the proof has to say what is true meanwhile. `MissInv`: a verdict that
slapgrid has not read is *covered* (slapgrid is due, or the run that wrote it was lost, or
its row is there and was written in the second of `.timestamp`) or *signalled* (the run
under way has dealt with the instance, and left it in the comparison, or with a row younger
than the timestamp the run began with, or asked for a bang). The end of a run turns what is
signalled into a bang, a pass of slapgrid covers what it reads. For the retention the
timestamp of a row must be more than what `shouldDestroyInstance` compares: `DateInv` shows
that it is the second in which the verdict last changed, whatever a run writes to the row,
so that for a row that is 'stopped' it is the second of its entry into retention.

The argument for the lock: a process past `flock` holds the lock of the inode it
has open, and as long as the path was not removed every descriptor is on the inode
the path names (`LockInv`).

The argument for the base node. `RunInv` says at each label what the run knows: the
instance it is at is one of those it found to do, and the copy of the list it works on
is the list of its start. From it every request is of a valid instance of the copy, with its parameters, and
every destruction of one that is not in it, which is the refinement. For what is deployed, the
interval between request and commit belongs to `cur`, which was requested with its
parameters and will publish what the Master answered (`TakenOver`); a death moves it to
`lost`; so an instance that is settled has the row that was written after its request, and
was sent that answer.

The argument for the backup. A clone without its slapproxy (`ProxyInv`): until an
import stops the proxy it is as the import before left it, once it is started again
nothing stops it, and an import that ends in between writes exit code 1. For
`RestoredIsOneExport`, `RestoreInv` follows the backup from directory to directory.
At the exporter (`ExportInv`) copies only get newer, and there is a signature only
while the copies of the current export are all there. A pull meets an exporter that
goes on (`PullInv`), but reads every signature before any copy: let the signature of
the root be of export k. No copy read after it is older than what export k copied;
and if the root is still that of k when it is read, no signature read before was of
a later export than k. So when every signature equals its copy, that is what export k
copied, although nothing signs the whole. What a pull or a push leaves has this property
unless it was left half written (`StoreInv`), and an import that no push crosses reads
one directory all along (`ImportInv`). The proof shows what the property rests on: the
order in which rdiff-backup reads a directory, and that the signatures are removed
before the first copy of the next export.

The arguments for the programs. `ProgramsStep` shows that a step of the composition is
one of the program that runs, and leaves `program`; each invariant speaks of its own
program only.

* *Takeover*. Once the names are exchanged the clone is the exporter until the lock file is
  written (`TInv`), whoever died in between.
* *Wrappers*. The handler is in place before the pid is written, and the program inherits
  an ignored signal, so that nothing can be killed (`ExecSignals`); every line written is in
  a pipe or in a log, and a stream is closed only when its pipe is empty (`ExecLines`).
* *Files*. Of the files that were tested, what the wait knows is what it found, changed by
  the events in the queue; and every event is of a watched file (`WaitKnows`).
* *Kernel*. An answer comes only after all magics were entered, and is of the cell that
  posted (`NotebookInv`).
* *Keys*. While a pair is made, key and request are those of that pass, and the certificate
  is not there or blank (`KeysInv`).
* *Machine*. A disk is copied or created at a path no guest has used, of the image that the
  configuration names then; one that is not whole is the one being made, or is cut; a program
  that is about to start qemu has its disk; no disk of a guest goes away (`MachineInv`).
* *Publication*. A value a service has is published unless an early publication dropped
  it; what a run knows is what was published when it began (`PublishInv`). *Requests*: when
  parts are installed every child was answered in full (`RequestsInv`), and what a child
  publishes only gets newer, so no answer is older than what a part has (`RequestsOrder`).
* *Validation*. `ValidationInv` gives, after each instance, the schemas that are kept and
  what the one validator holds, as a function of the inputs alone; the verdicts are the
  reasons this function gives. The same function says who may have an influence on whom.
* *Re6st*. `Shape` holds of every instance; `CleanAt` of one that no death has spoiled: it
  has at most one access, who owns it knows it, and each file says what is still to
  do. A step leaves all but one instance alone (`Untouched` and the lemmas with `Same`).
* *Error pages*. Types only: a page that is downloaded is in the manifest (`PagesInv`).
* *Radio*. `RadioInv` gives each cell as a function of the request. Two identifiers
  that nobody set differ because no offset of the second cell is a multiple of the modulus; a global one
  begins with that of its node because a cell identifier is below the power of two that the
  bits leave (`CellPowers`, `SmallQuotient`).
* *Core network*. The addresses are handed out by a recursive function, and the library's
  induction cannot be used. `Least` (a set of numbers has a least one) replaces it: there is
  no least number up to which the function does not exist (`HandedExists`), fails to
  increase (`HandedIncreases`), or has gone further than what it handed out and what is
  taken (`HandedMeans`). A SIM card's rank and the forced addresses together are no more
  than the cards (`RankBound`), so that an address is within the range unless the code
  said that there are too many (`AllocatedOne`); different cards have different ranks
  (`RankIncreases`, `AllocatedTwo`).
* *Threads*. The same principle gives `Count` its meaning (`CountExists`); then the two
  tables are finite, each row is compared with its name (`NrRows`, `LteRows`), and the
  sharing is a function of the two amounts.

Proofs led to changes of the model: an attempt at `ServicesKeepTheirValue` showed what an
early publication drops (disagreement 9), which the property now excepts.

Only model-checked: liveness (`Converges`, `MissedBangIsMadeGood`,
`BangsStopWhileRequested`, `AcceptedBecomesValid`, `DeploymentsConverge`,
`LastExportArrives`, `RotationIsFollowed`, `PublicationConverges`, `FrontendsConverge`
and the second half of `MandatoryValuesArrive`). It needs fairness, hence ENABLED, which is
out of the prover's reach. The runs that
expect a violation show counterexamples, which need no proof.

## Plan

Done: the instance nodes with their two abstract specifications, the lock, the bangs,
the recorder, validation, backup, takeover, publication, requests, wrappers, keys,
tokens, error pages, SimpleRAN, the notebook kernel and the virtual machine. Next, in this order:

1. Theorems for what liveness rests on: that a run which does not die ends with the tables
   it promises (`Converges`, `DeploymentsConverge`), and that a published value
   reaches its service, as action properties.
2. Two managers of a re6st registry at once: a token that is added after its removal
   was handled stays for ever.
3. Two runs of the node on the same tables, to show what the lock is there for
   (`OneOwnerPerDomain` without it).
4. `Takeover` composed with `Resilience`: an import that runs when the lock file comes.
5. The neighbour relations of SimpleRAN (peer cells, X2 and Xn), and the restore scripts of
   partitions of a theia.

## Not modelled

SQLite, SlapOS Master, slapgrid, buildout, DNS, the frontends, the re6st registry,
rdiff-backup, openssl, logrotate, qemu, ERP5 and jsonschema are external: only what the
code does with them appears. The text of messages, logging, and the checks of
certificates, ciphers and netlocs are left out (one boolean), as are the arguments of
qemu and the frequencies of radios.

Two managers of a re6st registry may overlap, since cron and the start of the partition
both run one; a run takes seconds and cron runs it every five minutes, so the model has
one at a time, and the hazard is listed without a property. An entry left by a run that
died after it gave a token, for an instance that is gone, stays in `domain_validation`
until its reference returns: it breaks no property, and no run of the code removes it.

The recipes that write configuration, the stacks, components and software releases
have no state a model would say anything about; `PROJECT.json` gives the reason for each.
