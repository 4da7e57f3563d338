------------------------------ MODULE Programs ------------------------------
(***************************************************************************)
(* The programs of the partitions, one per behaviour: they run in          *)
(* partitions of their own and share no state, so that what one does is    *)
(* the same whatever the others do.                                        *)
(*                                                                         *)
(* Every program keeps the names of its variables and constants; a         *)
(* variable is None in a behaviour of a program that does not have it.     *)
(***************************************************************************)
EXTENDS Resilience, Integers, FiniteSets, Sequences

CONSTANTS
    None,
    MaxDeaths,                          \* Takeover, KeyAuthorities
    MaxChanges,                         \* FileWait, Requests, Re6stTokens
    MaxFailures,                        \* PublishedParameters, ErrorPages, Re6stTokens: MaxFaults
    MaxShared, SharedSims, Tunnel, Pdn, Prefix, NoRoom,     \* CoreNetwork
    Serial, GnbIdBits, Antennas, Settings,                  \* Radio
    Bandwidth, Layer, Sbc,                                  \* FrameThreads
    Options, Shared, Schema, Tables, Bad,                   \* ParameterValidation
    Stream, MaxLines, MaxRotations,                         \* GenericExec
    Awaited,                                                \* FileWait: File
    Key, MaxValues, MaxConfigChanges,                       \* PublishedParameters
    Ref, Cluster, Link, MaxStored,                          \* ErrorPages; MaxStored: MaxWrites
    MaxCells,                                               \* NotebookKernel
    Child, Param, Optional,                                 \* Requests
    Request, Ssh, MaxKeys,                                  \* KeyAuthorities
    Slave, MaxTokens,                                       \* Re6stTokens
    Image, Path, Device, MaxMachineChanges, MaxStarts       \* VirtualMachine

VARIABLES
    program,            \* the program that runs
    at, deaths, shared_list, done, published, request, step, cell, options, shared, changes,
    used, failures, todo, certificate, crossed,
                        \* of several programs
    \* Takeover
    broken, locked, name, frozen, reopened,
    \* CoreNetwork
    network, pdns, failed, sim_list, addresses, sim_pdn,
    \* Radio
    cells, gtp_addr_list, publish,
    \* FrameThreads
    both, threads, warning,
    \* ParameterValidation
    main, defaults, applied_schemas, applied_defaults, value, verdict, reported,
    \* GenericExec
    pc, on_signal, pidfile, trigger, rotated, opened, left, postrotate, signalled, child,
    on_child_signal, pipes, written, logs,
    \* FileWait
    present, found, checked, watched, events, missed,
    \* PublishedParameters
    config, was_published, pending, installed, error_file, lost, next,
    \* ErrorPages
    active, serving, source, page, dirty, cached, manifest, state, state_file, changed, local,
    haproxy, interrupted, writes,
    \* NotebookKernel
    entered, status_code, response, posted, shown,
    \* Requests
    requested, known, connection, raises,
    \* KeyAuthorities
    key, csr, writing, started, emptied, keys,
    \* Re6stTokens
    listed, token_dict, add, remove, status, recipe, manager, registry, spent, spoiled, tokens,
    \* VirtualMachine
    image_config, boot_images, parameters, downloaded, read, disk, guest, ours, cut, starts

all == <<vars, program, at, deaths, shared_list, done, published, request, step, cell, options,
          shared, changes, used, failures, todo, certificate, crossed, broken, locked, name,
          frozen, reopened, network, pdns, failed, sim_list, addresses, sim_pdn, cells,
          gtp_addr_list, publish, both, threads, warning, main, defaults, applied_schemas,
          applied_defaults, value, verdict, reported, pc, on_signal, pidfile, trigger, rotated,
          opened, left, postrotate, signalled, child, on_child_signal, pipes, written, logs,
          present, found, checked, watched, events, missed, config, was_published, pending,
          installed, error_file, lost, next, active, serving, source, page, dirty, cached,
          manifest, state, state_file, changed, local, haproxy, interrupted, writes, entered,
          status_code, response, posted, shown, requested, known, connection, raises, key, csr,
          writing, started, emptied, keys, listed, token_dict, add, remove, status, recipe,
          manager, registry, spent, spoiled, tokens, image_config, boot_images, parameters,
          downloaded, read, disk, guest, ours, cut, starts>>

-----------------------------------------------------------------------------
T == INSTANCE Takeover
C == INSTANCE CoreNetwork WITH Shared <- SharedSims
O == INSTANCE Radio
F == INSTANCE FrameThreads
V == INSTANCE ParameterValidation
X == INSTANCE GenericExec WITH sent <- signalled
W == INSTANCE FileWait WITH File <- Awaited
P == INSTANCE PublishedParameters WITH 
    MaxFaults <- MaxFailures, MaxChanges <- MaxConfigChanges, faults <- failures
E == INSTANCE ErrorPages WITH MaxFaults <- MaxFailures, MaxWrites <- MaxStored, faults <- failures
N == INSTANCE NotebookKernel
Q == INSTANCE Requests WITH faults <- failures
K == INSTANCE KeyAuthorities WITH torn <- emptied
R == INSTANCE Re6stTokens WITH MaxFaults <- MaxFailures, faults <- failures
M == INSTANCE VirtualMachine WITH MaxChanges <- MaxMachineChanges

-----------------------------------------------------------------------------
\* What is said of the programs that are none of these.
Others(these, A) == IF program \in these THEN TRUE ELSE A

\* A variable that the program does not have is None ...
OthersUnset ==
    /\ Others({"takeover", "wait", "publish", "error pages", "request", "keys", "machine"},
              at = None)
    /\ Others({"takeover"}, broken = None /\ locked = None /\ name = None /\ frozen = None /\
                            reopened = None)
    /\ Others({"takeover", "keys"}, deaths = None)
    /\ Others({"core network"},
              network = None /\ pdns = None /\ failed = None /\ sim_list = None /\
              addresses = None /\ sim_pdn = None)
    /\ Others({"core network", "radio"}, shared_list = None)
    /\ Others({"core network", "threads"}, done = None)
    /\ Others({"core network", "publish", "request", "re6st"},
              published = None)
    /\ Others({"radio", "error pages"}, request = None)
    /\ Others({"radio"}, cells = None /\ gtp_addr_list = None /\ publish = None)
    /\ Others({"radio", "validation"}, step = None)
    /\ Others({"threads", "notebook"}, cell = None)
    /\ Others({"threads"}, both = None /\ threads = None /\ warning = None)
    /\ Others({"validation", "publish"}, options = None /\ shared = None)
    /\ Others({"validation"},
              main = None /\ defaults = None /\ applied_schemas = None /\
              applied_defaults = None /\ value = None /\ verdict = None /\ reported = None)
    /\ Others({"exec"},
              pc = None /\ on_signal = None /\ pidfile = None /\ trigger = None /\
              rotated = None /\ opened = None /\ left = None /\ postrotate = None /\
              signalled = None /\ child = None /\ on_child_signal = None /\ pipes = None /\
              written = None /\ logs = None)
    /\ Others({"wait"},
              present = None /\ found = None /\ checked = None /\ watched = None /\
              events = None /\ missed = None)
    /\ Others({"wait", "publish", "request", "re6st", "machine"},
              changes = None)
    /\ Others({"publish"},
              config = None /\ was_published = None /\ pending = None /\ installed = None /\
              error_file = None /\ lost = None /\ next = None)
    /\ Others({"publish", "request", "machine"}, used = None)
    /\ Others({"publish", "error pages", "request", "re6st"},
              failures = None)
    /\ Others({"error pages"},
              active = None /\ serving = None /\ source = None /\ page = None /\
              dirty = None /\ cached = None /\ manifest = None /\ state = None /\
              state_file = None /\ changed = None /\ local = None /\ haproxy = None /\
              interrupted = None /\ writes = None)
    /\ Others({"error pages", "request"}, todo = None)
    /\ Others({"notebook"}, entered = None /\ status_code = None /\ response = None /\
                            posted = None /\ shown = None)
    /\ Others({"request"}, requested = None /\ known = None /\ connection = None /\
                           raises = None)
    /\ Others({"keys"},
              key = None /\ csr = None /\ writing = None /\ started = None /\ emptied = None /\
              keys = None)
    /\ Others({"keys", "re6st"}, certificate = None /\ crossed = None)
    /\ Others({"re6st"},
              listed = None /\ token_dict = None /\ add = None /\ remove = None /\
              status = None /\ recipe = None /\ manager = None /\ registry = None /\
              spent = None /\ spoiled = None /\ tokens = None)
    /\ Others({"machine"},
              image_config = None /\ boot_images = None /\ parameters = None /\
              downloaded = None /\ read = None /\ disk = None /\ guest = None /\ ours = None /\
              cut = None /\ starts = None)

\* ... and stays so.
OthersStay ==
    /\ Others({"resilience"}, UNCHANGED vars)
    /\ Others({"takeover", "wait", "publish", "error pages", "request", "keys", "machine"},
              UNCHANGED at)
    /\ Others({"takeover"}, UNCHANGED <<broken, locked, name, frozen, reopened>>)
    /\ Others({"takeover", "keys"}, UNCHANGED deaths)
    /\ Others({"core network"},
              UNCHANGED <<network, pdns, failed, sim_list, addresses, sim_pdn>>)
    /\ Others({"core network", "radio"}, UNCHANGED shared_list)
    /\ Others({"core network", "threads"}, UNCHANGED done)
    /\ Others({"core network", "publish", "request", "re6st"},
              UNCHANGED published)
    /\ Others({"radio", "error pages"}, UNCHANGED request)
    /\ Others({"radio"}, UNCHANGED <<cells, gtp_addr_list, publish>>)
    /\ Others({"radio", "validation"}, UNCHANGED step)
    /\ Others({"threads", "notebook"}, UNCHANGED cell)
    /\ Others({"threads"}, UNCHANGED <<both, threads, warning>>)
    /\ Others({"validation", "publish"}, UNCHANGED <<options, shared>>)
    /\ Others({"validation"},
              UNCHANGED <<main, defaults, applied_schemas, applied_defaults, value, verdict,
                          reported>>)
    /\ Others({"exec"},
              UNCHANGED <<pc, on_signal, pidfile, trigger, rotated, opened, left, postrotate,
                          signalled, child, on_child_signal, pipes, written, logs>>)
    /\ Others({"wait"},
              UNCHANGED <<present, found, checked, watched, events, missed>>)
    /\ Others({"wait", "publish", "request", "re6st", "machine"},
              UNCHANGED changes)
    /\ Others({"publish"},
              UNCHANGED <<config, was_published, pending, installed, error_file, lost, next>>)
    /\ Others({"publish", "request", "machine"}, UNCHANGED used)
    /\ Others({"publish", "error pages", "request", "re6st"},
              UNCHANGED failures)
    /\ Others({"error pages"},
              UNCHANGED <<active, serving, source, page, dirty, cached, manifest, state,
                          state_file, changed, local, haproxy, interrupted, writes>>)
    /\ Others({"error pages", "request"}, UNCHANGED todo)
    /\ Others({"notebook"}, UNCHANGED <<entered, status_code, response, posted, shown>>)
    /\ Others({"request"}, UNCHANGED <<requested, known, connection, raises>>)
    /\ Others({"keys"},
              UNCHANGED <<key, csr, writing, started, emptied, keys>>)
    /\ Others({"keys", "re6st"}, UNCHANGED <<certificate, crossed>>)
    /\ Others({"re6st"},
              UNCHANGED <<listed, token_dict, add, remove, status, recipe, manager, registry,
                          spent, spoiled, tokens>>)
    /\ Others({"machine"},
              UNCHANGED <<image_config, boot_images, parameters, downloaded, read, disk, guest,
                          ours, cut, starts>>)

ProgramsInit ==
    /\ Init
    /\ \/ program = "resilience"
       \/ program = "takeover" /\ T!Init
       \/ program = "core network" /\ C!Init
       \/ program = "radio" /\ O!Init
       \/ program = "threads" /\ F!Init
       \/ program = "validation" /\ V!Init
       \/ program = "exec" /\ X!Init
       \/ program = "wait" /\ W!Init
       \/ program = "publish" /\ P!Init
       \/ program = "error pages" /\ E!Init
       \/ program = "notebook" /\ N!Init
       \/ program = "request" /\ Q!Init
       \/ program = "keys" /\ K!Init
       \/ program = "re6st" /\ R!Init
       \/ program = "machine" /\ M!Init
    /\ program # "resilience" => custom = {}
    /\ OthersUnset

ProgramsNext ==
    /\ \/ program = "resilience" /\ Next
       \/ program = "takeover" /\ T!Next
       \/ program = "core network" /\ C!CoreNetwork
       \/ program = "radio" /\ O!Next
       \/ program = "threads" /\ F!Next
       \/ program = "validation" /\ V!Next
       \/ program = "exec" /\ X!Next
       \/ program = "wait" /\ W!Next
       \/ program = "publish" /\ P!Next
       \/ program = "error pages" /\ E!Next
       \/ program = "notebook" /\ N!Next
       \/ program = "request" /\ Q!Next
       \/ program = "keys" /\ K!Next
       \/ program = "re6st" /\ R!Next
       \/ program = "machine" /\ M!Next
    /\ OthersStay /\ UNCHANGED program

-----------------------------------------------------------------------------
\* The fairness of each program, while it is the one that runs.
ProgramsFairness ==
    /\ WF_vars(program = "resilience" /\ (ExportStep \/ CheckPartitions))
    /\ WF_vars(program = "resilience" /\ (ServerStep \/ \E j \in {"pull", "push"} : StartJob(j)))
    /\ WF_vars(program = "resilience" /\ ImportStep)
    /\ WF_(X!vars)(program = "exec" /\ X!Wrapper)
    /\ WF_(X!vars)(program = "exec" /\ X!ReadTrigger)
    /\ WF_(X!vars)(program = "exec" /\ X!Deliver)
    /\ WF_(X!vars)(program = "exec" /\ X!SendSignal)
    /\ WF_(P!vars)(program = "publish" /\ P!Run)
    /\ WF_(E!vars)(program = "error pages" /\ E!ManagerStep)
    /\ WF_(E!vars)(program = "error pages" /\ E!UpdaterStep)
    /\ WF_(Q!vars)(program = "request" /\ Q!Run)

ProgramsSpec == ProgramsInit /\ [][ProgramsNext]_all /\ ProgramsFairness

-----------------------------------------------------------------------------
\* Every program keeps to the types of its variables.
ProgramsTypeOK ==
    /\ TypeOK
    /\ program = "takeover" => T!TypeOK
    /\ program = "exec" => X!TypeOK
    /\ program = "wait" => W!TypeOK
    /\ program = "publish" => P!TypeOK
    /\ program = "error pages" => E!TypeOK
    /\ program = "notebook" => N!TypeOK
    /\ program = "request" => Q!TypeOK
    /\ program = "keys" => K!TypeOK
    /\ program = "re6st" => R!TypeOK
    /\ program = "machine" => M!TypeOK

\* The lock file that stops imports exists only once the clone is the exporter and nobody
\* else is, also when takeovers died half way and were run again, and whoever was allocated
\* meanwhile.  Only a takeover run again on the new exporter, and killed, undoes it.
LockedCloneIsExporter == program = "takeover" => T!LockedCloneIsExporter

\* What core_network hands out keeps the SIM cards apart and tells their owners the truth.
SimsAreKeptApart == program = "core network" => C!SimsAreKeptApart

\* Every enabled cell of a box has its own: the two are told apart by every identifier a
\* phone or a neighbour uses that the user left to the box, whatever the serial number, and
\* the global identifier of an NR cell begins with that of its node (as long as gnb_id_bits
\* is at most 28, the default); each has its radio unit, with devices no other unit has (as
\* long as rf-info names them apart), as many as its antennas need and (when the first
\* channel is there) detected.  Nothing a user shared passes for a unit.
EveryCellHasItsOwn ==
    program = "radio" => O!CellsOfABoxDiffer /\ O!UnitsHaveTheirDevices

\* A box that shares its threads by itself does it by the frame that the user chose by its
\* name, the bandwidths and the antennas, and warns of an uplink that is too much.  The
\* frame counts as its name says for LTE and the configurations of 5 ms; a single pattern
\* of 2.5 ms counts for a quarter of its slots and one of 1 ms for a twenty-fifth, because
\* configure_cpu multiplies by period / 5 ms where 5 ms / period was meant.
ThreadsFollowTheFrame == program = "threads" => F!ThreadsFollowTheFrame

\* A shared instance is refused for what it is itself or, because one validator keeps what
\* it collected, for defaults of an earlier instance that could not be added: the only way
\* in which one tenant has an influence on the verdict of another.
RefusedForAReason == program = "validation" => V!RefusedForAReason

\* From the moment logrotate can know the pid, its signal kills neither the wrapper nor a
\* program that has not yet set up its handler; and when the wrapper waits for the program
\* to end, every line the program wrote is in a log.
NothingIsKilledOrLost == program = "exec" => X!NothingIsKilledOrLost

\* A wrapper that goes on running follows every rotation: the files it writes to are those
\* that logrotate put in place, whenever the signal arrives.
RotationIsFollowed ==
    []<>(program = "exec" => X!LogsAreCurrent \/ pc \in {"wait", "ended", "refused"})

\* What the wait knows once it has read its events is what there is, but for the files that
\* changed between the test of their existence and the watch of their directory.
NothingIsMissed == program = "wait" => W!NothingIsMissed

\* A service that was installed with a generated value is never given another one, whatever
\* runs die: the value was published before any part was installed (publish_early.py,
\* "parameters that should be published before requesting any partitions"); except where an
\* early publication has dropped it.
ServicesKeepTheirValue == [][program = "publish" => P!GivesNoOther]_all

\* Once neither configuration nor faults interfere, the parameters of the partition and of
\* its shared instance are those of the configuration, and the services agree with them.
PublicationConverges == <>[](program = "publish" => P!AllPublished)

\* Once the pages are left alone every frontend serves the page that is published for each
\* shared instance, or that of the cluster, whatever requests and restarts crossed the polls;
\* unless an updater died between its first change and the reload of haproxy.
FrontendsConverge == <>[](program = "error pages" => interrupted \/ E!PagesAreServed)

\* What a cell shows as its result is what became of its own post, never the answer to an
\* earlier cell; its code was posted once, or its result is the text of an exception; and
\* code is only posted with all the magics entered.
ResultIsOfTheCell == program = "notebook" => N!ResultIsOfTheCell

\* A part that needs a child is never installed with a value missing, nor again with an older
\* value than it has, through failures of SlapOS Master and partial publications; and when no
\* mandatory value is missing any more, every part ends up installed with what its child
\* published last.
MandatoryValuesArrive ==
    /\ [][program = "request" => Q!UsesEveryValue]_all
    /\ <>[](program = "request" /\ Q!AllComplete
              => \A c \in Child : used[c] = published[c])

\* Through deaths of the authorities and removals, a key and a certificate that are both
\* there belong together once their makers are done; except where a provided pair crossed
\* one that was being made, or the certificate was left without content.
PairsMatch == program = "keys" => K!PairsMatch

\* A shared instance of a re6st registry that was removed keeps no access, neither a token nor
\* a certificate, through refusals, deaths and a token used at the last moment; and an owner
\* is told that the token was used only if it was.  Except for instances that came back
\* before their removal was over, or whose files or token a death has left behind.
AccessFollowsTheList == program = "re6st" => R!AccessFollowsTheList

\* A guest runs from the disk that was asked for when it was made: a copy of the very image
\* that the configuration named, or an empty one if none was, never an empty disk in place of
\* an image that was late; and what it has written stays.  The disk is whole unless the
\* program was stopped while it copied or while qemu-img created the disk, or qemu-img failed
\* and left a part: the next start takes that part for the disk.
GuestHasItsDisk == program = "machine" => M!GuestHasItsDisk
=============================================================================
