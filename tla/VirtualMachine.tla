---------------------------- MODULE VirtualMachine ----------------------------
(***************************************************************************)
(* software/kvm/template/template-kvm-run.py: the program that supervisord *)
(* runs for a virtual machine.  It makes the disk of the guest, a copy of  *)
(* an image that another program downloads or an empty one, and starts     *)
(* qemu in a session of its own, to stop it cleanly on a signal.           *)
(*                                                                         *)
(* Signals come at every step.  What is left out are the arguments of qemu *)
(* that depend on parameters alone (network, numa, cpu): it is one boolean *)
(* whether the program refuses them.  External: qemu locks the disk and    *)
(* its pid file, and qemu-img does not open a disk that is locked; it      *)
(* writes the file of a new disk bit by bit, is stopped with the program,  *)
(* and when it fails may leave a part of it.                               *)
(***************************************************************************)
EXTENDS Naturals, FiniteSets

CONSTANTS
    Image,          \* images that can be downloaded
    Path,           \* paths of the disk, one per format
    Device,         \* of Path, physical disks
    None,
    MaxChanges,     \* bound: changes of the parameters, signals and failures
    MaxStarts       \* bound: starts of the program

VARIABLES
    image_config,   \* the file virtual-hard-drive-url.json: an image, an error, or None
    boot_images,    \* images to boot from
    parameters,     \* the parameter file: path of the disk, whether an image is asked for,
                    \* whether the arguments can be built
    downloaded,     \* images in the destination directory
    at,             \* the step of the program, "ended" when it does not run
    read,           \* parameters as the program read them
    disk,           \* per path its content, or None if there is no file
    guest,          \* the qemu process: its disk, whether it answers on its socket, or None
    ours,           \* the qemu process is a child of the program that runs
    used,           \* paths of the disks that a guest has written to
    cut,            \* paths of disks whose copying or creation did not come to its end
    changes, starts

disks == <<disk, used, cut>>
config == <<image_config, boot_images, parameters, downloaded>>
vars == <<config, at, read, disks, guest, ours, changes, starts>>

Error == "error"
Parameters == [path : Path, image : BOOLEAN, valid : BOOLEAN]
\* What a disk was copied from, or None for an empty one; what was asked for when it was
\* made, the error of a wrong image too; whether it is whole; whether a guest has written to it.
Content == [of : Image \cup {None}, asked : Image \cup {Error, None},
            whole : BOOLEAN, written : BOOLEAN]
Empty == [of |-> None, asked |-> None, whole |-> TRUE, written |-> FALSE]

TypeOK ==
    /\ image_config \in Image \cup {Error, None} /\ boot_images \subseteq Image
    /\ parameters \in Parameters /\ read \in Parameters /\ downloaded \subseteq Image
    /\ at \in {"ended", "disk", "copying", "creating", "arguments", "ignoring", "spawned",
                "waiting"}
    /\ disk \in [Path -> Content \cup {None}]
    /\ guest \in [path : Path, answers : BOOLEAN] \cup {None} /\ ours \in BOOLEAN
    /\ used \subseteq Path /\ cut \subseteq Path
    /\ changes \in 0..MaxChanges /\ starts \in 0..MaxStarts

Init ==
    /\ image_config = None /\ boot_images = {} /\ downloaded = {}
    /\ parameters \in {p \in Parameters : ~p.image /\ p.valid} /\ read = parameters
    /\ at = "ended" /\ guest = None /\ ours = FALSE
    /\ disk = [p \in Path |-> IF p \in Device THEN Empty ELSE None]
    /\ used = {} /\ cut = {} /\ changes = 0 /\ starts = 0

-----------------------------------------------------------------------------
(* Buildout and the programs that download images. *)

Change == changes < MaxChanges /\ changes' = changes + 1

WriteImageConfig ==
    /\ Change
    /\ \/ image_config' \in (Image \cup {Error}) \ {image_config} /\ UNCHANGED boot_images
       \/ boot_images' \in SUBSET Image \ {boot_images} /\ UNCHANGED image_config
    /\ UNCHANGED <<parameters, downloaded, at, read, disks, guest, ours, starts>>

\* After the configuration of the images, in the same run.
WriteParameters ==
    /\ Change
    /\ parameters' \in Parameters \ {parameters}
    /\ parameters'.image => image_config # None
    /\ UNCHANGED <<image_config, boot_images, downloaded, at, read, disks, guest, ours, starts>>

\* An image appears whole, under its checksum; those that are not wanted are removed.
Wanted == boot_images \cup (IF image_config \in Image THEN {image_config} ELSE {})

Download ==
    /\ \E i \in Wanted \ downloaded : downloaded' = (downloaded \cap Wanted) \cup {i}
    /\ UNCHANGED <<image_config, boot_images, parameters, at, read, disks, guest, ours,
                   changes, starts>>

-----------------------------------------------------------------------------
(* The program. *)

Goes(step) == at' = step /\ UNCHANGED <<config, changes, starts>>
Raises == at' = "ended" /\ ours' = FALSE /\ UNCHANGED <<config, read, changes, starts>>

\* supervisord starts the program, again when it has ended.
Start ==
    /\ at = "ended" /\ starts < MaxStarts /\ starts' = starts + 1
    /\ at' = "disk" /\ read' = parameters
    /\ UNCHANGED <<config, disks, guest, ours, changes>>

Missing == at = "disk" /\ disk[read.path] = None

\* The image that the disk is to be a copy of, as the configuration names it now.
Asked == IF read.image THEN image_config ELSE None

ImageReady == image_config \in Image /\ image_config \in downloaded

\* Variant of UsesImage: an image that is not ready is not waited for.
UsesReadyImage == read.image /\ image_config \in Image /\ image_config \in downloaded

\* The disk is to be a copy of the image.
UsesImage == read.image

BeginCopy ==
    /\ Missing /\ UsesImage /\ ImageReady
    /\ disk' = [disk EXCEPT ![read.path] =
                   [of |-> image_config, asked |-> Asked, whole |-> FALSE, written |-> FALSE]]
    /\ Goes("copying") /\ UNCHANGED <<read, used, cut, guest, ours>>

NotReady ==
    /\ Missing /\ UsesImage /\ ~ImageReady
    /\ Raises /\ UNCHANGED <<disks, guest>>

Copied ==
    /\ at = "copying"
    /\ disk' = [disk EXCEPT ![read.path].whole = TRUE]
    /\ Goes("disk") /\ UNCHANGED <<read, used, cut, guest, ours>>

\* The file of a copy that fails is removed.
CopyFails ==
    /\ at = "copying" /\ Change
    /\ disk' = [disk EXCEPT ![read.path] = None]
    /\ at' = "ended" /\ UNCHANGED <<config, read, used, cut, guest, ours, starts>>

\* qemu-img create has made the file, and then comes to its end, or fails: then the program
\* ends with what qemu-img left.
BeginCreate ==
    /\ Missing /\ ~UsesImage
    /\ disk' = [disk EXCEPT ![read.path] = [Empty EXCEPT !.asked = Asked, !.whole = FALSE]]
    /\ Goes("creating") /\ UNCHANGED <<read, used, cut, guest, ours>>

Created ==
    /\ at = "creating"
    /\ disk' = [disk EXCEPT ![read.path].whole = TRUE]
    /\ Goes("arguments") /\ UNCHANGED <<read, used, cut, guest, ours>>

CreateFails ==
    /\ at = "creating" /\ Change
    /\ \/ disk' = [disk EXCEPT ![read.path] = None] /\ UNCHANGED cut
       \/ cut' = cut \cup {read.path} /\ UNCHANGED disk
    /\ at' = "ended" /\ UNCHANGED <<config, read, used, guest, ours, starts>>

\* qemu-img looks for old bitmaps in a disk that exists; it fails when a guest uses the disk,
\* and may fail on a part of one.  Physical disks are taken as they are.
InUse == read.path \notin Device /\ guest # None /\ guest.path = read.path

CheckDisk ==
    /\ at = "disk" /\ disk[read.path] # None
    /\ \/ ~InUse /\ Goes("arguments") /\ UNCHANGED <<read, disks, guest, ours>>
       \/ /\ (InUse \/ ~disk[read.path].whole)
          /\ Raises /\ UNCHANGED <<disks, guest>>

\* Arguments that cannot be built (also for errors in the configuration of the images to
\* boot from), or an image to boot from that is not there yet.
Refused == ~read.valid \/ ~(boot_images \subseteq downloaded)

BuildArguments ==
    /\ at = "arguments"
    /\ IF Refused THEN Raises /\ UNCHANGED <<disks, guest>>
       ELSE Goes("ignoring") /\ UNCHANGED <<read, disks, guest, ours>>

\* A second qemu ends at once: the pid file is locked.
Popen ==
    /\ at = "ignoring"
    /\ IF guest = None
       THEN guest' = [path |-> read.path, answers |-> FALSE] /\ ours' = TRUE
       ELSE UNCHANGED <<guest, ours>>
    /\ Goes("spawned") /\ UNCHANGED <<read, disks>>

RegisterSignals ==
    /\ at = "spawned"
    /\ Goes("waiting") /\ UNCHANGED <<read, disks, guest, ours>>

\* The child has ended.
Wait ==
    /\ at = "waiting" /\ ~ours
    /\ Raises /\ UNCHANGED <<disks, guest>>

-----------------------------------------------------------------------------
(* The guest, and signals. *)

GuestAnswers ==
    /\ guest # None /\ ~guest.answers
    /\ guest' = [guest EXCEPT !.answers = TRUE]
    /\ UNCHANGED <<config, at, read, disks, ours, changes, starts>>

GuestWrites ==
    /\ guest # None
    /\ disk' = [disk EXCEPT ![guest.path].written = TRUE]
    /\ used' = used \cup {guest.path}
    /\ UNCHANGED <<config, at, read, cut, guest, ours, changes, starts>>

GuestEnds ==
    /\ guest # None /\ Change
    /\ guest' = None /\ ours' = FALSE
    /\ UNCHANGED <<config, at, read, disks, starts>>

Killed ==
    /\ at' = "ended" /\ ours' = FALSE
    /\ cut' = IF at \in {"copying", "creating"} THEN cut \cup {read.path} ELSE cut
    /\ UNCHANGED <<config, read, disk, used, starts>>

\* The program is stopped: before it ignores signals it is killed, also while it copies
\* or qemu-img creates the disk; while it ignores them, nothing happens.
Terminated ==
    /\ at \in {"disk", "copying", "creating", "arguments"} /\ Change
    /\ Killed /\ UNCHANGED guest

\* clean_shutdown_handler: qemu is told to quit, and the program waits for its end; when
\* nobody answers the handler raises an exception, which ends the program.
CleanShutdown ==
    /\ at = "waiting" /\ Change
    /\ IF guest # None /\ guest.answers
       THEN guest' = None /\ ours' = FALSE /\ UNCHANGED <<config, at, read, disks, starts>>
       ELSE Killed /\ UNCHANGED guest

\* SIGKILL, when it did not stop in time: qemu, in its own session, goes on.
KilledHard ==
    /\ at # "ended" /\ Change
    /\ Killed /\ UNCHANGED guest

Program ==
    \/ Start \/ BeginCopy \/ NotReady \/ Copied \/ BeginCreate \/ Created \/ CheckDisk
    \/ BuildArguments \/ Popen \/ RegisterSignals \/ Wait

Next ==
    \/ WriteImageConfig \/ WriteParameters \/ Download
    \/ Program \/ CopyFails \/ CreateFails
    \/ GuestAnswers \/ GuestWrites \/ GuestEnds \/ Terminated \/ CleanShutdown \/ KilledHard

Spec == Init /\ [][Next]_vars

-----------------------------------------------------------------------------
\* A guest runs from the disk that was asked for when it was made: a copy of the very image
\* that the configuration named, or an empty one if none was, never an empty disk in place of
\* an image that was late.  The disk is whole unless the program was stopped while it copied
\* or while qemu-img created the disk, or qemu-img failed and left a part (cut): the next start
\* takes that part for the disk.  What a guest has written stays, through failures, changes of
\* the parameters and of the image, and programs that end before their qemu.
GuestHasItsDisk ==
    /\ guest # None =>
          LET d == disk[guest.path]
          IN  d.of = d.asked /\ (d.whole \/ guest.path \in cut)
    /\ \A p \in used : disk[p] # None /\ disk[p].written
=============================================================================
