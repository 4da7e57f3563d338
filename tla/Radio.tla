-------------------------------- MODULE Radio --------------------------------
(***************************************************************************)
(* ors_radio() of software/simpleran/script/parse-parameters.py: from the  *)
(* radio hardware that was detected and the parameters of the cells to the *)
(* radio units and cells of the instance, their identifiers and what is    *)
(* published of them.  Frequencies, gains, bandwidths and the neighbours of *)
(* the cells (peer cells, X2 and Xn peers) are left out; the threads are   *)
(* module FrameThreads.                                                    *)
(*                                                                         *)
(* An action is a part of the function: the cells, configure_rf_parameters *)
(* for each, the list of shared instances with gtp_addr(), and the merge of*)
(* what is published.                                                      *)
(***************************************************************************)
EXTENDS Integers, FiniteSets, Sequences

CONSTANTS
    Serial,         \* serial numbers of a box
    GnbIdBits,      \* values of gnb_id_bits
    Antennas,       \* greater of n_antenna_dl and n_antenna_ul
    Settings,       \* what the user and rf-info set, see below
    None            \* no value

Cell == 1..2

VARIABLES
    request,        \* the parameters and the hardware
    cells,          \* per cell: enabled, type, device numbers, identifiers
    shared_list,    \* radio units, cells and rejected instances
    gtp_addr_list,
    publish,        \* per key, what is published per cell
    step            \* "cells", "configure", "share", "merge", "done", "failed"

vars == <<request, cells, shared_list, gtp_addr_list, publish, step>>

\* A setting: per cell the identifiers that the user chose, the user's identifiers of the node
\* as an eNB and as a gNB, and the device that rf-info names for a channel; None if not set.
\* (A text is the number it is read as; a device 0 that is a number is taken for not set, and is
\* None here: line 406 has `or i`.)
OwnId == Nat \cup {None}
Setting == [cell : [Cell -> [pci : OwnId, root : OwnId, cell_id : OwnId]],
            enb : OwnId, gnb : OwnId, sdr_dev : [{0, 1} -> OwnId]]

Choice == {"eNB", "gNB", "NB", "disabled"}

\* A cell as the parameters leave it.
Fresh == [enabled |-> FALSE, type |-> None, devices |-> <<>>, pci |-> None,
          root |-> None, cell_id |-> None, global |-> None]

Init ==
    /\ request \in [sr_type : {"enb-gnb", "ue"}, detected : SUBSET {0, 1},
                    choice : {<<a, b>> : a \in Choice, b \in Choice \cup {None}},
                    sn : Serial, bits : GnbIdBits, antennas : Antennas,
                    foreign : BOOLEAN, setting : Settings, cell_number : 1..2]
    /\ IF request.sr_type = "ue" THEN request.choice[1] \in {"eNB", "gNB"} /\ request.choice[2] = None
       ELSE request.cell_number = 1
    /\ cells = [c \in Cell |-> Fresh]
    /\ shared_list = {} /\ gtp_addr_list = {} /\ publish = <<>>
    /\ step = "cells"

-----------------------------------------------------------------------------
\* sdr_list: the channels with a model, in the order of their numbers.
SdrCount == Cardinality(request.detected)
Channel(c) == IF 0 \in request.detected THEN c - 1 ELSE 1

SetDefault(set, default) == IF set = None THEN default ELSE set

\* The device of the c-th channel, which rf-info may name.
SdrDev(c) == SetDefault(request.setting.sdr_dev[Channel(c)], c - 1)

\* An enabled cell is one that was asked for and whose hardware was detected.  In UE mode
\* both cells become config['cell'], which has no model, so that neither is enabled.
Enabled(c) ==
    /\ request.sr_type # "ue"
    /\ request.choice[c] \notin {"disabled", None}
    /\ c <= SdrCount

SelectCells ==
    /\ step = "cells" /\ step' = "configure"
    /\ cells' = [c \in Cell |->
            [Fresh EXCEPT !.enabled = Enabled(c),
                          !.type = IF request.sr_type = "ue" THEN request.choice[1]
                                   ELSE request.choice[c]]]
    /\ UNCHANGED <<request, shared_list, gtp_addr_list, publish>>

-----------------------------------------------------------------------------
(* configure_rf_parameters *)

IsNr(c) == cells[c].type = "gNB"
Doubled(c) == IF IsNr(c) THEN 2 ELSE 1

Own(c) == request.setting.cell[c]

Pci(c) == SetDefault(Own(c).pci, (request.sn + (c - 1) * 252 * Doubled(c)) % (504 * Doubled(c)))
RootSequence(c) == SetDefault(Own(c).root, (request.sn + (c - 1) * 79) % 138)

\* Variant of CellId: the offset of the second cell is the modulus.
CellIdOfTheBox(c) == SetDefault(Own(c).cell_id, (request.sn + (c - 1) * 128) % 128)
CellId(c) == SetDefault(Own(c).cell_id, (request.sn + (c - 1) * 128) % 256)

NodeId(c) ==
    IF IsNr(c) THEN SetDefault(request.setting.gnb, (request.sn + 2^19) % 2^20)
    ELSE SetDefault(request.setting.enb, request.sn % 2^20)

\* global_id: node * 2^n + cell, as the pair of what is left of the n low bits and these.
GlobalId(c) ==
    LET n == IF IsNr(c) THEN 36 - request.bits ELSE 8
    IN  <<NodeId(c) + CellId(c) \div 2^n, CellId(c) % 2^n>>

\* The keys that are published of a cell.
KeysOf(c) ==
    {"frequency"}
        \cup (IF IsNr(c) THEN {"nr-arfcn", "nr-cell-id"} ELSE {"earfcn"})
        \cup (IF cells[c].type = "eNB" THEN {"eutra-cell-id"} ELSE {})

\* configure_rf_parameters returns early for a cell that is not enabled.
PublishedCells == {c \in Cell : c <= SdrCount /\ cells[c].enabled}

ConfigureRfParameters ==
    /\ step = "configure" /\ step' = "share"
    /\ cells' = [c \in Cell |->
            [cells[c] EXCEPT
                !.devices = IF c <= SdrCount THEN <<SdrDev(c)>> ELSE <<>>,
                !.pci     = IF cells[c].enabled THEN Pci(c) ELSE None,
                !.root    = IF cells[c].enabled THEN RootSequence(c) ELSE None,
                !.cell_id = IF cells[c].enabled THEN CellId(c) ELSE None,
                !.global  = IF cells[c].enabled /\ cells[c].type # "NB"
                            THEN GlobalId(c) ELSE None]]
    /\ publish' = [k \in UNION {KeysOf(c) : c \in PublishedCells} |->
                      [c \in {d \in PublishedCells : k \in KeysOf(d)} |-> c]]
    /\ UNCHANGED <<request, shared_list, gtp_addr_list>>

-----------------------------------------------------------------------------
(* The list of shared instances. *)

\* More antennas than a device has: the first cell takes both devices.
ManyAntennas == request.antennas > 2

\* The assertion, and the device of a second cell where none was detected.
ShareFails ==
    ManyAntennas /\ (cells[2].enabled \/ (cells[1].enabled /\ SdrCount < 2))

Devices(c) ==
    IF ManyAntennas /\ c = 1 THEN cells[1].devices \o cells[2].devices
    ELSE cells[c].devices

\* A real radio unit or cell among the shared instances of the user is made to be rejected.
Foreign == IF request.foreign THEN {[kind |-> "reject"]} ELSE {}

\* UE mode has one radio unit, with the device of the cell that is named whatever was
\* detected, one cell and one SIM card.
UeList == {[kind |-> "ru", ref |-> 1, devices |-> <<request.cell_number - 1>>],
           [kind |-> "cell", ref |-> 1], [kind |-> "ue"]}

NodeList ==
    {[kind |-> "ru", ref |-> c, devices |-> Devices(c)] : c \in {d \in Cell : cells[d].enabled}}
    \cup {[kind |-> "cell", ref |-> c] : c \in {d \in Cell : cells[d].enabled}}

\* The servers that are kept: the MMEs of 4G cells, the AMFs of 5G cells.
Servers ==
    (IF \E c \in Cell : cells[c].enabled /\ cells[c].type # "gNB" THEN {"mme"} ELSE {})
    \cup (IF \E c \in Cell : cells[c].enabled /\ cells[c].type = "gNB" THEN {"amf"} ELSE {})

\* gtp_addr: "Automatic" has an address per server, or the one of the local host.
GtpAddr == IF Servers = {} THEN {"localhost"} ELSE {<<"towards", s>> : s \in Servers}

Share ==
    /\ step = "share" /\ request.sr_type # "ue" /\ ~ShareFails
    /\ step' = "merge"
    /\ shared_list' = Foreign \cup NodeList
    /\ gtp_addr_list' = GtpAddr
    /\ UNCHANGED <<request, cells, publish>>

ShareUe ==
    /\ step = "share" /\ request.sr_type = "ue" /\ step' = "merge"
    /\ shared_list' = UeList \cup (IF request.foreign THEN {[kind |-> "foreign"]} ELSE {})
    /\ UNCHANGED <<request, cells, gtp_addr_list, publish>>

Fail ==
    /\ step = "share" /\ request.sr_type # "ue" /\ ShareFails /\ step' = "failed"
    /\ UNCHANGED <<request, cells, shared_list, gtp_addr_list, publish>>

\* publish_merge_cell: the values in the order of the cells, with "Not applicable" for an
\* enabled cell without one.
Merged(published) ==
    LET shown == published \cup {c \in Cell : cells[c].enabled}
        nth(i) == CHOOSE d \in shown : Cardinality({e \in shown : e < d}) = i - 1
    IN  [i \in 1..Cardinality(shown) |-> IF nth(i) \in published THEN nth(i) ELSE None]

PublishMergeCell ==
    /\ step = "merge" /\ step' = "done"
    /\ publish' = [k \in DOMAIN publish |-> Merged(DOMAIN publish[k])]
    /\ UNCHANGED <<request, cells, shared_list, gtp_addr_list>>

Next ==
    SelectCells \/ ConfigureRfParameters \/ Share \/ ShareUe \/ Fail \/ PublishMergeCell

Spec == Init /\ [][Next]_vars

-----------------------------------------------------------------------------
\* The two cells of a box are told apart by every identifier a phone or a neighbour uses that
\* the user left to the box, whatever the serial number; and the global identifier of an NR
\* cell begins with the identifier of its node, as long as the cell identifier, left to the
\* box, fits the bits left for it (gnb_id_bits at most 28, the default).  What the user chose
\* for a cell is kept as it is, also when the other cell has the same.
CellsOfABoxDiffer ==
    step \in {"merge", "done"} =>
        LET unset(k) == \A c \in Cell : Own(c)[k] = None
        IN  /\ cells[1].enabled /\ cells[2].enabled =>
                  /\ unset("cell_id") => cells[1].cell_id # cells[2].cell_id
                  /\ unset("root") => cells[1].root # cells[2].root
                  /\ unset("pci") /\ IsNr(1) = IsNr(2) => cells[1].pci # cells[2].pci
                  /\ unset("cell_id") /\ cells[1].type = cells[2].type /\ cells[1].type # "NB"
                        => cells[1].global # cells[2].global
            /\ \A c \in Cell :
                  cells[c].global # None /\ Own(c).cell_id = None /\ (IsNr(c) => request.bits <= 28)
                    => cells[c].global[1] = NodeId(c)

\* rf-info names no device, or another for each channel.
DevicesNamedApart ==
    LET named == request.setting.sdr_dev
    IN  (named[0] = None /\ named[1] = None) \/ (None \notin {named[0], named[1]} /\ named[0] # named[1])

\* Every enabled cell has its radio unit, no device serves two units, a unit has the
\* devices its antennas need, and (when the first channel is there) they are those of
\* channels that were detected: unless rf-info names a device for one channel only, which
\* may be the one that the other has, or the same for both.  Nothing the user shared passes
\* for a radio unit.
UnitsHaveTheirDevices ==
    step \in {"merge", "done"} /\ request.sr_type # "ue" =>
        LET units == {e \in shared_list : e.kind = "ru"}
            used(e) == {e.devices[i] : i \in DOMAIN e.devices}
            there == {SetDefault(request.setting.sdr_dev[ch], ch) : ch \in request.detected}
        IN  /\ {e.ref : e \in units} = {c \in Cell : cells[c].enabled}
            /\ {e.ref : e \in units} = {e.ref : e \in {x \in shared_list : x.kind = "cell"}}
            /\ DevicesNamedApart =>
                  /\ \A e, f \in units : e # f => used(e) \cap used(f) = {}
                  /\ \A e \in units : request.antennas <= 2 * Cardinality(used(e))
            /\ 0 \in request.detected => \A e \in units : used(e) \subseteq there
=============================================================================
