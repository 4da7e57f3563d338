----------------------------- MODULE CoreNetwork -----------------------------
(***************************************************************************)
(* core_network() of software/simpleran/script/parse-parameters.py: from   *)
(* the network of the partition and the shared instances (SIM cards and    *)
(* DNS entries), the address ranges of the packet data networks (PDN), the *)
(* addresses of the SIM cards and what each shared instance is sent.       *)
(*                                                                         *)
(* An IPv4 address is a number; an IPv6 address is a number too, and the   *)
(* prefixes, of 2^64 addresses in the code, are of Prefix addresses here.  *)
(* A forced address is what its owner wrote: [address, spelling], where    *)
(* the spelling is that of netaddr or another one of the same address.     *)
(* A shared instance is a record: its kind, its IMSI (a number that orders *)
(* like the text), which of its numbers has a wrong length, the addresses  *)
(* it forces and whether it sets a flag (multicast, broadcast or routes),  *)
(* these for the first PDN, and whether its owner turned it off.           *)
(* A PDN is what the user set of it: fixed_ips, and what of its two ranges *)
(* (ipv4, ipv4_start, ipv4_end, and the same of IPv6, in prefixes).        *)
(***************************************************************************)
EXTENDS Integers, FiniteSets, Sequences

CONSTANTS
    MaxShared,      \* bound: shared instances
    Shared,         \* the shared instances there may be
    Tunnel,         \* the networks: [start4, end4, start6, end6]
    Pdn,            \* the PDNs there may be
    Prefix,         \* addresses in an IPv6 prefix
    None,           \* no address
    NoRoom          \* sent in place of an address: too many SIM cards

VARIABLES
    network,        \* of Tunnel: tun-ipv4-addr, -network, tun-ipv6-addr, -network
    pdns,           \* the PDNs of the configuration, in order
    shared_list,    \* the shared instances
    done,           \* core_network returned
    failed,         \* it raised
    sim_list,       \* the parameters of the SIM cards, with error and disable_sim
    addresses,      \* per PDN, per SIM card: ipv4_addr, ipv6_prefix
    sim_pdn,        \* per SIM card, the PDNs in its pdn_list
    published       \* per shared instance, what it is sent

vars == <<network, pdns, shared_list, done, failed, sim_list, addresses, sim_pdn, published>>

Init ==
    /\ network \in Tunnel
    /\ pdns \in {<<f>> : f \in Pdn} \cup {<<f, g>> : f, g \in Pdn}
    /\ shared_list \in UNION {[1..n -> Shared] : n \in 0..MaxShared}
    /\ done = FALSE /\ failed = FALSE
    /\ sim_list = {} /\ addresses = <<>> /\ sim_pdn = <<>> /\ published = <<>>

Index == DOMAIN shared_list

-----------------------------------------------------------------------------
(* SIM cards. *)

\* check_dup: every shared instance counts, disabled or not.
Duplicate(s) ==
    shared_list[s].kind = "sim"
    /\ \E t \in Index \ {s} :
          shared_list[t].kind = "sim" /\ shared_list[t].imsi = shared_list[s].imsi

\* parse_sim_param and check_dup: the error a SIM card ends with.
SimError(s) ==
    CASE Duplicate(s) -> "duplicate"
      [] shared_list[s].wrong = "plmn" /\ ~Duplicate(s) -> "plmn"
      [] shared_list[s].wrong = "msin" /\ ~Duplicate(s) -> "msin"
      [] OTHER -> "none"

\* disable_faulty_sim; disable_sim may also be set by the owner of the SIM card.
Disabled(s) == SimError(s) # "none" \/ shared_list[s].off

\* The shared instances that have a key are SIM cards; those with a subdomain are not.
Sims == {s \in Index : shared_list[s].kind = "sim"}

\* The mobile network code comes from the PLMN: without a PLMN of a known length there is
\* none, and the private identity (impi) of the SIM card cannot be made.
Raises == \E s \in Sims : shared_list[s].wrong = "plmn"

\* sorted by IMSI, and stable
Before(s, t) ==
    shared_list[s].imsi < shared_list[t].imsi
    \/ (shared_list[s].imsi = shared_list[t].imsi /\ s < t)

-----------------------------------------------------------------------------
(* Ranges and addresses of PDN number i. *)

Interval4 == (network.end4 - network.start4) \div 2
Interval6 == (((network.end6 - network.start6) \div 2) \div Prefix) * Prefix

Start4(i) == network.start4 + (i - 1) * (Interval4 + 1)
Start6(i) == (network.start6 \div Prefix) * Prefix + (i - 1) * Interval6

\* first_addr, first_addrv6 (in prefixes) and the ends that go with them; the last prefix
\* is not rounded as the first is.
First4(i) == Start4(i) + 1
Last4(i) == Start4(i) + Interval4 - 2
First6(i) == Start6(i) \div Prefix + 1
Last6(i) == (network.start6 + i * Interval6 - 1) \div Prefix

SetDefault(given, default) == IF given = None THEN default ELSE given

\* What the PDN is configured with: what the user set, else what the network gives.
Range4(i) ==
    [gateway |-> SetDefault(pdns[i].ipv4, Start4(i)),
     first |-> SetDefault(pdns[i].ipv4_start, First4(i)),
     last |-> SetDefault(pdns[i].ipv4_end, Last4(i))]
Range6(i) ==
    [gateway |-> SetDefault(pdns[i].ipv6, Start6(i) \div Prefix),
     first |-> SetDefault(pdns[i].ipv6_start, First6(i)),
     last |-> SetDefault(pdns[i].ipv6_end, Last6(i))]

TooMany(i) == Cardinality(Sims) > Last4(i) - First4(i)

\* What the SIM cards force in the first PDN; the model forces none in the second.
ForcedBy(i, s, version) ==
    CASE i # 1       -> None
      [] version = 4 -> shared_list[s].force4
      [] OTHER       -> shared_list[s].force6

\* The SIM cards whose forced address is found when it is compared with the text of one
\* that is to be handed out: those that are spelled as netaddr spells them.
Recognised(i, version) ==
    {s \in Sims : ForcedBy(i, s, version) # None /\ ForcedBy(i, s, version).spelling = "netaddr"}
ForcedIn(i, version) == {ForcedBy(i, s, version).address : s \in Recognised(i, version)}

\* Variant of NextFree: an address somebody forced is handed out again.
NextOne(taken, from) == from

NextFree(taken, from) == CHOOSE a \in from..(from + Cardinality(taken)) :
    a \notin taken /\ \A b \in from..(a - 1) : b \in taken

\* The k-th of the addresses handed out from first on: those that are forced are skipped.
Handed(taken, first) ==
    LET h[k \in 0..MaxShared] ==
            IF k = 0 THEN first - 1 ELSE NextFree(taken, h[k - 1] + 1)
    IN  h

\* What SIM card s gets, in the order of the IMSIs, when the first address is first.
Allocate(i, s, version, first) ==
    LET free == {t \in Sims : ForcedBy(i, t, version) = None}
    IN  IF s \notin free THEN ForcedBy(i, s, version).address
        ELSE Handed(ForcedIn(i, version), first)[Cardinality({t \in free : Before(t, s)}) + 1]

\* Allocation of fixed addresses, whatever range the user set; the IPv6 ones begin two
\* prefixes further.
Allocated(i) ==
    [s \in Sims |->
        CASE ~pdns[i].fixed_ips -> [ipv4 |-> None, ipv6 |-> None]
          [] pdns[i].fixed_ips /\ TooMany(i)  -> [ipv4 |-> NoRoom, ipv6 |-> None]
          [] pdns[i].fixed_ips /\ ~TooMany(i) ->
                [ipv4 |-> Allocate(i, s, 4, First4(i)),
                 ipv6 |-> Allocate(i, s, 6, First6(i) + 2)]]

\* Multicast, broadcast or routes of the first PDN.
Flagged(i, s) == i = 1 /\ shared_list[s].flag

\* The PDNs a SIM card is left with: one without address and without flag is removed.
Attached(s) ==
    {i \in DOMAIN pdns : Allocated(i)[s].ipv4 # None \/ Flagged(i, s)}

\* What a shared instance is sent.
Published(s) ==
    CASE shared_list[s].kind = "dns" -> "entry"
      [] shared_list[s].kind = "sim" /\ SimError(s) # "none" -> SimError(s)
      [] shared_list[s].kind = "sim" /\ SimError(s) = "none" /\ shared_list[s].off -> "disabled"
      [] OTHER -> "attached"

CoreNetwork ==
    /\ ~done /\ done' = TRUE
    /\ failed' = Raises
    /\ sim_list' = IF Raises THEN {} ELSE {[sim |-> s, disabled |-> Disabled(s)] : s \in Sims}
    /\ addresses' = IF Raises THEN <<>> ELSE [i \in DOMAIN pdns |-> Allocated(i)]
    /\ sim_pdn' = IF Raises THEN <<>> ELSE [s \in Sims |-> Attached(s)]
    /\ published' = IF Raises THEN <<>> ELSE [s \in Index |-> Published(s)]
    /\ UNCHANGED <<network, pdns, shared_list>>

Spec == Init /\ [][CoreNetwork]_vars

-----------------------------------------------------------------------------
\* The user left the range of the PDN to the code.
Unset4(i) == pdns[i].ipv4 = None /\ pdns[i].ipv4_start = None /\ pdns[i].ipv4_end = None
Unset6(i) == pdns[i].ipv6 = None /\ pdns[i].ipv6_start = None /\ pdns[i].ipv6_end = None

\* The address of the SIM card is not one that it forced in a spelling of its own.
Spelled(i, s, version) == ForcedBy(i, s, version) = None \/ s \in Recognised(i, version)

\* An address that was not forced is the address of no other SIM card of the PDN, unless
\* that one forces it in another spelling than netaddr's: texts are compared.  An IPv4
\* address that was not forced is in the range of the PDN, however many of the addresses in
\* between are forced; where the user set the range, it is in the one that the code would
\* have set, since what the user set is not looked at.
AddressesAreDistinct ==
    done /\ ~failed =>
        \A i \in DOMAIN pdns : \A s, t \in Sims :
            LET a == addresses[i][s]
                b == addresses[i][t]
            IN  /\ a.ipv4 \notin {None, NoRoom} /\ ForcedBy(i, s, 4) = None
                      => /\ a.ipv4 \in First4(i)..Last4(i)
                         /\ Unset4(i) => a.ipv4 \in Range4(i).first..Range4(i).last
                         /\ s # t /\ Spelled(i, t, 4) => a.ipv4 # b.ipv4
                /\ a.ipv6 # None /\ ForcedBy(i, s, 6) = None /\ s # t /\ Spelled(i, t, 6)
                      => a.ipv6 # b.ipv6

\* The ranges of two PDNs do not meet, nor does the last leave the network, unless the user
\* set them.  For IPv6 this holds when the address of the partition is the first of a
\* prefix: otherwise the last prefix of the first range is the gateway of the second.
RangesAreDisjoint ==
    /\ \A i \in DOMAIN pdns : Unset4(i) => Range4(i).last <= network.end4
    /\ Len(pdns) = 2 /\ Unset4(1) /\ Unset4(2) => Range4(1).last < Range4(2).gateway
    /\ Len(pdns) = 2 /\ Unset6(1) /\ Unset6(2) =>
          IF network.start6 % Prefix = 0
          THEN Range6(1).last < Range6(2).gateway
          ELSE Range6(1).last = Range6(2).gateway

\* Of the SIM cards that stay enabled no two have the same IMSI, and the owners of exactly
\* these cards are told that they are attached.
EnabledSimsAreUnique ==
    done /\ ~failed =>
        LET enabled == {r.sim : r \in {x \in sim_list : ~x.disabled}}
        IN  /\ \A s, t \in enabled : s # t => shared_list[s].imsi # shared_list[t].imsi
            /\ \A s \in Sims : s \in enabled <=> published[s] = "attached"

\* What core_network hands out keeps the SIM cards apart and tells their owners the truth.
SimsAreKeptApart == AddressesAreDistinct /\ RangesAreDisjoint /\ EnabledSimsAreUnique
=============================================================================
