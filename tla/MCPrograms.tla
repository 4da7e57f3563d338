----------------------------- MODULE MCPrograms -----------------------------
(***************************************************************************)
(* The inputs of the programs for TLC.                                     *)
(***************************************************************************)
EXTENDS Programs, TLC

-----------------------------------------------------------------------------
(* Inputs of core_network: networks whose range of the second PDN is odd or even, and whose *)
(* address is or is not the first of a prefix; addresses in both spellings; PDNs whose      *)
(* ranges the user set, to one that takes in the other PDN.                                 *)

Networks ==
    {[start4 |-> 1, end4 |-> 9, start6 |-> 4, end6 |-> 29],
     [start4 |-> 1, end4 |-> 16, start6 |-> 5, end6 |-> 29]}

Unforced(i) == [kind |-> "sim", imsi |-> i, wrong |-> "none", force4 |-> None, force6 |-> None,
                flag |-> FALSE, off |-> FALSE]

Spelt(n) == [address |-> n, spelling |-> "netaddr"]
Respelt(n) == [address |-> n, spelling |-> "other"]

SharedInstances ==
    {[Unforced(i) EXCEPT !.force4 = f] : i \in 1..3, f \in {None, Spelt(3)}}
    \cup {[Unforced(2) EXCEPT !.force4 = Spelt(4)], [Unforced(3) EXCEPT !.force6 = Spelt(5)],
          [Unforced(3) EXCEPT !.force4 = Respelt(3), !.force6 = Respelt(5)],
          [Unforced(1) EXCEPT !.wrong = "plmn"],
          [Unforced(2) EXCEPT !.force6 = Spelt(6), !.flag = TRUE, !.wrong = "msin"],
          [Unforced(0) EXCEPT !.kind = "dns"],
          [Unforced(1) EXCEPT !.off = TRUE]}

UnsetPdn(f) == [fixed_ips |-> f, ipv4 |-> None, ipv4_start |-> None, ipv4_end |-> None,
                ipv6 |-> None, ipv6_start |-> None, ipv6_end |-> None]

PdnSettings ==
    {UnsetPdn(TRUE), UnsetPdn(FALSE),
     [UnsetPdn(TRUE) EXCEPT !.ipv4_start = 7, !.ipv4_end = 12, !.ipv6_end = 20]}

(* Inputs of ors_radio: nothing set; identifiers of one cell and of the node; those of the   *)
(* other cell, and devices named the other way round; one device named, which both have.    *)

NoIds == [pci |-> None, root |-> None, cell_id |-> None]
NothingSet == [cell |-> <<NoIds, NoIds>>, enb |-> None, gnb |-> None,
               sdr_dev |-> (0 :> None @@ 1 :> None)]

RadioSettings ==
    {NothingSet,
     [NothingSet EXCEPT !.cell[1] = [pci |-> 7, root |-> None, cell_id |-> 300], !.gnb = 5],
     [NothingSet EXCEPT !.cell[2] = [pci |-> None, root |-> 59, cell_id |-> 3], !.enb = 9,
                        !.sdr_dev = (0 :> 1 @@ 1 :> 0)],
     [NothingSet EXCEPT !.sdr_dev = (0 :> 1 @@ 1 :> None)]}

(* Inputs of the jsonschema recipes.                                                        *)

ValidationOptions ==
    {[validate |-> v, defaults |-> d, unstringify |-> u, report |-> d] :
        v \in {{"main"}, {"shared"}, {"main", "shared"}}, d, u \in BOOLEAN}

ValidatedInstances ==
    [judged : {"valid", "invalid", "invalid with defaults"}, given : {"text", None},
     applies : {{"a"}, {"a", "b"}}]

ValidatedLists == UNION {[1..n -> ValidatedInstances] : n \in 0..2}

DefaultTables == {[a |-> "d1", b |-> None], [a |-> "d1", b |-> "d2"], [a |-> Bad, b |-> None]}
=============================================================================
