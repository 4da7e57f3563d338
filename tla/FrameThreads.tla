----------------------------- MODULE FrameThreads -----------------------------
(***************************************************************************)
(* The TDD tables of software/simpleran/script/parse-parameters.py and     *)
(* configure_cpu(), which shares four threads between uplink and downlink. *)
(*                                                                         *)
(* A TDD configuration is known by a name that shows its frame, a letter   *)
(* for each slot of downlink or uplink and each special one that is partly *)
(* either, and then says how many there are.  Periods are in half          *)
(* milliseconds, which is one slot; amounts of slots are in parts of 140   *)
(* so that they are integers.                                              *)
(***************************************************************************)
EXTENDS Integers, FiniteSets, Sequences

CONSTANTS
    Bandwidth,      \* in MHz
    Layer,          \* number of antennas in a direction
    Sbc             \* models of the computer

\* A frame given by its runs, e.g. <<<<"D", 7>>, <<"S", 1>>, <<"U", 2>>>>: how many slots are x.
Count(frame, x) ==
    LET n[i \in 0..Len(frame)] ==
            IF i = 0 THEN 0 ELSE n[i - 1] + (IF frame[i][1] = x THEN frame[i][2] ELSE 0)
    IN  n[Len(frame)]

Pattern(period, ul, dl, sul, sdl) ==
    [period |-> period, ul |-> ul, dl |-> dl, sul |-> sul, sdl |-> sdl]

\* A name: the letters, the slots "dlDL/ulUL" and the symbols "S-slot=sdlDL:...:sulUL".
Name(frame, dl, ul, sdl, sul) ==
    [frame |-> frame, dl |-> dl, ul |-> ul, sdl |-> sdl, sul |-> sul]

D(n) == <<"D", n>>
U(n) == <<"U", n>>
S == <<"S", 1>>

\* Name and patterns.  The letters of the seventh, DDDSU, are not the 2DL/2UL that it says.
NR_TDD_CONFIG_MAP == <<
    <<Name(<<D(7), S, U(2)>>, 7, 2, 6, 4),       <<Pattern(10, 2, 7, 4, 6)>>>>,
    <<Name(<<D(3), S, U(2), D(4)>>, 7, 2, 6, 4), <<Pattern(6, 2, 3, 4, 6), Pattern(4, 0, 4, 0, 0)>>>>,
    <<Name(<<D(3), S, U(4), D(2)>>, 5, 4, 6, 4), <<Pattern(8, 4, 3, 4, 6), Pattern(2, 0, 2, 0, 0)>>>>,
    <<Name(<<D(3), S, U(6)>>, 3, 6, 2, 10),      <<Pattern(10, 6, 3, 10, 2)>>>>,
    <<Name(<<D(2), S, U(7)>>, 2, 7, 6, 4),       <<Pattern(10, 7, 2, 4, 6)>>>>,
    <<Name(<<D(1), S, U(8)>>, 1, 8, 10, 2),      <<Pattern(10, 8, 1, 2, 10)>>>>,
    <<Name(<<D(3), S, U(1)>>, 2, 2, 6, 4),       <<Pattern(5, 2, 2, 4, 6)>>>>,
    <<Name(<<D(1), S, U(3)>>, 1, 3, 6, 4),       <<Pattern(5, 3, 1, 4, 6)>>>>,
    <<Name(<<D(1), S, U(3)>>, 1, 3, 9, 1),       <<Pattern(5, 3, 1, 1, 9)>>>>,
    <<Name(<<D(1), S>>, 1, 0, 0, 12),            <<Pattern(2, 0, 1, 12, 0)>>>> >>

\* Frames of 10 ms, all with a special slot of 10 and 2 symbols.
LTE_TDD_CONFIG_MAP == <<
    <<D(1), S, U(3), D(1), S, U(3)>>, <<D(1), S, U(2), D(2), S, U(2), D(1)>>,
    <<D(1), S, U(1), D(3), S, U(1), D(2)>>, <<D(1), S, U(3), D(5)>>,
    <<D(1), S, U(2), D(6)>>, <<D(1), S, U(1), D(7)>>,
    <<D(1), S, U(3), D(1), S, U(2), D(1)>> >>

VARIABLES
    cell,           \* the cell the threads are for, and the computer
    both,           \* both cells are enabled
    threads,        \* [ul, dl], or <<>> when the cell keeps its defaults
    warning,        \* performance-warning is published
    done

vars == <<cell, both, threads, warning, done>>

Init ==
    /\ cell \in [sbc : Sbc, type : {"eNB", "gNB", "NB"}, tdd : BOOLEAN, config : 1..10,
                 mode : {"Automatic", "Maximum Uplink", "Balanced", "Maximum Downlink"},
                 bw : Bandwidth, bw_ul : Bandwidth, dl : Layer, ul : Layer]
    /\ cell.type = "gNB" \/ cell.config \in DOMAIN LTE_TDD_CONFIG_MAP
    /\ both \in BOOLEAN
    /\ threads = <<>> /\ warning = FALSE /\ done = FALSE

-----------------------------------------------------------------------------
\* Slots and symbols of a pattern in a direction, in parts of 14.
Part(p, way) == IF way = "ul" THEN 14 * p.ul + p.sul ELSE 14 * p.dl + p.sdl

\* Variant of Amount: of two patterns only the first counts.
AmountOfFirst(ps, way) == Part(ps[1], way) * ps[1].period

\* Slots in 5 ms, in parts of 140.  One pattern is multiplied by period / 5.
Amount(ps, way) ==
    IF Len(ps) = 2
    THEN ((Part(ps[1], way) + Part(ps[2], way)) * 100) \div (ps[1].period + ps[2].period)
    ELSE Part(ps[1], way) * ps[1].period

\* The slots of LTE are written out per configuration: whole ones and the number of special.
LteUl == <<<<6, 2>>, <<4, 2>>, <<2, 2>>, <<3, 1>>, <<2, 1>>, <<1, 1>>, <<5, 2>>>>
LteDl == <<<<2, 2>>, <<4, 2>>, <<6, 2>>, <<6, 1>>, <<7, 1>>, <<8, 1>>, <<3, 2>>>>

NbUlSlot ==
    CASE ~cell.tdd -> 10 * 140
      [] cell.tdd /\ cell.type = "gNB" -> Amount(NR_TDD_CONFIG_MAP[cell.config][2], "ul")
      [] OTHER -> (14 * LteUl[cell.config][1] + 2 * LteUl[cell.config][2]) * 10
NbDlSlot ==
    CASE ~cell.tdd -> 10 * 140
      [] cell.tdd /\ cell.type = "gNB" -> Amount(NR_TDD_CONFIG_MAP[cell.config][2], "dl")
      [] OTHER -> (14 * LteDl[cell.config][1] + 10 * LteDl[cell.config][2]) * 10

DownlinkAmount == NbDlSlot * cell.bw * cell.dl
UplinkAmount == NbUlSlot * cell.bw_ul * cell.ul

MoreUl == [ul |-> 3, dl |-> 1]
MoreDl == [ul |-> 1, dl |-> 3]
Even == [ul |-> 2, dl |-> 2]

\* A choice of the user comes first, then the amounts.
Chosen ==
    CASE cell.mode = "Maximum Uplink" -> MoreUl
      [] cell.mode = "Balanced" -> Even
      [] cell.mode = "Maximum Downlink" -> MoreDl
      [] cell.mode = "Automatic" /\ cell.type = "NB" -> <<>>
      [] cell.mode = "Automatic" /\ cell.type # "NB" ->
            IF DownlinkAmount <= 800 * 140 THEN MoreUl
            ELSE IF UplinkAmount <= 80 * 140 THEN MoreDl ELSE <<>>

Exceeds ==
    /\ cell.mode = "Automatic" /\ cell.type # "NB" /\ Chosen = <<>>
    /\ UplinkAmount > 300 * 140 \/ (cell.ul >= 2 /\ UplinkAmount > 150 * 140)

\* Only one model of computer has threads to share, and only between the directions of
\* a single cell.
ConfigureCpu ==
    /\ ~done /\ done' = TRUE
    /\ IF cell.sbc = "PD10ANS" /\ ~both
       THEN threads' = Chosen /\ warning' = Exceeds
       ELSE UNCHANGED <<threads, warning>>
    /\ UNCHANGED <<cell, both>>

Next == ConfigureCpu

Spec == Init /\ [][Next]_vars

-----------------------------------------------------------------------------
Period(ps) == IF Len(ps) = 2 THEN ps[1].period + ps[2].period ELSE ps[1].period

\* The slots of a frame of NR that its name gives, times its period: what configure_cpu
\* should and does reckon with for one of 5 ms (a period of 10).
SlotsNamed(config, way) ==
    LET name == NR_TDD_CONFIG_MAP[config][1]
    IN  (IF way = "ul" THEN 14 * name.ul + name.sul ELSE 14 * name.dl + name.sdl)
            * Period(NR_TDD_CONFIG_MAP[config][2])

\* The letters of a frame of LTE, whose special slots have 2 symbols up and 10 down.
LettersOf(frame, way) ==
    IF way = "ul" THEN 14 * Count(frame, "U") + 2 * Count(frame, "S")
                  ELSE 14 * Count(frame, "D") + 10 * Count(frame, "S")

FrameAmount(way) ==
    CASE ~cell.tdd -> 10 * 140
      [] cell.tdd /\ cell.type = "gNB" -> SlotsNamed(cell.config, way)
      [] OTHER -> LettersOf(LTE_TDD_CONFIG_MAP[cell.config], way) * 10

\* What a name of NR says is one frame: its letters fill the period of the patterns and,
\* but for the seventh, are as many as the numbers that follow them.
NameIsOneFrame(config) ==
    LET name == NR_TDD_CONFIG_MAP[config][1]
        d    == Count(name.frame, "D")
        u    == Count(name.frame, "U")
    IN  /\ d + Count(name.frame, "S") + u = Period(NR_TDD_CONFIG_MAP[config][2])
        /\ config # 7 => d = name.dl /\ u = name.ul

Shares == done /\ cell.sbc = "PD10ANS" /\ ~both /\ cell.mode = "Automatic" /\ cell.type # "NB"

\* A box that shares its threads by itself does it by the frame that the user chose by its
\* name, the bandwidths and the antennas: little downlink gives the uplink three of four,
\* little uplink the downlink, and when neither is little and the uplink is more than the
\* computer can do the user is warned.  The frame counts as its name says for LTE and for
\* the configurations of 5 ms.  A single pattern of another period is multiplied by
\* period / 5 ms where 5 ms / period was meant (as for two patterns): here, as in the code,
\* a frame of 2.5 ms counts for a quarter of its slots and one of 1 ms for a twenty-fifth.
ThreadsFollowTheFrame ==
    /\ cell.type = "gNB" => NameIsOneFrame(cell.config)
    /\ Shares =>
        LET down       == FrameAmount("dl") * cell.bw * cell.dl
            up         == FrameAmount("ul") * cell.bw_ul * cell.ul
            littleDown == down <= 800 * 140
            littleUp   == up <= 80 * 140
        IN  /\ threads = MoreUl <=> littleDown
            /\ threads = MoreDl <=> ~littleDown /\ littleUp
            /\ threads = <<>> <=> ~littleDown /\ ~littleUp
            /\ warning <=> /\ ~littleDown /\ ~littleUp
                           /\ up > 300 * 140 \/ (cell.ul >= 2 /\ up > 150 * 140)
=============================================================================
