------------------------------ MODULE IpFilter ------------------------------
(* The IP filter of the session.  TorrentClient keeps no rules: each call   *)
(* reads libtorrent's filter, which only knows for every address whether it *)
(* is blocked, changes it, and writes it back.  Torrent::banPeer uses the   *)
(* same filter.                                                             *)
(*                                                                          *)
(* rules and bans are history: the ranges that the application has added    *)
(* and not removed, and the peers it has banned.  An orderly application    *)
(* removes no range that overlaps another one in force; the code does not   *)
(* ask for it.  A range has its ends in order, as libtorrent demands.       *)
EXTENDS Integers, Sequences

CONSTANTS MaxAddress,   \* addresses are 0..MaxAddress
          Skipped,      \* a line of a blocklist without an IPv4 range
          MaxLines      \* bound: lines of a blocklist

ASSUME MaxAddressAssumption == MaxAddress \in Nat
ASSUME MaxLinesAssumption == MaxLines \in Nat

VARIABLES blocked,    \* libtorrent's filter
          rules, bans,
          orderly

filterVars == <<blocked, rules, bans, orderly>>

Address == 0..MaxAddress

Ranges == {r \in Address \X Address : r[1] <= r[2]}

\* A variant of Span: one address too many.
SpanPast(r) == r[1]..(r[2] + 1)

Span(r) == r[1]..r[2]

Covered(R) == UNION {Span(r) : r \in R}

Overlaps(r, R) == \E s \in R : Span(r) \intersect Span(s) # {}

ASSUME SkippedAssumption == Skipped \notin Ranges

Blocklists == UNION {[1..n -> Ranges \union {Skipped}] : n \in 0..MaxLines}

----------------------------------------------------------------------------
FilterInit ==
    /\ blocked = {}
    /\ rules = {}
    /\ bans = {}
    /\ orderly \in BOOLEAN

\* A variant of WithRules: the filter starts out empty.
WithRulesOnly(R) == Covered(R)

\* get_ip_filter, add_rule(blocked) for each range, set_ip_filter.
WithRules(R) == blocked \union Covered(R)

\* An address that does not parse (a null QHostAddress) changes nothing.
AddIpFilter(r) ==
    /\ blocked' = WithRules({r})
    /\ rules' = rules \union {r}
    /\ UNCHANGED <<bans, orderly>>

\* A variant of Without: only the ends of the range are allowed.
WithoutEnds(r) == blocked \ {r[1], r[2]}

\* add_rule(0): the range is allowed, whoever blocked it.
Without(r) == blocked \ Span(r)

RemoveIpFilter(r) ==
    /\ orderly => r \in rules /\ ~Overlaps(r, rules \ {r})
    /\ blocked' = Without(r)
    /\ rules' = rules \ {r}
    /\ bans' = {a \in bans : r # <<a, a>>}
    /\ UNCHANGED orderly

\* Lines that are empty, comments or not ranges are skipped; an IPv6 range is
\* not a range either, as its last colon is inside the address.
RangesOf(lines) == {lines[i] : i \in {j \in DOMAIN lines : lines[j] # Skipped}}

\* A file that cannot be opened changes nothing.
LoadBlocklist(lines) ==
    /\ blocked' = WithRules(RangesOf(lines))
    /\ rules' = rules \union RangesOf(lines)
    /\ UNCHANGED <<bans, orderly>>

ClearIpFilter ==
    /\ blocked' = {}
    /\ rules' = {}
    /\ bans' = {}
    /\ UNCHANGED orderly

\* Torrent::banPeer, of a torrent whose handle is valid.
BanPeer(a) ==
    /\ blocked' = WithRules({<<a, a>>})
    /\ rules' = rules \union {<<a, a>>}
    /\ bans' = bans \union {a}
    /\ UNCHANGED orderly

FilterNext ==
    \/ \E r \in Ranges : AddIpFilter(r) \/ RemoveIpFilter(r)
    \/ \E lines \in Blocklists : LoadBlocklist(lines)
    \/ ClearIpFilter
    \/ \E a \in Address : BanPeer(a)

FilterSpec == FilterInit /\ [][FilterNext]_filterVars

----------------------------------------------------------------------------
(* Every variable has its type. *)
FilterTypeOK ==
    /\ blocked \subseteq Address
    /\ rules \subseteq Ranges
    /\ bans \subseteq Address
    /\ orderly \in BOOLEAN

(* Nothing is blocked that no rule in force asks for. *)
BlockedForAReason == blocked \subseteq Covered(rules)

(* For an orderly application the filter is the rules in force, whichever   *)
(* way they came: ranges, blocklists with bad lines, banned peers.  No ban  *)
(* ends but by its own removal or a clear; one that is not orderly ends it  *)
(* by removing any range around the address.                                *)
OrderlyIsEnough == orderly => blocked = Covered(rules) /\ bans \subseteq blocked

=============================================================================
