---------------------------- MODULE SessionProofs ---------------------------
(* Proofs, for any addresses and any blocklists, that the filter blocks     *)
(* what the rules in force ask for: never more, and for an orderly          *)
(* application never less; for any hosts and users, that the session runs   *)
(* with the proxy and the encryption that were set last; and, for any       *)
(* paths, files and queues, that what a torrent shows of its directory and  *)
(* of the names of its files comes to be what libtorrent has, as long as no *)
(* alert is dropped.                                                        *)
EXTENDS Session, Lists

----------------------------------------------------------------------------
(* The IP filter.                                                           *)

\* A range holds addresses only.
LEMMA SpanIsAddresses == \A r \in Ranges : Span(r) \subseteq Address
  BY MaxAddressAssumption DEF Ranges, Span, Address

\* One address is a range, which holds it and no other.
LEMMA AddressIsRange ==
    ASSUME NEW a \in Address
    PROVE  <<a, a>> \in Ranges /\ Span(<<a, a>>) = {a}
  BY MaxAddressAssumption DEF Ranges, Span, Address

\* The lines of a blocklist that count are ranges.
LEMMA RangesOfIsRanges ==
    ASSUME NEW lines \in Blocklists
    PROVE  RangesOf(lines) \subseteq Ranges
  BY DEF Blocklists, RangesOf

\* More rules cover what each of them covers.
LEMMA CoveredUnion ==
    ASSUME NEW R, NEW S
    PROVE  Covered(R \union S) = Covered(R) \union Covered(S)
  BY DEF Covered

\* Without one rule, what it does not touch is still covered.
LEMMA CoveredWithout ==
    ASSUME NEW R, NEW r
    PROVE  /\ Covered(R) \ Span(r) \subseteq Covered(R \ {r})
           /\ ~Overlaps(r, R \ {r}) => Covered(R \ {r}) \intersect Span(r) = {}
           /\ Covered(R \ {r}) \subseteq Covered(R)
  <1>1. Covered(R) \ Span(r) \subseteq Covered(R \ {r})
    BY DEF Covered
  <1>2. Covered(R \ {r}) \subseteq Covered(R)
    BY DEF Covered
  <1>3. ASSUME ~Overlaps(r, R \ {r})
        PROVE  Covered(R \ {r}) \intersect Span(r) = {}
    BY <1>3 DEF Overlaps, Covered
  <1> QED
    BY <1>1, <1>2, <1>3

----------------------------------------------------------------------------
(* A ban is a rule, by which it takes part in what is covered.              *)
FilterInv ==
    /\ FilterTypeOK
    /\ BlockedForAReason
    /\ orderly => blocked = Covered(rules)
    /\ \A a \in bans : <<a, a>> \in rules

\* A ban is covered by its own rule.
LEMMA BansAreCovered == FilterInv => bans \subseteq Covered(rules)
  <1> SUFFICES ASSUME FilterInv, NEW a \in bans PROVE a \in Covered(rules)
    OBVIOUS
  <1>1. a \in Span(<<a, a>>) /\ <<a, a>> \in rules
    BY AddressIsRange DEF FilterInv, FilterTypeOK
  <1> QED
    BY <1>1 DEF Covered

\* The empty filter.
LEMMA InitFilterInv == FilterInit => FilterInv
  BY Zenon DEF FilterInit, FilterInv, FilterTypeOK, BlockedForAReason, Covered

\* Rules that are added extend filter and rules alike.
LEMMA AddedRules ==
    ASSUME FilterInv, NEW R \in SUBSET Ranges,
           blocked' = WithRules(R), rules' = rules \union R,
           bans' \subseteq Address, \A a \in bans' : <<a, a>> \in rules',
           UNCHANGED orderly
    PROVE  FilterInv'
  <1> USE DEF FilterInv
  <1>1. Covered(rules') = Covered(rules) \union Covered(R)
    BY CoveredUnion
  <1>2. Covered(R) \subseteq Address
    BY SpanIsAddresses DEF Covered
  <1>3. FilterTypeOK'
    BY <1>2 DEF FilterTypeOK, WithRules
  <1>4. BlockedForAReason'
    BY <1>1 DEF BlockedForAReason, WithRules
  <1>5. orderly' => blocked' = Covered(rules')
    BY <1>1 DEF WithRules
  <1> QED
    BY <1>3, <1>4, <1>5

\* A rule that is removed takes only its own addresses along, and no other
\* rule's if the application is orderly.
LEMMA RemovedRule ==
    ASSUME FilterInv, NEW r \in Ranges, RemoveIpFilter(r)
    PROVE  FilterInv'
  <1> USE DEF FilterInv, RemoveIpFilter, Without
  <1>1. /\ Covered(rules) \ Span(r) \subseteq Covered(rules')
        /\ Covered(rules') \subseteq Covered(rules)
    BY CoveredWithout
  <1>2. FilterTypeOK'
    BY DEF FilterTypeOK
  <1>3. BlockedForAReason'
    BY <1>1 DEF BlockedForAReason
  <1>4. ASSUME orderly' PROVE blocked' = Covered(rules')
    <2>1. blocked = Covered(rules) /\ ~Overlaps(r, rules \ {r})
      BY <1>4
    <2>2. Covered(rules') \intersect Span(r) = {}
      BY <2>1, CoveredWithout
    <2> QED
      BY <1>1, <2>1, <2>2
  <1>5. \A a \in bans' : <<a, a>> \in rules'
    OBVIOUS
  <1> QED
    BY <1>2, <1>3, <1>4, <1>5

\* Every call keeps filter and rules together.
LEMMA NextFilterInv == FilterInv /\ [FilterNext]_filterVars => FilterInv'
  <1> SUFFICES ASSUME FilterInv, [FilterNext]_filterVars PROVE FilterInv'
    OBVIOUS
  <1>1. ASSUME NEW r \in Ranges, AddIpFilter(r) PROVE FilterInv'
    BY <1>1, AddedRules DEF AddIpFilter, FilterInv, FilterTypeOK
  <1>2. ASSUME NEW r \in Ranges, RemoveIpFilter(r) PROVE FilterInv'
    BY <1>2, RemovedRule
  <1>3. ASSUME NEW lines \in Blocklists, LoadBlocklist(lines) PROVE FilterInv'
    BY <1>3, AddedRules, RangesOfIsRanges DEF LoadBlocklist, FilterInv, FilterTypeOK
  <1>4. CASE ClearIpFilter
    BY <1>4 DEF ClearIpFilter, FilterInv, FilterTypeOK, BlockedForAReason, Covered
  <1>5. ASSUME NEW a \in Address, BanPeer(a) PROVE FilterInv'
    BY <1>5, AddedRules, AddressIsRange DEF BanPeer, FilterInv, FilterTypeOK
  <1>6. CASE UNCHANGED filterVars
    BY <1>6 DEF filterVars, FilterInv, FilterTypeOK, BlockedForAReason
  <1> QED
    BY <1>1, <1>2, <1>3, <1>4, <1>5, <1>6 DEF FilterNext

(* Every variable keeps its type.                                           *)
THEOREM FilterTypeCorrect == FilterSpec => []FilterTypeOK
  BY InitFilterInv, NextFilterInv, PTL DEF FilterSpec, FilterInv

(* No address is ever blocked without a rule in force that holds it,        *)
(* however ranges overlap and in whatever order they are removed.           *)
THEOREM NothingElseIsBlocked == FilterSpec => []BlockedForAReason
  BY InitFilterInv, NextFilterInv, PTL DEF FilterSpec, FilterInv

(* An application that removes no range overlapping another gets what its   *)
(* rules say, and keeps its bans.                                           *)
THEOREM OrderSuffices == FilterSpec => []OrderlyIsEnough
  <1>1. FilterInv => OrderlyIsEnough
    BY BansAreCovered DEF FilterInv, OrderlyIsEnough
  <1> QED
    BY <1>1, InitFilterInv, NextFilterInv, PTL DEF FilterSpec

----------------------------------------------------------------------------
(* The settings.                                                            *)

SettingsInv == SettingsTypeOK /\ LatestSettingsHold

LEMMA InitSettingsInv == SettingsInit => SettingsInv
  BY DEF SettingsInit, SettingsInv, SettingsTypeOK, LatestSettingsHold,
         LastProxyIsUsed, EncryptionIsBothWays, EncryptionMode, Proxies, Modes,
         EncPolicies

\* configureProxy leaves nothing of the proxy before, SOCKS5 or not.
LEMMA ProxyKeepsSettings ==
    ASSUME SettingsInv, NEW p \in Proxies, SetNetworkProxy(p) PROVE SettingsInv'
  <1>1. UNCHANGED <<plain, encryption, modeAsked>> /\ networkProxy' = p
    BY DEF SetNetworkProxy
  <1>2. CASE p.type = "Socks5"
    <2>1. proxy' = [type |-> IF p.user = NoUser THEN "socks5" ELSE "socks5_pw",
                    host |-> p.host, user |-> p.user, peers |-> TRUE]
      BY <1>2 DEF SetNetworkProxy, Configured
    <2> QED
      BY <1>1, <1>2, <2>1 DEF SettingsInv, SettingsTypeOK, LatestSettingsHold,
         LastProxyIsUsed, EncryptionIsBothWays, EncryptionMode, Proxies
  <1>3. CASE p.type # "Socks5"
    <2>1. proxy' = [proxy EXCEPT !.type = "none"]
      BY <1>3 DEF SetNetworkProxy, Configured
    <2> QED
      BY <1>1, <1>3, <2>1 DEF SettingsInv, SettingsTypeOK, LatestSettingsHold,
         LastProxyIsUsed, EncryptionIsBothWays, EncryptionMode, Proxies
  <1> QED
    BY <1>2, <1>3

LEMMA NextSettingsInv ==
    ASSUME SettingsInv, [SettingsNext]_settingsVars PROVE SettingsInv'
  <1>1. ASSUME NEW name \in PlainNames, NEW value \in Values, ApplySetting(name, value)
        PROVE  SettingsInv'
    BY <1>1 DEF ApplySetting, SettingsInv, SettingsTypeOK, LatestSettingsHold,
       LastProxyIsUsed, EncryptionIsBothWays, EncryptionMode
  <1>2. ASSUME NEW m \in Modes, SetEncryptionMode(m) PROVE SettingsInv'
    <2>1. UNCHANGED <<networkProxy, plain, proxy>> /\ modeAsked' = m
      BY <1>2 DEF SetEncryptionMode
    <2>2. EncryptionIsBothWays'
      BY <1>2 DEF SetEncryptionMode, Modes, Policies, EncryptionIsBothWays, EncryptionMode
    <2>3. encryption' \in [in : EncPolicies, out : EncPolicies]
      BY <1>2 DEF SetEncryptionMode, Modes, Policies, EncPolicies
    <2> QED
      BY <2>1, <2>2, <2>3 DEF SettingsInv, SettingsTypeOK, LatestSettingsHold,
         LastProxyIsUsed
  <1>3. CASE UNCHANGED settingsVars
    BY <1>3 DEF settingsVars, SettingsInv, SettingsTypeOK, LatestSettingsHold,
       LastProxyIsUsed, EncryptionIsBothWays, EncryptionMode
  <1> QED
    BY <1>1, <1>2, <1>3, ProxyKeepsSettings DEF SettingsNext

(* The proxy (setNetworkProxy) and the encryption mode that were set last   *)
(* hold, whatever was set before: no credentials of another proxy remain in *)
(* use, and both directions are encrypted as encryptionMode reports.        *)
THEOREM LatestHold == SettingsSpec => []LatestSettingsHold
  <1>1. SettingsInv => LatestSettingsHold
    BY DEF SettingsInv
  <1> QED
    BY <1>1, InitSettingsInv, NextSettingsInv, PTL DEF SettingsSpec

----------------------------------------------------------------------------
(* The storage of a torrent.                                               *)
(*                                                                          *)
(* Queues of alerts: the alert that matters is the last of its kind.        *)

\* An alert of no interest changes nothing.
LEMMA AppendOther ==
    ASSUME NEW s \in Seq(Alerts), NEW b \in Alerts, NEW S, b \notin S, NEW a,
           NEW told \in BOOLEAN, Leads(s, S, a, told)
    PROVE  Leads(Append(s, b), S, a, told)
  <1> DEFINE r == Append(s, b)
  <1>1. /\ Len(s) \in Nat /\ DOMAIN s = 1..Len(s)
        /\ DOMAIN r = 1..(Len(s) + 1)
        /\ \A i \in 1..Len(s) : r[i] = s[i]
        /\ r[Len(s) + 1] = b
    BY AppendProperties, LenProperties
  <1> HIDE DEF r
  <1>2. NoneIn(r, S) <=> NoneIn(s, S)
    BY <1>1 DEF NoneIn
  <1>3. ASSUME LastIn(s, S, a) PROVE LastIn(r, S, a)
    <2>1. PICK i \in 1..Len(s) : s[i] = a /\ \A j \in 1..Len(s) : j > i => s[j] \notin S
      BY <1>1, <1>3 DEF LastIn
    <2> QED
      BY <1>1, <2>1 DEF LastIn
  <1>4. CASE NoneIn(s, S)
    BY <1>2, <1>4, Zenon DEF Leads, r
  <1>5. CASE ~NoneIn(s, S)
    BY <1>2, <1>3, <1>5, Zenon DEF Leads, r
  <1> QED
    BY <1>4, <1>5

\* The last alert of interest is the one that was added last.
LEMMA AppendLast ==
    ASSUME NEW s \in Seq(Alerts), NEW b \in Alerts, NEW S, b \in S,
           NEW told \in BOOLEAN
    PROVE  Leads(Append(s, b), S, b, told)
  <1> DEFINE r == Append(s, b)
  <1>1. /\ Len(s) \in Nat /\ DOMAIN r = 1..(Len(s) + 1)
        /\ r[Len(s) + 1] = b
    BY AppendProperties, LenProperties
  <1> HIDE DEF r
  <1>2. ~NoneIn(r, S)
    BY <1>1 DEF NoneIn
  <1>3. LastIn(r, S, b)
    BY <1>1 DEF LastIn
  <1> QED
    BY <1>2, <1>3, Zenon DEF Leads, r

\* Without its head, the queue leads where it did, or the head did already.
LEMMA DropHead ==
    ASSUME NEW s \in Seq(Alerts), s # <<>>, NEW S, NEW a \in S,
           NEW told \in BOOLEAN, NEW told2 \in BOOLEAN, Leads(s, S, a, told),
           Head(s) \notin S => (told => told2),
           Head(s) \in S /\ Head(s) = a => told2
    PROVE  Leads(Tail(s), S, a, told2)
  <1> DEFINE r == Tail(s)
  <1>1. /\ Len(s) \in Nat \ {0} /\ DOMAIN s = 1..Len(s)
        /\ r \in Seq(Alerts) /\ Len(r) = Len(s) - 1 /\ DOMAIN r = 1..(Len(s) - 1)
        /\ \A i \in 1..(Len(s) - 1) : r[i] = s[i + 1]
        /\ Head(s) = s[1]
    <2>1. r \in Seq(Alerts) /\ Len(r) = Len(s) - 1
      BY HeadTailProperties
    <2>2. \A i \in 1..Len(r) : r[i] = s[i + 1]
      BY HeadTailProperties
    <2> QED
      BY <2>1, <2>2, LenProperties, EmptySeq
  <1> HIDE DEF r
  <1>2. NoneIn(s, S) <=> NoneIn(r, S) /\ Head(s) \notin S
    <2>1. ASSUME NoneIn(r, S), Head(s) \notin S, NEW i \in 1..Len(s)
          PROVE  s[i] \notin S
      <3>1. CASE i = 1
        BY <1>1, <2>1, <3>1
      <3>2. CASE i # 1
        <4>1. i - 1 \in 1..(Len(s) - 1) /\ (i - 1) + 1 = i
          BY <1>1, <3>2
        <4> QED
          BY <1>1, <2>1, <4>1 DEF NoneIn
      <3> QED
        BY <3>1, <3>2
    <2>2. ASSUME NoneIn(s, S) PROVE NoneIn(r, S) /\ Head(s) \notin S
      BY <1>1, <2>2 DEF NoneIn
    <2> QED
      BY <1>1, <2>1, <2>2 DEF NoneIn
  <1>3. CASE NoneIn(s, S)
    BY <1>2, <1>3, Zenon DEF Leads, r
  <1>4. CASE ~NoneIn(s, S)
    <2>1. PICK i \in 1..Len(s) : s[i] = a /\ \A j \in 1..Len(s) : j > i => s[j] \notin S
      BY <1>1, <1>4 DEF Leads, LastIn
    <2>2. CASE i = 1
      <3>1. ASSUME NEW j \in 1..(Len(s) - 1) PROVE r[j] \notin S
        BY <1>1, <2>1, <2>2
      <3>2. NoneIn(r, S)
        BY <1>1, <3>1 DEF NoneIn
      <3>3. Head(s) \in S /\ Head(s) = a
        BY <1>1, <1>2, <1>4, <2>1, <2>2, <3>2
      <3> QED
        BY <3>2, <3>3, Zenon DEF Leads, r
    <2>3. CASE i # 1
      <3>1. i - 1 \in 1..(Len(s) - 1) /\ r[i - 1] = a
        BY <1>1, <2>1, <2>3
      <3>2. ASSUME NEW j \in 1..(Len(s) - 1), j > i - 1 PROVE r[j] \notin S
        BY <1>1, <2>1, <3>2
      <3>3. LastIn(r, S, a)
        BY <1>1, <3>1, <3>2 DEF LastIn
      <3>4. ~NoneIn(r, S)
        BY <1>1, <3>1 DEF NoneIn
      <3> QED
        BY <3>3, <3>4, Zenon DEF Leads, r
    <2> QED
      BY <2>2, <2>3
  <1> QED
    BY <1>3, <1>4

----------------------------------------------------------------------------
(* What the actions of libtorrent and of processAlerts do to the queue.     *)

\* A queue is its head and what follows.
LEMMA HeadTailConcat ==
    ASSUME NEW s \in Seq(Alerts)
    PROVE  /\ s # <<>> => s = <<Head(s)>> \o Tail(s)
           /\ \A a \in Alerts : /\ <<a>> \o s \in Seq(Alerts)
                                /\ <<a>> \o s # <<>>
                                /\ Head(<<a>> \o s) = a
                                /\ Tail(<<a>> \o s) = s
  <1>1. ASSUME s # <<>> PROVE s = <<Head(s)>> \o Tail(s)
    <2>1. Len(s) \in Nat \ {0} /\ Head(s) \in Alerts /\ Tail(s) \in Seq(Alerts)
      BY <1>1, LenProperties, EmptySeq, HeadTailProperties
    <2>2. /\ SubSeq(s, 1, Len(s)) = s
          /\ SubSeq(s, 1, Len(s)) = <<s[1]>> \o SubSeq(s, 2, Len(s))
      BY <2>1, SubSeqFull, SubSeqRecursiveFirst
    <2>3. Tail(s) = SubSeq(s, 2, Len(s)) /\ Head(s) = s[1]
      BY <1>1, <2>1, TailIsSubSeq
    <2> QED
      BY <2>2, <2>3
  <1>2. ASSUME NEW a \in Alerts
        PROVE  /\ <<a>> \o s \in Seq(Alerts)
               /\ <<a>> \o s # <<>>
               /\ Head(<<a>> \o s) = a
               /\ Tail(<<a>> \o s) = s
    OBVIOUS
  <1> QED
    BY <1>1, <1>2

\* An alert that is posted is pending, or dropped, or of no category asked for.
LEMMA Posted ==
    ASSUME StorageTypeOK, NEW a \in Alerts, Post(a), UNCHANGED batch
    PROVE  /\ alerts' \in Seq(Alerts) /\ dropped' \in BOOLEAN
           /\ \/ dropped'
              \/ UNCHANGED dropped /\ Pending' = Append(Pending, a)
              \/ UNCHANGED <<dropped, Pending>> /\ a.kind = "completed"
  <1>1. /\ batch \in Seq(Alerts) /\ alerts \in Seq(Alerts) /\ dropped \in BOOLEAN
    BY DEF StorageTypeOK
  <1>2. CASE Category(a) \notin AlertMask
    <2>1. a.kind = "completed"
      BY <1>2 DEF Category, AlertMask
    <2> QED
      BY <1>1, <1>2, <2>1 DEF Post, Pending
  <1>3. CASE Category(a) \in AlertMask /\ dropped' = TRUE /\ UNCHANGED alerts
    BY <1>1, <1>3
  <1>4. CASE /\ Category(a) \in AlertMask
             /\ alerts' = Append(alerts, a) /\ UNCHANGED dropped
    <2>1. alerts' \in Seq(Alerts)
      BY <1>1, <1>4, AppendProperties
    <2>2. batch \o Append(alerts, a) = Append(batch \o alerts, a)
      <3>1. batch \o alerts \in Seq(Alerts) /\ <<a>> \in Seq(Alerts)
        BY <1>1, ConcatProperties
      <3>2. Append(alerts, a) = alerts \o <<a>>
        BY <1>1, AppendIsConcat
      <3>3. Append(batch \o alerts, a) = (batch \o alerts) \o <<a>>
        BY <3>1, AppendIsConcat
      <3>4. (batch \o alerts) \o <<a>> = batch \o (alerts \o <<a>>)
        BY <1>1, <3>1, ConcatAssociative
      <3> QED
        BY <3>2, <3>3, <3>4, Zenon
    <2>3. Pending' = batch \o Append(alerts, a)
      BY <1>4 DEF Pending
    <2>4. Pending' = Append(Pending, a)
      BY <2>2, <2>3, Zenon DEF Pending
    <2> QED
      BY <1>1, <1>4, <2>1, <2>4
  <1> QED
    BY <1>2, <1>3, <1>4 DEF Post

\* processAlerts takes the alerts in the order in which they were posted.
LEMMA Taken ==
    ASSUME StorageTypeOK
    PROVE  /\ Poll => UNCHANGED Pending
           /\ Dispatch => /\ Pending \in Seq(Alerts) /\ Pending # <<>>
                          /\ Head(batch) = Head(Pending)
                          /\ Pending' = Tail(Pending)
  <1>1. batch \in Seq(Alerts) /\ alerts \in Seq(Alerts)
    BY DEF StorageTypeOK
  <1>2. ASSUME Poll PROVE UNCHANGED Pending
    BY <1>1, <1>2, ConcatEmptySeq DEF Poll, Pending
  <1>3. ASSUME Dispatch
        PROVE  /\ Pending \in Seq(Alerts) /\ Pending # <<>>
               /\ Head(batch) = Head(Pending)
               /\ Pending' = Tail(Pending)
    <2> DEFINE h == Head(batch)
               b == Tail(batch)
    <2>1. batch # <<>> /\ batch' = b /\ alerts' = alerts
      BY <1>3 DEF Dispatch
    <2>2. h \in Alerts /\ b \in Seq(Alerts)
      BY <1>1, <2>1, HeadTailProperties
    <2>3. batch = <<h>> \o b /\ <<h>> \in Seq(Alerts)
      BY <1>1, <2>1, <2>2, HeadTailConcat
    <2>4. batch \o alerts = <<h>> \o (b \o alerts)
      BY <1>1, <2>2, <2>3, ConcatAssociative
    <2>5. b \o alerts \in Seq(Alerts)
      BY <1>1, <2>2, ConcatProperties
    <2>6. /\ <<h>> \o (b \o alerts) \in Seq(Alerts)
          /\ <<h>> \o (b \o alerts) # <<>>
          /\ Head(<<h>> \o (b \o alerts)) = h
          /\ Tail(<<h>> \o (b \o alerts)) = b \o alerts
      BY <2>2, <2>5, HeadTailConcat
    <2> QED
      BY <2>1, <2>4, <2>6 DEF Pending
  <1> QED
    BY <1>2, <1>3

----------------------------------------------------------------------------
(* Types.                                                                   *)

LEMMA AlertsMade ==
    /\ \A p \in Paths : Moved(p) \in Alerts /\ Moved(p) \in MovedAlerts
    /\ \A f \in Files, n \in Names :
          Renamed(f, n) \in Alerts /\ Renamed(f, n) \in RenamedAlerts(f)
  BY DEF Alerts, Moves, Renames, Moved, Renamed, MovedAlerts, RenamedAlerts

Read(a) ==
    /\ a.kind = "moved" => a.path \in Paths /\ a = Moved(a.path)
    /\ a.kind = "renamed" => /\ a.file \in Files /\ a.name \in Names
                            /\ a = Renamed(a.file, a.name)
    /\ a.kind = "completed" => a.file \in Files
    /\ a.kind = "saved" => a.path \in Paths

LEMMA AlertsRead ==
    ASSUME NEW a \in Alerts PROVE Read(a)
  <1>1. CASE a \in Moves
    BY <1>1 DEF Moves, Moved, Read
  <1>2. CASE a \in Renames
    <2>1. a = [kind |-> a.kind, file |-> a.file, name |-> a.name]
      BY <1>2 DEF Renames
    <2> QED
      BY <1>2, <2>1 DEF Renames, Renamed, Read
  <1>3. CASE a \in Completions
    BY <1>3 DEF Completions, Read
  <1>4. CASE a \in Saves
    BY <1>4 DEF Saves, Read
  <1> QED
    BY <1>1, <1>2, <1>3, <1>4 DEF Alerts

LEMMA InitType ==
    ASSUME StorageInit PROVE StorageTypeOK
  <1>1. <<>> \in Seq(Jobs) /\ <<>> \in Seq(Alerts)
    BY EmptySeq
  <1>2. names \in [Files -> Names] /\ shown \in [Files -> Names]
    BY FirstNameAssumption DEF StorageInit
  <1> QED
    BY <1>1, <1>2 DEF StorageInit, StorageTypeOK

LEMMA DiskThreadType ==
    ASSUME StorageTypeOK, DiskThread PROVE StorageTypeOK'
  <1>1. jobs # <<>> /\ jobs \in Seq(Jobs)
    BY DEF DiskThread, DoMove, DoRename, StorageTypeOK
  <1>2. Head(jobs) \in Jobs /\ Tail(jobs) \in Seq(Jobs)
    BY <1>1, HeadTailProperties
  <1>3. CASE DoMove
    <2> DEFINE p == Head(jobs).path
    <2>1. p \in Paths
      BY <1>2, <1>3 DEF DoMove, Jobs
    <2>2. PICK a \in Alerts : Post(a) /\ savePath' \in {p, savePath}
      BY <1>3, <2>1 DEF DoMove, Alerts, Moves, Moved
    <2>3. alerts' \in Seq(Alerts) /\ dropped' \in BOOLEAN
      BY <1>3, <2>2, Posted DEF DoMove
    <2> QED
      BY <1>2, <1>3, <2>1, <2>2, <2>3 DEF DoMove, StorageTypeOK, signalVars
  <1>4. CASE DoRename
    <2> DEFINE f == Head(jobs).file
               n == Head(jobs).name
    <2>1. f \in Files /\ n \in Names
      BY <1>2, <1>4 DEF DoRename, Jobs
    <2>2. PICK a \in Alerts : Post(a) /\ names' \in {[names EXCEPT ![f] = n], names}
      BY <1>4, <2>1 DEF DoRename, Alerts, Renames, Renamed
    <2>3. alerts' \in Seq(Alerts) /\ dropped' \in BOOLEAN
      BY <1>4, <2>2, Posted DEF DoRename
    <2> QED
      BY <1>2, <1>4, <2>1, <2>2, <2>3 DEF DoRename, StorageTypeOK, signalVars
  <1> QED
    BY <1>3, <1>4 DEF DiskThread

LEMMA ApplicationType ==
    ASSUME StorageTypeOK, Torrents PROVE StorageTypeOK'
  <1>1. ASSUME NEW p \in Paths, MoveStorage(p) PROVE StorageTypeOK'
    <2>1. CASE metadata
      <3>1. [kind |-> "move", path |-> p] \in Jobs /\ jobs \in Seq(Jobs)
        BY DEF Jobs, StorageTypeOK
      <3>2. Append(jobs, [kind |-> "move", path |-> p]) \in Seq(Jobs)
        BY <3>1, AppendProperties
      <3> QED
        BY <1>1, <2>1, <3>2 DEF MoveStorage, StorageTypeOK
    <2>2. CASE ~metadata
      <3>1. alerts' \in Seq(Alerts) /\ dropped' \in BOOLEAN
        BY <1>1, <2>2, Posted, AlertsMade DEF MoveStorage
      <3> QED
        BY <1>1, <2>2, <3>1 DEF MoveStorage, StorageTypeOK
    <2> QED
      BY <2>1, <2>2
  <1>2. ASSUME NEW f \in Files, NEW n \in Names, RenameFile(f, n)
        PROVE  StorageTypeOK'
    <2>1. [kind |-> "rename", file |-> f, name |-> n] \in Jobs /\ jobs \in Seq(Jobs)
      BY DEF Jobs, StorageTypeOK
    <2>2. Append(jobs, [kind |-> "rename", file |-> f, name |-> n]) \in Seq(Jobs)
      BY <2>1, AppendProperties
    <2> QED
      BY <1>2, <2>2 DEF RenameFile, StorageTypeOK, signalVars
  <1>3. CASE SaveResumeData
    BY <1>3 DEF SaveResumeData, StorageTypeOK, signalVars
  <1> QED
    BY <1>1, <1>2, <1>3 DEF Torrents

LEMMA NextType ==
    ASSUME StorageTypeOK, [StorageNext]_storageVars PROVE StorageTypeOK'
  <1>1. CASE ReceiveMetadata
    BY <1>1 DEF ReceiveMetadata, StorageTypeOK, signalVars
  <1>2. ASSUME NEW f \in Files, CompleteFile(f) PROVE StorageTypeOK'
    <2>1. [kind |-> "completed", file |-> f] \in Alerts
      BY DEF Alerts, Completions
    <2>2. alerts' \in Seq(Alerts) /\ dropped' \in BOOLEAN
      BY <1>2, <2>1, Posted DEF CompleteFile
    <2> QED
      BY <1>2, <2>2 DEF CompleteFile, StorageTypeOK, signalVars
  <1>3. CASE AnswerSave
    <2>1. [kind |-> "saved", path |-> savePath] \in Alerts
      BY DEF Alerts, Saves, StorageTypeOK
    <2>2. alerts' \in Seq(Alerts) /\ dropped' \in BOOLEAN
      BY <1>3, <2>1, Posted DEF AnswerSave
    <2> QED
      BY <1>3, <2>2 DEF AnswerSave, StorageTypeOK, signalVars
  <1>4. CASE Poll
    BY <1>4, EmptySeq DEF Poll, StorageTypeOK, libtorrentVars, signalVars
  <1>5. CASE Dispatch
    <2>1. batch # <<>> /\ batch \in Seq(Alerts)
      BY <1>5 DEF Dispatch, StorageTypeOK
    <2>2. Head(batch) \in Alerts /\ Tail(batch) \in Seq(Alerts)
      BY <2>1, HeadTailProperties
    <2> DEFINE a == Head(batch)
    <2>3. /\ DirectoryAfter(a) \in Paths
          /\ ShownAfter(a) \in [Files -> Names]
      BY <2>2, AlertsRead DEF Read, DirectoryAfter, ShownAfter, StorageTypeOK
    <2>4. /\ a.kind = "completed" => a.file \in Files
          /\ a.kind = "saved" => a.path \in Paths
      BY <2>2, AlertsRead DEF Read
    <2>5. SavesInSlot(a) \in BOOLEAN
      BY DEF SavesInSlot, StorageTypeOK
    <2> HIDE DEF a
    <2> QED
      BY <1>5, <2>2, <2>3, <2>4, <2>5 DEF Dispatch, StorageTypeOK, a
  <1>6. CASE UNCHANGED storageVars
    BY <1>6 DEF StorageTypeOK, storageVars, libtorrentVars, signalVars
  <1> QED
    BY <1>1, <1>2, <1>3, <1>4, <1>5, <1>6, ApplicationType, DiskThreadType
    DEF StorageNext

----------------------------------------------------------------------------
(* The invariant: the pending alerts lead to libtorrent's state.            *)

StorageInv == StorageTypeOK /\ DirectoryCatchesUp /\ NamesCatchUp

\* The step by which the pending alerts grow by one, or that drops it.
LEMMA PostKeeps ==
    ASSUME StorageInv, StorageTypeOK', NEW a \in Alerts, Post(a),
           UNCHANGED <<batch, downloadDirectory, shown>>,
           a \in MovedAlerts => a = Moved(savePath'),
           a \notin MovedAlerts => UNCHANGED savePath,
           \A f \in Files : a \in RenamedAlerts(f) => a = Renamed(f, names'[f]),
           \A f \in Files : a \notin RenamedAlerts(f) => names'[f] = names[f]
    PROVE  DirectoryCatchesUp' /\ NamesCatchUp'
  <1> SUFFICES ASSUME ~dropped' PROVE DirectoryCatchesUp' /\ NamesCatchUp'
    BY DEF DirectoryCatchesUp, NamesCatchUp
  <1>1. /\ StorageTypeOK /\ batch \in Seq(Alerts) /\ alerts \in Seq(Alerts)
        /\ dropped \in BOOLEAN
    BY DEF StorageInv, StorageTypeOK
  <1>2. /\ ~dropped
        /\ \/ Pending' = Append(Pending, a)
           \/ UNCHANGED Pending /\ a.kind = "completed"
    BY <1>1, Posted
  <1>3. Pending \in Seq(Alerts)
    BY <1>1, ConcatProperties DEF Pending
  <1>4. Leads(Pending, MovedAlerts, Moved(savePath), downloadDirectory = savePath)
    BY <1>2 DEF StorageInv, DirectoryCatchesUp
  <1>5. ASSUME NEW f \in Files
        PROVE  Leads(Pending, RenamedAlerts(f), Renamed(f, names[f]), shown[f] = names[f])
    BY <1>2 DEF StorageInv, NamesCatchUp
  <1>6. Leads(Pending', MovedAlerts, Moved(savePath'), downloadDirectory' = savePath')
    <2>1. CASE a \in MovedAlerts
      <3>1. Pending' = Append(Pending, a) /\ a = Moved(savePath')
        BY <1>2, <2>1 DEF MovedAlerts, Moved
      <3> QED
        BY <1>3, <2>1, <3>1, AppendLast
    <2>2. CASE a \notin MovedAlerts /\ Pending' = Append(Pending, a)
      BY <1>3, <1>4, <2>2, AppendOther
    <2>3. CASE a \notin MovedAlerts /\ UNCHANGED Pending
      BY <1>4, <2>3
    <2> QED
      BY <1>2, <2>1, <2>2, <2>3
  <1>7. ASSUME NEW f \in Files
        PROVE  Leads(Pending', RenamedAlerts(f), Renamed(f, names'[f]), shown'[f] = names'[f])
    <2>1. CASE a \in RenamedAlerts(f)
      <3>1. Pending' = Append(Pending, a) /\ a = Renamed(f, names'[f])
        BY <1>2, <2>1 DEF RenamedAlerts, Renamed
      <3> QED
        BY <1>3, <2>1, <3>1, AppendLast
    <2>2. CASE a \notin RenamedAlerts(f) /\ Pending' = Append(Pending, a)
      BY <1>3, <1>5, <2>2, AppendOther
    <2>3. CASE a \notin RenamedAlerts(f) /\ UNCHANGED Pending
      BY <1>5, <2>3
    <2> QED
      BY <1>2, <2>1, <2>2, <2>3
  <1> QED
    BY <1>6, <1>7 DEF DirectoryCatchesUp, NamesCatchUp

\* A step that changes neither the queue nor what it is about.
LEMMA QuietKeeps ==
    ASSUME StorageInv, UNCHANGED <<Pending, dropped, savePath, names,
                                   downloadDirectory, shown>>
    PROVE  DirectoryCatchesUp' /\ NamesCatchUp'
  BY DEF StorageInv, DirectoryCatchesUp, NamesCatchUp

LEMMA DispatchKeeps ==
    ASSUME StorageInv, StorageTypeOK', Dispatch
    PROVE  DirectoryCatchesUp' /\ NamesCatchUp'
  <1> SUFFICES ASSUME ~dropped' PROVE DirectoryCatchesUp' /\ NamesCatchUp'
    BY DEF DirectoryCatchesUp, NamesCatchUp
  <1> DEFINE a == Head(Pending)
  <1>1. /\ Pending \in Seq(Alerts) /\ Pending # <<>> /\ Pending' = Tail(Pending)
        /\ UNCHANGED <<savePath, names, dropped>>
        /\ downloadDirectory' = DirectoryAfter(a) /\ shown' = ShownAfter(a)
    BY Taken DEF StorageInv, Dispatch
  <1>2. a \in Alerts /\ shown \in [Files -> Names] /\ names \in [Files -> Names]
        /\ savePath \in Paths
    BY <1>1, HeadTailProperties DEF StorageInv, StorageTypeOK
  <1>3. Leads(Pending', MovedAlerts, Moved(savePath'), downloadDirectory' = savePath')
    <2> DEFINE told  == downloadDirectory = savePath
               told2 == DirectoryAfter(a) = savePath
    <2>1. Leads(Pending, MovedAlerts, Moved(savePath), told)
      BY <1>1 DEF StorageInv, DirectoryCatchesUp
    <2>2. a \notin MovedAlerts => (told => told2)
      <3> SUFFICES ASSUME a \notin MovedAlerts PROVE DirectoryAfter(a) = downloadDirectory
        OBVIOUS
      <3>1. a.kind # "moved"
        BY <1>2, AlertsRead DEF Read, MovedAlerts
      <3> QED
        BY <3>1 DEF DirectoryAfter
    <2>3. a \in MovedAlerts /\ a = Moved(savePath) => told2
      BY DEF DirectoryAfter, Moved
    <2>4. Moved(savePath) \in MovedAlerts
      BY <1>2, AlertsMade
    <2> HIDE DEF told, told2
    <2>5. told \in BOOLEAN /\ told2 \in BOOLEAN
      BY DEF told, told2
    <2>6. Leads(Tail(Pending), MovedAlerts, Moved(savePath), told2)
      BY <1>1, <2>1, <2>2, <2>3, <2>4, <2>5, DropHead
    <2> QED
      BY <1>1, <2>6 DEF told2
  <1>4. ASSUME NEW f \in Files
        PROVE  Leads(Pending', RenamedAlerts(f), Renamed(f, names'[f]), shown'[f] = names'[f])
    <2> DEFINE told  == shown[f] = names[f]
               told2 == ShownAfter(a)[f] = names[f]
               S     == RenamedAlerts(f)
               last  == Renamed(f, names[f])
    <2>1. Leads(Pending, S, last, told)
      BY <1>1 DEF StorageInv, NamesCatchUp
    <2>2. a \notin S => (told => told2)
      <3> SUFFICES ASSUME a \notin S PROVE ShownAfter(a)[f] = shown[f]
        OBVIOUS
      <3>1. a.kind # "renamed" \/ a.file # f
        BY <1>2, AlertsRead DEF Read, RenamedAlerts
      <3>2. a.kind = "renamed" => a.file \in Files
        BY <1>2, AlertsRead DEF Read
      <3> QED
        BY <1>2, <3>1, <3>2 DEF ShownAfter
    <2>3. a \in S /\ a = last => told2
      BY <1>2 DEF ShownAfter, Renamed
    <2>4. last \in S
      BY <1>2, AlertsMade
    <2> HIDE DEF told, told2, S, last
    <2>5. told \in BOOLEAN /\ told2 \in BOOLEAN
      BY DEF told, told2
    <2>6. Leads(Tail(Pending), S, last, told2)
      BY <1>1, <2>1, <2>2, <2>3, <2>4, <2>5, DropHead
    <2> QED
      BY <1>1, <2>6 DEF told2, S, last
  <1> QED
    BY <1>3, <1>4 DEF DirectoryCatchesUp, NamesCatchUp

----------------------------------------------------------------------------
LEMMA InitInv ==
    ASSUME StorageInit PROVE StorageInv
  <1>1. Pending = <<>>
    BY EmptySeq, ConcatEmptySeq DEF StorageInit, Pending
  <1>2. \A S : NoneIn(Pending, S)
    BY <1>1 DEF NoneIn
  <1>3. DirectoryCatchesUp /\ NamesCatchUp
    BY <1>2 DEF StorageInit, DirectoryCatchesUp, NamesCatchUp, Leads
  <1> QED
    BY <1>3, InitType DEF StorageInv

LEMMA DiskThreadKeeps ==
    ASSUME StorageInv, DiskThread, StorageTypeOK'
    PROVE  DirectoryCatchesUp' /\ NamesCatchUp'
  <1>1. jobs # <<>> /\ jobs \in Seq(Jobs) /\ names \in [Files -> Names]
    BY DEF DiskThread, DoMove, DoRename, StorageInv, StorageTypeOK
  <1>2. Head(jobs) \in Jobs
    BY <1>1, HeadTailProperties
  <1>3. CASE DoMove
    <2> DEFINE p == Head(jobs).path
               failed == [kind |-> "moveFailed", path |-> p]
    <2>1. p \in Paths
      BY <1>2, <1>3 DEF DoMove, Jobs
    <2>2. UNCHANGED <<batch, downloadDirectory, shown, names>>
      BY <1>3 DEF DoMove, signalVars
    <2>3. /\ Moved(p) \in Alerts /\ Moved(p) \in MovedAlerts /\ failed \in Alerts
          /\ failed \notin MovedAlerts
          /\ \A f \in Files : /\ Moved(p) \notin RenamedAlerts(f)
                              /\ failed \notin RenamedAlerts(f)
      BY <2>1 DEF Alerts, Moves, Moved, MovedAlerts, Renamed, RenamedAlerts
    <2>4. CASE savePath' = p /\ Post(Moved(p))
      BY <2>2, <2>3, <2>4, PostKeeps
    <2>5. CASE UNCHANGED savePath /\ Post(failed)
      BY <2>2, <2>3, <2>5, PostKeeps
    <2> QED
      BY <1>3, <2>4, <2>5 DEF DoMove
  <1>4. CASE DoRename
    <2> DEFINE f == Head(jobs).file
               n == Head(jobs).name
               failed == [kind |-> "renameFailed", file |-> f, name |-> n]
    <2>1. f \in Files /\ n \in Names
      BY <1>2, <1>4 DEF DoRename, Jobs
    <2>2. UNCHANGED <<batch, downloadDirectory, shown, savePath>>
      BY <1>4 DEF DoRename, signalVars
    <2>3. /\ Renamed(f, n) \in Alerts /\ failed \in Alerts
          /\ Renamed(f, n) \notin MovedAlerts /\ failed \notin MovedAlerts
          /\ \A g \in Files : /\ failed \notin RenamedAlerts(g)
                              /\ g # f => Renamed(f, n) \notin RenamedAlerts(g)
          /\ Renamed(f, n) \in RenamedAlerts(f)
      BY <2>1 DEF Alerts, Renames, Moved, MovedAlerts, Renamed, RenamedAlerts
    <2>4. CASE names' = [names EXCEPT ![f] = n] /\ Post(Renamed(f, n))
      <3>1. names'[f] = n /\ \A g \in Files : g # f => names'[g] = names[g]
        BY <1>1, <2>1, <2>4
      <3> HIDE DEF f, n
      <3> QED
        BY <2>2, <2>3, <2>4, <3>1, PostKeeps
    <2>5. CASE UNCHANGED names /\ Post(failed)
      BY <2>2, <2>3, <2>5, PostKeeps
    <2> QED
      BY <1>4, <2>4, <2>5 DEF DoRename
  <1> QED
    BY <1>3, <1>4 DEF DiskThread

LEMMA ApplicationKeeps ==
    ASSUME StorageInv, Torrents, StorageTypeOK'
    PROVE  DirectoryCatchesUp' /\ NamesCatchUp'
  <1>1. ASSUME NEW p \in Paths, MoveStorage(p)
        PROVE  DirectoryCatchesUp' /\ NamesCatchUp'
    <2>1. CASE metadata
      BY <1>1, <2>1, QuietKeeps DEF MoveStorage, Pending
    <2>2. CASE ~metadata
      <3>1. /\ Moved(p) \in Alerts /\ Moved(p) \in MovedAlerts
            /\ \A f \in Files : Moved(p) \notin RenamedAlerts(f)
        BY DEF Alerts, Moves, Moved, MovedAlerts, Renamed, RenamedAlerts
      <3>2. /\ savePath' = p /\ Post(Moved(p))
            /\ UNCHANGED <<batch, downloadDirectory, shown, names>>
        BY <1>1, <2>2 DEF MoveStorage
      <3> QED
        BY <3>1, <3>2, PostKeeps
    <2> QED
      BY <2>1, <2>2
  <1>2. ASSUME NEW f \in Files, NEW n \in Names, RenameFile(f, n)
        PROVE  DirectoryCatchesUp' /\ NamesCatchUp'
    BY <1>2, QuietKeeps DEF RenameFile, Pending, signalVars
  <1>3. CASE SaveResumeData
    BY <1>3, QuietKeeps DEF SaveResumeData, Pending, signalVars
  <1> QED
    BY <1>1, <1>2, <1>3 DEF Torrents

LEMMA NextInv ==
    ASSUME StorageInv, [StorageNext]_storageVars PROVE StorageInv'
  <1>1. StorageTypeOK'
    BY NextType DEF StorageInv
  <1> SUFFICES DirectoryCatchesUp' /\ NamesCatchUp'
    BY <1>1 DEF StorageInv
  <1>2. CASE ReceiveMetadata
    BY <1>2, QuietKeeps DEF ReceiveMetadata, Pending, signalVars
  <1>3. ASSUME NEW f \in Files, CompleteFile(f)
        PROVE  DirectoryCatchesUp' /\ NamesCatchUp'
    <2> DEFINE a == [kind |-> "completed", file |-> f]
    <2>1. /\ a \in Alerts /\ a \notin MovedAlerts
          /\ \A g \in Files : a \notin RenamedAlerts(g)
      BY DEF Alerts, Completions, Moved, MovedAlerts, Renamed, RenamedAlerts
    <2>2. Post(a) /\ UNCHANGED <<batch, downloadDirectory, shown, savePath, names>>
      BY <1>3 DEF CompleteFile, signalVars
    <2> HIDE DEF a
    <2> QED
      BY <1>1, <2>1, <2>2, PostKeeps
  <1>4. CASE AnswerSave
    <2> DEFINE a == [kind |-> "saved", path |-> savePath]
    <2>1. /\ a \in Alerts /\ a \notin MovedAlerts
          /\ \A g \in Files : a \notin RenamedAlerts(g)
      BY DEF Alerts, Saves, Moved, MovedAlerts, Renamed, RenamedAlerts,
             StorageInv, StorageTypeOK
    <2>2. Post(a) /\ UNCHANGED <<batch, downloadDirectory, shown, savePath, names>>
      BY <1>4 DEF AnswerSave, signalVars
    <2> HIDE DEF a
    <2> QED
      BY <1>1, <2>1, <2>2, PostKeeps
  <1>5. CASE Poll
    <2>1. UNCHANGED Pending
      BY <1>5, Taken DEF StorageInv
    <2> QED
      BY <1>5, <2>1, QuietKeeps DEF Poll, libtorrentVars, signalVars
  <1>6. CASE Dispatch
    BY <1>1, <1>6, DispatchKeeps
  <1>7. CASE UNCHANGED storageVars
    BY <1>7, QuietKeeps DEF storageVars, libtorrentVars, signalVars, Pending
  <1> QED
    BY <1>1, <1>2, <1>3, <1>4, <1>5, <1>6, <1>7, ApplicationKeeps, DiskThreadKeeps
    DEF StorageNext

LEMMA InvAlways == StorageSpec => []StorageInv
  BY InitInv, NextInv, PTL DEF StorageSpec

(* Every variable of the storage of a torrent keeps its type, whatever the  *)
(* queues, the moves and the renames.                                       *)
THEOREM StorageTypeCorrect == StorageSpec => []StorageTypeOK
  <1>1. StorageInv => StorageTypeOK
    BY DEF StorageInv
  <1> QED
    BY <1>1, InvAlways, PTL

(* Torrent's copy of the download directory (setDownloadDirectory) is late  *)
(* and never wrong, unless libtorrent's queue of alerts was full: what is   *)
(* still to be dispatched leads from it to the directory of the files.      *)
THEOREM DirectoryIsLate == StorageSpec => []DirectoryCatchesUp
  <1>1. StorageInv => DirectoryCatchesUp
    BY DEF StorageInv
  <1> QED
    BY <1>1, InvAlways, PTL

(* So are the names that fileRenamed has told, though renames of one file   *)
(* may cross and fail.                                                      *)
THEOREM NamesAreLate == StorageSpec => []NamesCatchUp
  <1>1. StorageInv => NamesCatchUp
    BY DEF StorageInv
  <1> QED
    BY <1>1, InvAlways, PTL
----------------------------------------------------------------------------
(* The parts together.                                                      *)

SessionInv == FilterInv /\ SettingsInv /\ StorageInv

LEMMA InitSessionInv == SessionInit => SessionInv
  BY InitFilterInv, InitSettingsInv, InitInv DEF SessionInit, SessionInv

\* A step of one part leaves the others alone.
LEMMA NextSessionInv == SessionInv /\ [SessionNext]_sessionVars => SessionInv'
  <1> SUFFICES ASSUME SessionInv, [SessionNext]_sessionVars PROVE SessionInv'
    OBVIOUS
  <1>1. /\ [FilterNext]_filterVars
        /\ [SettingsNext]_settingsVars
        /\ [StorageNext]_storageVars
    BY DEF SessionNext, sessionVars
  <1> QED
    BY <1>1, NextFilterInv, NextSettingsInv, NextInv DEF SessionInv

LEMMA SessionInvAlways == SessionSpec => []SessionInv
  BY InitSessionInv, NextSessionInv, PTL DEF SessionSpec

(* Every variable of the filter, of the settings and of the storage keeps   *)
(* its type in a client that has them all.                                  *)
THEOREM SessionTypeCorrect == SessionSpec => []SessionTypeOK
  <1>1. SessionInv => SessionTypeOK
    BY DEF SessionInv, SessionTypeOK, FilterInv, SettingsInv, StorageInv
  <1> QED
    BY <1>1, SessionInvAlways, PTL

(* And what is right of each part by itself is right of the client.         *)
THEOREM SessionIsCorrect ==
    SessionSpec => [](/\ BlockedForAReason /\ OrderlyIsEnough
                      /\ LatestSettingsHold
                      /\ DirectoryCatchesUp /\ NamesCatchUp)
  <1>1. SessionInv => /\ BlockedForAReason /\ OrderlyIsEnough
                      /\ LatestSettingsHold
                      /\ DirectoryCatchesUp /\ NamesCatchUp
    BY BansAreCovered DEF SessionInv, FilterInv, SettingsInv, StorageInv, OrderlyIsEnough
  <1> QED
    BY <1>1, SessionInvAlways, PTL

=============================================================================
