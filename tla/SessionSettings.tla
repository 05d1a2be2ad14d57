-------------------------- MODULE SessionSettings --------------------------
(* The settings of the session.  libtorrent keeps them; each setter of      *)
(* TorrentClient applies a pack of the few it names and leaves the rest,    *)
(* each getter reads them back.  libtorrent carries out calls in the order  *)
(* they are made, so a call is one step.  TorrentClient itself only keeps   *)
(* the proxy that it was given last.                                        *)
EXTENDS Integers

CONSTANTS Hosts, NoHost, Users, NoUser,  \* of proxies
          Values, Default                \* of the settings with a plain setter

ASSUME ProxyAssumption == NoHost \notin Hosts /\ NoUser \notin Users

VARIABLES networkProxy,   \* _networkProxy
          plain,          \* libtorrent's settings: the plain ones, ...
          proxy,          \* ... those of its proxy, ...
          encryption,     \* ... and in_enc_policy, out_enc_policy
          modeAsked       \* history: the encryption mode set last

settingsVars == <<networkProxy, plain, proxy, encryption, modeAsked>>

\* QNetworkProxy; HTTP stands for all types that are not SOCKS5.
Proxies == [type : {"Default", "Socks5", "Http"},
            host : Hosts \union {NoHost}, user : Users \union {NoUser}]

Modes == {"EncryptionEnabled", "EncryptionForced", "EncryptionDisabled"}

EncPolicies == {"pe_enabled", "pe_forced", "pe_disabled"}

PlainNames == {"download_rate_limit", "upload_rate_limit", "connections_limit",
               "unchoke_slots_limit", "listen_interfaces", "enable_dht",
               "enable_lsd", "user_agent"}

----------------------------------------------------------------------------
\* The constructor.  peers: proxy_peer_connections and proxy_hostnames.
SettingsInit ==
    /\ networkProxy = [type |-> "Default", host |-> NoHost, user |-> NoUser]
    /\ plain = [name \in PlainNames |-> Default]
    /\ proxy = [type |-> "none", host |-> NoHost, user |-> NoUser, peers |-> TRUE]
    /\ encryption = [in |-> "pe_enabled", out |-> "pe_enabled"]
    /\ modeAsked = "EncryptionEnabled"

\* A variant of Configured: the user name is only set if there is one.
ConfiguredNamed(p) ==
    IF p.type = "Socks5"
    THEN [type |-> IF p.user = NoUser THEN "socks5" ELSE "socks5_pw",
          host |-> p.host,
          user |-> IF p.user = NoUser THEN proxy.user ELSE p.user,
          peers |-> TRUE]
    ELSE [proxy EXCEPT !.type = "none"]

\* configureProxy: no other type than SOCKS5 is used; the host and the user of
\* the last SOCKS5 proxy stay behind.
Configured(p) ==
    IF p.type = "Socks5"
    THEN [type |-> IF p.user = NoUser THEN "socks5" ELSE "socks5_pw",
          host |-> p.host, user |-> p.user, peers |-> TRUE]
    ELSE [proxy EXCEPT !.type = "none"]

SetNetworkProxy(p) ==
    /\ networkProxy' = p
    /\ proxy' = Configured(p)
    /\ UNCHANGED <<plain, encryption, modeAsked>>

\* The setters of limits, listen interfaces, DHT, LSD and the user agent.
ApplySetting(name, value) ==
    /\ plain' = [plain EXCEPT ![name] = value]
    /\ UNCHANGED <<networkProxy, proxy, encryption, modeAsked>>

Policies(m) ==
    CASE m = "EncryptionForced"   -> [in |-> "pe_forced", out |-> "pe_forced"]
      [] m = "EncryptionDisabled" -> [in |-> "pe_disabled", out |-> "pe_disabled"]
      [] m = "EncryptionEnabled"  -> [in |-> "pe_enabled", out |-> "pe_enabled"]

SetEncryptionMode(m) ==
    /\ encryption' = Policies(m)
    /\ modeAsked' = m
    /\ UNCHANGED <<networkProxy, plain, proxy>>

\* encryptionMode(): only the policy for incoming connections is read.
EncryptionMode ==
    CASE encryption.in = "pe_forced"   -> "EncryptionForced"
      [] encryption.in = "pe_disabled" -> "EncryptionDisabled"
      [] OTHER                         -> "EncryptionEnabled"

SettingsNext ==
    \/ \E p \in Proxies : SetNetworkProxy(p)
    \/ \E name \in PlainNames, value \in Values : ApplySetting(name, value)
    \/ \E m \in Modes : SetEncryptionMode(m)

SettingsSpec == SettingsInit /\ [][SettingsNext]_settingsVars

----------------------------------------------------------------------------
(* Every variable has its type. *)
SettingsTypeOK ==
    /\ networkProxy \in Proxies
    /\ plain \in [PlainNames -> Values \union {Default}]
    /\ proxy \in [type : {"none", "socks5", "socks5_pw"},
                  host : Hosts \union {NoHost}, user : Users \union {NoUser},
                  peers : BOOLEAN]
    /\ encryption \in [in : EncPolicies, out : EncPolicies]
    /\ modeAsked \in Modes

(* Whatever proxies came before, libtorrent runs with the one that was set  *)
(* last: connections to peers go through a SOCKS5 proxy, with its own       *)
(* credentials and no others, and through no proxy of another type.         *)
LastProxyIsUsed ==
    IF networkProxy.type = "Socks5"
    THEN /\ proxy.host = networkProxy.host
         /\ proxy.user = networkProxy.user
         /\ proxy.type = IF networkProxy.user = NoUser THEN "socks5" ELSE "socks5_pw"
         /\ proxy.peers
    ELSE proxy.type = "none"

(* The mode that encryptionMode reports is the one that was asked for last, *)
(* and holds for outgoing connections, whose policy it does not read.       *)
EncryptionIsBothWays ==
    /\ EncryptionMode = modeAsked
    /\ encryption.out = encryption.in

(* The latest settings hold, whatever was set before and in between. *)
LatestSettingsHold == LastProxyIsUsed /\ EncryptionIsBothWays

=============================================================================
