---------------------------- MODULE ConnectionPlan ----------------------------
(***************************************************************************)
(* The attempts pgconn makes for one member, as a constructor plans them   *)
(* (pgxpool/connection_config.go): at which endpoint, over which transport,*)
(* under which server name. The application's configuration has its own    *)
(* hosts and transports; only the transports may survive.                  *)
(***************************************************************************)
EXTENDS Integers, Sequences

CONSTANTS
    Addresses,        \* hosts with their ports
    Names,            \* host names
    Trusts,           \* what a transport of the application's trusts
    Endpoints,        \* that members have
    NoEndpoint,       \* Endpoint{}
    PlainText,        \* a nil *tls.Config
    NoName            \* an empty ServerName

\* The trust a discovered CA gives, with TLS 1.2 at least.
Discovered == "discovered-CA"

Endpoint == [address : Addresses, host : Names, serverName : Names \cup {NoName}]

TLS == [trust : Trusts \cup {Discovered}, serverName : Names \cup {NoName}]

Attempt == [address : Addresses, tls : TLS \cup {PlainText}]

\* pgconn.Config and its Fallbacks.
ConnConfig == Seq(Attempt) \ {<<>>}

\* Members with one endpoint or two, whose database and CA are described or not.
Targets ==
    {t \in [endpoint : Endpoints, fallback : Endpoints \cup {NoEndpoint}, described : BOOLEAN] :
       t.fallback = NoEndpoint \/ t.fallback.address # t.endpoint.address}

ASSUME EndpointsAreValid == Endpoints \subseteq Endpoint /\ NoEndpoint \notin Endpoints

ASSUME PlainTextIsNoTLS == PlainText \notin TLS

-----------------------------------------------------------------------------

endpointTLS(tls, endpoint) ==
    IF tls = PlainText THEN PlainText
    ELSE [tls EXCEPT !.serverName = IF endpoint.serverName = NoName THEN endpoint.host
                                                                   ELSE endpoint.serverName]

DiscoveredTLS == [trust |-> Discovered, serverName |-> NoName]

At(tls, endpoint) == [address |-> endpoint.address, tls |-> endpointTLS(tls, endpoint)]

\* Mutant of setEndpoint: another host of the application's stays.
setEndpointOnce(cfg, endpoint) == <<At(Head(cfg).tls, endpoint)>> \o Tail(cfg)

\* The application's attempts at its first address: other hosts of its own would
\* bypass the selected member.
Kept(cfg) ==
    LET kept[i \in 0..Len(cfg)] ==
          IF i = 0 THEN <<>>
          ELSE IF cfg[i].address = cfg[1].address THEN Append(kept[i - 1], cfg[i])
          ELSE kept[i - 1]
    IN  kept[Len(cfg)]

\* Their transports, all at the endpoint.
setEndpoint(cfg, endpoint) ==
    LET kept == Kept(cfg) IN [i \in DOMAIN kept |-> At(kept[i].tls, endpoint)]

\* The same attempts once more, at the other endpoint if there is one.
appendEndpointFallback(cfg, endpoint) ==
    IF endpoint = NoEndpoint THEN cfg
    ELSE cfg \o [i \in DOMAIN cfg |-> At(cfg[i].tls, endpoint)]

\* Verified TLS only, whatever the application's configuration says; nothing when
\* discovery gave no database name or no CA.
setDiscoveredConnection(target) ==
    IF ~target.described THEN <<>>
    ELSE appendEndpointFallback(<<At(DiscoveredTLS, target.endpoint)>>, target.fallback)

configureConnection(automatic, cfg, target) ==
    IF automatic THEN setDiscoveredConnection(target)
    ELSE appendEndpointFallback(setEndpoint(cfg, target.endpoint), target.fallback)
=============================================================================
