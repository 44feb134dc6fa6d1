---------------------------- MODULE Configuration ----------------------------
(***************************************************************************)
(* What New accepts as the configuration of discovery (config.go):         *)
(* defaults, ranges and the transport. Durations are in microseconds; the  *)
(* spelling of addresses and names is one Boolean.                         *)
(***************************************************************************)
EXTENDS Integers

CONSTANTS
    Durations,     \* the durations a caller may set
    NoTLS          \* a nil *tls.Config

Millisecond == 1000
Second == 1000 * Millisecond

Refused == [error |-> "refused"]

TLS12 == 12    \* 11 for TLS 1.1, and so on; 0 when unset

Tokens == {"none", "bearer", "with-whitespace"}

\* A *tls.Config: whose object it is, and what it asks of the server.
TLSConfig == [owner : {"caller", "client"}, verifies : BOOLEAN, minVersion : {0, 11, TLS12, 13}]

Config == [named : BOOLEAN, token : Tokens, TLSConfig : TLSConfig \cup {NoTLS},
           insecure : BOOLEAN, StartupTimeout : Durations, ReconnectMin : Durations,
           ReconnectMax : Durations, MaxSnapshotTTL : Durations]

ASSUME DurationsAreIntegers == Durations \subseteq Int

ASSUME NoTLSIsNil == NoTLS \notin TLSConfig

-----------------------------------------------------------------------------

Or(duration, default) == IF duration = 0 THEN default ELSE duration

Defaults(c) ==
    [c EXCEPT !.StartupTimeout = Or(@, 30 * Second),
              !.ReconnectMin = Or(@, 100 * Millisecond),
              !.ReconnectMax = Or(@, 5 * Second),
              !.MaxSnapshotTTL = Or(@, 30 * Second)]

InRange(c) ==
    /\ c.StartupTimeout >= 0
    /\ c.ReconnectMin >= 0
    /\ c.ReconnectMax >= c.ReconnectMin
    /\ c.MaxSnapshotTTL >= Millisecond

\* The client's own copy of the caller's TLS configuration.
Clone(tls) ==
    IF tls = NoTLS THEN [owner |-> "client", verifies |-> TRUE, minVersion |-> 0]
    ELSE [tls EXCEPT !.owner = "client"]

Secured(tls) ==
    [Clone(tls) EXCEPT !.minVersion = IF @ < TLS12 THEN TLS12 ELSE @]

\* Plaintext takes no credentials, and a token no whitespace and no unverified server.
Transportable(c) ==
    IF c.insecure THEN c.token = "none" /\ c.TLSConfig = NoTLS
    ELSE c.token # "with-whitespace" /\ Clone(c.TLSConfig).verifies

Transport(c) == IF c.insecure THEN c ELSE [c EXCEPT !.TLSConfig = Secured(@)]

\* Mutant of normalized: ranges are checked before the defaults apply.
normalizedRangesFirst(c) ==
    IF c.named /\ InRange([c EXCEPT !.MaxSnapshotTTL = Or(@, Millisecond)]) /\ Transportable(c)
    THEN Transport(Defaults(c)) ELSE Refused

normalized(c) ==
    IF c.named /\ InRange(Defaults(c)) /\ Transportable(c)
    THEN Transport(Defaults(c)) ELSE Refused
=============================================================================
