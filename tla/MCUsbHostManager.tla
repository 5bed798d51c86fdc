-------------------------- MODULE MCUsbHostManager --------------------------
(* Instances of UsbHostManager: a hub, a serial device with one interface, *)
(* and a twin of the serial device's that has the same id.                 *)
EXTENDS UsbHostManager

CONSTANTS hub, tty, twin, hubT, ttyT, ifT, hubId, ttyId

MCTypeOf   == [d \in Devs |-> IF d = hub THEN hubT ELSE ttyT]
MCIfTypeOf == [d \in Devs |-> IF d = hub THEN NoType ELSE ifT]
MCIdOf     == [d \in Devs |-> IF d = hub THEN hubId ELSE ttyId]

Pol(kind, set) == [kind |-> kind, set |-> set]

MCPolicies == {NoPolicy, Pol("global", {}), Pol("types", {hubT, ifT}),
               Pol("trust", {hubId})}

TrustPolicies == {NoPolicy, Pol("trust", {ttyId})}

(* A bound: the twin is there for the walks over ids.  It comes second,    *)
(* under a trust list, and without the hub and the serial policy.          *)
TwinBound ==
  adding = twin \/ twin \in Present =>
    /\ tty \in Present /\ hub \notin Present /\ adding # hub
    /\ policy.kind = "trust" /\ serialDevs = {}
=============================================================================
