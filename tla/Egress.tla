-------------------------------- MODULE Egress --------------------------------
(* proxy.ts and proxy-standalone.ts: the sidecar that is the container's only    *)
(* way out. It works from a copy of the permit's hosts, window and capability    *)
(* taken when it was started.                                                    *)
EXTENDS Engine

CONSTANTS ProviderHost,    \* where the model lives
          TelemetryHosts   \* hosts the runtime calls on its own initiative

ASSUME EgressAssumption == ProviderHost \in Hosts /\ TelemetryHosts \subseteq Hosts

\* proxy-standalone.ts refuses to start without a granted host.
SidecarStarts(p) == p.doors.hosts # {}
SidecarPermit(p) == [run |-> p.run, hosts |-> p.doors.hosts, expired |-> p.expired]

\* A request: whose capability it presents, its form, the host it names, and where
\* in its body something looks like a secret.
\*   direct   a path alone, or the sidecar's own address: meant for the provider
\*   forward  an absolute address
\*   tunnel   CONNECT
Destination(q) == IF q.form = "direct" THEN ProviderHost ELSE q.host

\* The first 64 KB are inspected; a tunnel's content is not seen.
Sampled(q) == q.form # "tunnel" /\ q.secret = "head"

DecideEgress(s, presented, q) ==
    IF presented # s.run THEN "P-00"
    ELSE IF s.expired THEN "P-09"
    ELSE IF Destination(q) \notin s.hosts THEN "P-07"
    ELSE IF Sampled(q) THEN "P-11"
    ELSE "P-OK"

\* refuse: the denial the parent process reads back from the sidecar's log. One of a
\* host the runtime calls by itself is the platform's, not the agent's.
Denial(s, presented, q) ==
    [rule |-> DecideEgress(s, presented, q), platform |-> Destination(q) \in TelemetryHosts]
==============================================================================
