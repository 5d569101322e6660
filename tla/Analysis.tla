------------------------------ MODULE Analysis ------------------------------
(***************************************************************************)
(* analyze_run (lab/analysis.py): the verdict on a run, computed from the  *)
(* polls of metrics-timeseries.json and the collected keylogs.  Assertions *)
(* on figures (loss, packet counters, serial crashes) are one Boolean;     *)
(* those on which peers were listed, when, and on keys are modelled in     *)
(* full.                                                                   *)
(***************************************************************************)
EXTENDS Naturals, FiniteSets, Sequences

CONSTANTS
    Node,        \* the topology's devices
    Fips,        \* those that run fipsctl and are polled
    Links,       \* topology.links of the scenario, each a set of two nodes
    NameRank,    \* NameRank[n]: place of the device's name in string order
    MaxDisconnects,  \* the max of a max_disconnects assertion
    MaxRekeys    \* max_per_hour of a max_rekey_rate assertion, for the run's hours

\* An address, <<n>> below, is never the name of a device.
ASSUME AnalysisAssumption ==
    /\ IsFiniteSet(Node)
    /\ \A n \in Node : <<n>> \notin Node /\ NameRank[n] \in Nat
    /\ \A n, m \in Node : NameRank[n] = NameRank[m] => n = m
    /\ Fips \subseteq Node
    /\ MaxRekeys \in Nat
    /\ \A link \in Links : link \subseteq Node /\ Cardinality(link) = 2

\* What one poll of n says of p.  A query that fails lists nobody.
View == {"absent", "handshake", "connected"}
Sample == {s \in [Fips -> [Node -> View]] : \A n \in Fips : s[n][n] = "absent"}

Peers(sample, n) == {p \in Node : sample[n][p] # "absent"}

\* The alias of a node address: known from show_status of the first sample,
\* of the initial snapshot or from the inventory, else the address itself.
Name(known, p) == IF p \in known THEN p ELSE <<p>>
Pair(known, n, p) == {n, Name(known, p)}

-----------------------------------------------------------------------------
(* _build_connections: the pairs of the sample that lists most peers *)

Listings(sample) == {l \in Fips \X Node : l[2] \in Peers(sample, l[1])}

Best(series) ==
    CHOOSE i \in DOMAIN series : \A j \in DOMAIN series :
        /\ Cardinality(Listings(series[j])) <= Cardinality(Listings(series[i]))
        /\ Cardinality(Listings(series[j])) = Cardinality(Listings(series[i])) => i <= j

\* Of two ends that list each other the first decides: a sample read back
\* from metrics-timeseries.json has its devices in the order of their names.
Connections(series, known) ==
    IF series = <<>> THEN {}
    ELSE LET sample == series[Best(series)]
         IN {[pair |-> Pair(known, l[1], l[2]), connected |-> sample[l[1]][l[2]] = "connected"] :
               l \in {k \in Listings(sample) : \A m \in Listings(sample) :
                        Pair(known, m[1], m[2]) = Pair(known, k[1], k[2])
                            => NameRank[k[1]] <= NameRank[m[1]]}}

ConnectedPairs(series, known) ==
    {c.pair : c \in {d \in Connections(series, known) : d.connected}}

-----------------------------------------------------------------------------
(* _detect_disconnects *)

\* n listed p in sample i and no longer in the next.  Mutant: the last
\* sample is not looked at.
DropsButLast(series) ==
    {d \in Fips \X Node \X (1 .. Len(series)) :
        /\ d[3] + 1 < Len(series)
        /\ d[2] \in Peers(series[d[3]], d[1]) \ Peers(series[d[3] + 1], d[1])}
Drops(series) ==
    {d \in Fips \X Node \X (1 .. Len(series)) :
        /\ d[3] < Len(series)
        /\ d[2] \in Peers(series[d[3]], d[1]) \ Peers(series[d[3] + 1], d[1])}

\* One event per pair and sample: the first end that reports it counts, and
\* reconnected speaks of that end only.  Mutant: one event per pair.
OncePerPair(d, e, known) == Pair(known, d[1], d[2]) = Pair(known, e[1], e[2])
SameEvent(d, e, known) ==
    Pair(known, d[1], d[2]) = Pair(known, e[1], e[2]) /\ d[3] = e[3]

Earlier(e, d) == e[3] < d[3] \/ (e[3] = d[3] /\ NameRank[e[1]] < NameRank[d[1]])

Reconnected(series, d) ==
    \E j \in d[3] + 2 .. Len(series) : d[2] \in Peers(series[j], d[1])

Disconnects(series, known) ==
    {[pair |-> Pair(known, d[1], d[2]), at |-> d[3] + 1, reconnected |-> Reconnected(series, d)] :
        d \in {e \in Drops(series) :
                 ~ \E f \in Drops(series) : Earlier(f, e) /\ SameEvent(f, e, known)}}

-----------------------------------------------------------------------------
(* _build_key_exchange, _build_rekey_stats: keylog[n] holds the keys of the *)
(* keylog collected from n; not every node has one.                         *)

\* A link key opens the frames between n and the peer, a session key what is
\* inside them.  The analysis sees per device how many of each there are, and
\* not whose.
Key == [kind : {"link", "session"}, peer : Node, no : Nat]
LinkKeys(keylog, n) == Cardinality({k \in keylog[n] : k.kind = "link"})

FirstOf(ends) == CHOOSE n \in ends : \A m \in ends : NameRank[n] <= NameRank[m]

\* The first of the two devices that has a keylog decides, even if there is
\* no key in it; a key of either kind and of any peer will do.  Mutant:
\* having a keylog is enough.
HasKeylog(pair, keylog) == pair \cap DOMAIN keylog # {}
Covered(pair, keylog) ==
    LET ends == pair \cap DOMAIN keylog IN ends # {} /\ keylog[FirstOf(ends)] # {}

\* Here only link keys count, and the second device does if the first has none.
Rekeys(pair, keylog) ==
    LET ends == {n \in pair \cap DOMAIN keylog : LinkKeys(keylog, n) > 0}
    IN IF ends = {} THEN 0 ELSE LinkKeys(keylog, FirstOf(ends)) - 1

-----------------------------------------------------------------------------
(* _evaluate_assertions and _determine_verdict *)

\* checks is the set of assertion types of the scenario; none: the defaults.
Check == {"peer_connected", "max_disconnects", "reconnect_within", "max_rekey_rate"}

Connectivity(series, known) == Links \subseteq ConnectedPairs(series, known)

DisconnectsPass(checks, series, known) ==
    LET events == Disconnects(series, known)
    IN /\ checks = {} => events = {}
       /\ "max_disconnects" \in checks => Cardinality(events) <= MaxDisconnects
       /\ "reconnect_within" \in checks => \A e \in events : e.pair \in Links => e.reconnected

ConnectivityPasses(checks, series, known) ==
    (checks = {} \/ "peer_connected" \in checks) => Connectivity(series, known)

KeysPass(checks, keylog, series, known) ==
    LET pairs == {c.pair : c \in Connections(series, known)}
    IN /\ checks = {} => \A pair \in pairs : Covered(pair, keylog)
       /\ "max_rekey_rate" \in checks => \A pair \in pairs : Rekeys(pair, keylog) <= MaxRekeys

\* figures: whether the assertions on figures pass.
Verdict(checks, figures, keylog, series, known) ==
    IF Connections(series, known) = {} THEN "INSUFFICIENT_DATA"
    ELSE IF ~ConnectivityPasses(checks, series, known) THEN "FAIL"
    ELSE IF /\ figures /\ DisconnectsPass(checks, series, known)
            /\ KeysPass(checks, keylog, series, known) THEN "PASS"
    ELSE "DEGRADED"
=============================================================================
