------------------------------- MODULE RigGate -------------------------------
(***************************************************************************)
(* The offline decryptor (lib/fips_decrypt.py) over a loopback capture and *)
(* the exit status lib/rig_loopback.py derives from its statistics.        *)
(*                                                                         *)
(* The capture is read datagram by datagram.  A datagram carries mDNS,     *)
(* nothing that parses, or FMP frames back to back; an established frame   *)
(* whose link key is in the keylog may hold a SessionDatagram with an FSP  *)
(* frame of its own.                                                       *)
(***************************************************************************)
EXTENDS Integers, Sequences, FiniteSets

CONSTANTS
    LinkHs, SessionHs,  \* handshakes of pattern ik and xk
    NoKey,              \* stands for a handshake no keylog line is about
    MinRatio,           \* --min-ratio, in ten-thousandths
    MaxDatagrams,       \* bound on the datagrams
    MaxCoalesced        \* bound on the frames of a datagram

ASSUME RigAssumption ==
    /\ LinkHs \cap SessionHs = {}
    /\ NoKey \notin LinkHs \cup SessionHs
    /\ MinRatio \in 0..10000
    /\ {MaxDatagrams, MaxCoalesced} \subseteq Nat

VARIABLES
    lines,      \* the keylog: <<handshake, role>> pairs
    datagrams,  \* datagrams read so far
    stats,      \* the counters of main()
    exit,       \* exit status of rig_loopback, Running before
    wire        \* history: what the capture held, by frame kind and outcome

vars == <<lines, datagrams, stats, exit, wire>>

Running == 2

Stat == {"handshake", "established", "undecryptable", "decrypted", "fsp_setup",
         "fsp_established", "fsp_decrypted", "fsp_unencrypted", "fsp_unparseable"}

\* FMP frames: a handshake message; a link message; a SessionDatagram with
\* an FSP handshake, plaintext (U flag), cut-off or sealed frame in it.
Frame ==
    [kind : {"handshake"}]
    \cup [kind : {"link"}, key : LinkHs \cup {NoKey}]
    \cup [kind : {"session"}, key : LinkHs \cup {NoKey}, fsp : {"setup", "plain", "cut"}]
    \cup [kind : {"session"}, key : LinkHs \cup {NoKey}, fsp : {"sealed"},
          skey : SessionHs \cup {NoKey}]

-----------------------------------------------------------------------------
(* load_keylog: a generation needs the initiator's line, though either       *)
(* side's line carries both keys.                                            *)
Generations == {h \in LinkHs \cup SessionHs : <<h, "initiator">> \in lines}

LinkOpens(f) == f.key \in Generations
Sealed(f) == f.kind = "session" /\ f.fsp = "sealed"
SessionOpens(f) == f.skey \in Generations \cap SessionHs

\* decrypt_fsp returns None for a frame it cannot open as for one it cannot
\* parse; only a record it did return is counted as established.
FspStats(f) ==
    CASE f.fsp = "setup" -> {"fsp_setup"}
      [] f.fsp = "plain" -> {"fsp_established", "fsp_unencrypted"}
      [] f.fsp = "cut" -> {"fsp_unparseable"}
      [] OTHER -> IF SessionOpens(f) THEN {"fsp_established", "fsp_decrypted"}
                                     ELSE {"fsp_unparseable"}

\* The counters one frame increments.
FrameStats(f) ==
    IF f.kind = "handshake" THEN {"handshake"}
    ELSE IF ~LinkOpens(f) THEN {"established", "undecryptable"}
    ELSE {"established", "decrypted"} \cup (IF f.kind = "session" THEN FspStats(f) ELSE {})

\* iter_frames walks a datagram's frames back to back; what does not parse
\* behind them is dropped.  Mutant: one frame per datagram, as without GRO.
FirstOnly(frames) == IF frames = <<>> THEN <<>> ELSE <<Head(frames)>>
Walk(frames) == frames

\* The places where a frame increments counter x.
Counted(frames, x) == {i \in DOMAIN frames : x \in FrameStats(frames[i])}

\* What the capture held: sealed frames and unopenable ones, per layer.
OnLink(frames) == {i \in DOMAIN frames : frames[i].kind # "handshake"}
ShutOnLink(frames) == {i \in OnLink(frames) : ~LinkOpens(frames[i])}
InSession(frames) == {i \in OnLink(frames) \ ShutOnLink(frames) : Sealed(frames[i])}
ShutInSession(frames) == {i \in InSession(frames) : ~SessionOpens(frames[i])}

Wire(frames) ==
    [link |-> wire.link + Cardinality(OnLink(frames)),
     linkShut |-> wire.linkShut + Cardinality(ShutOnLink(frames)),
     session |-> wire.session + Cardinality(InSession(frames)),
     sessionShut |-> wire.sessionShut + Cardinality(ShutInSession(frames))]

-----------------------------------------------------------------------------
(* main() of fips_decrypt *)

Datagram(frames) ==
    /\ stats' = [x \in Stat |-> stats[x] + Cardinality(Counted(Walk(frames), x))]
    /\ wire' = Wire(frames)

\* mDNS parses as established FMP by chance; it is skipped by its port.
\* Mutant: it is not.
CountMdns == [stats EXCEPT !["established"] = @ + 1, !["undecryptable"] = @ + 1]
SkipMdns == stats
Mdns == stats' = SkipMdns /\ UNCHANGED wire

Init ==
    /\ lines \in SUBSET ((LinkHs \cup SessionHs) \X {"initiator", "responder"})
    /\ datagrams = 0
    /\ stats = [x \in Stat |-> 0]
    /\ exit = Running
    /\ wire = [link |-> 0, linkShut |-> 0, session |-> 0, sessionShut |-> 0]

Capture ==
    /\ datagrams < MaxDatagrams
    /\ datagrams' = datagrams + 1
    /\ \/ Mdns
       \/ \E n \in 0..MaxCoalesced : \E frames \in [1..n -> Frame] : Datagram(frames)
    /\ UNCHANGED <<lines, exit>>

-----------------------------------------------------------------------------
(* The gate of rig_loopback                                                  *)

\* decrypt_ratio: round(part / whole, 4), a tie either way as the quotient's
\* binary representation has it.
Rounded(part, whole) ==
    LET below == (10000 * part) \div whole IN
    {r \in {below, below + 1} : 2 * (r * whole - 10000 * part) \in -whole..whole}

\* The session ratio is compared as it is.
AtLeast(part, whole) == 10000 * part >= MinRatio * whole

Passes(ratio) ==
    /\ ratio >= MinRatio
    /\ stats["fsp_established"] > 0
         => AtLeast(stats["fsp_decrypted"], stats["fsp_established"])

\* With no established frame the ratio is None, and writing RESULTS.md raises.
Judge ==
    /\ \/ stats["established"] = 0 /\ exit' = 1
       \/ /\ stats["established"] > 0
          /\ \E ratio \in Rounded(stats["decrypted"], stats["established"]) :
                exit' = IF Passes(ratio) THEN 0 ELSE 1
    /\ UNCHANGED <<lines, datagrams, stats, wire>>

Next == exit = Running /\ (Capture \/ Judge)

RigSpec == Init /\ [][Next]_vars

-----------------------------------------------------------------------------
(* Properties *)

\* Exit status 0 means that of the established link frames in the capture,
\* coalesced ones included, the demanded share was opened, less at most the
\* half ten-thousandth that the report rounds up.  It is a promise about the
\* link layer.
LinkGate ==
    exit = 0 =>
        /\ wire.link > 0
        /\ 20000 * (wire.link - wire.linkShut) + wire.link >= 2 * MinRatio * wire.link

\* Unrelated mDNS traffic never fails a run, nor does the rounding: if every
\* link and session frame can be opened and none is sent in the clear, the
\* gate passes.
NoFalseAlarm ==
    exit = 1 =>
        ~(/\ wire.link > 0 /\ wire.linkShut = 0 /\ wire.sessionShut = 0
          /\ stats["fsp_unencrypted"] = 0)

\* The docstring of rig_loopback: exit is non-zero if any layer's decrypt ratio
\* drops below --min-ratio.  Of the session layer it is not so: a sealed frame
\* that no key opens is not counted as established there.
EveryLayer ==
    exit = 0 => AtLeast(wire.session - wire.sessionShut, wire.session)
=============================================================================
