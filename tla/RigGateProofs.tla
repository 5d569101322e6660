---------------------------- MODULE RigGateProofs -----------------------------
(***************************************************************************)
(* The gate of the loopback rig, for any capture and keylog: exit status 0 *)
(* means what it says, and a capture that can be opened passes.            *)
(***************************************************************************)
EXTENDS RigGate, FiniteSetTheorems, TLAPS

Datagrams == UNION {[1..n -> Frame] : n \in 0..MaxCoalesced}

RigTypeOK ==
    /\ stats \in [Stat -> Nat]
    /\ wire.link \in Nat /\ wire.linkShut \in Nat

\* The counters of main() agree with what the capture held, and every session
\* record that counts as established was opened or sent in the clear.
CountInv ==
    /\ stats["established"] = wire.link
    /\ stats["decrypted"] = wire.link - wire.linkShut
    /\ stats["fsp_established"] = stats["fsp_decrypted"] + stats["fsp_unencrypted"]

RigInv == RigTypeOK /\ CountInv

-----------------------------------------------------------------------------
(* Counting the frames of a datagram *)

\* The places of some frames are finitely many.
LEMMA PlacesFinite ==
  ASSUME NEW frames \in Datagrams, NEW S \in SUBSET DOMAIN frames
  PROVE  IsFiniteSet(S) /\ Cardinality(S) \in Nat
<1>1. PICK n \in 0..MaxCoalesced : frames \in [1..n -> Frame]
  BY DEF Datagrams
<1>2. n \in Nat /\ DOMAIN frames = 1..n
  BY <1>1, RigAssumption
<1>3. QED
  <2>1. IsFiniteSet(DOMAIN frames)
    BY <1>2, FS_Interval
  <2>2. QED
    BY <2>1, FS_Subset, FS_CardinalityType

\* A set of places that falls in two parts has the size of both.
LEMMA TwoParts ==
  ASSUME NEW frames \in Datagrams, NEW A \in SUBSET DOMAIN frames,
         NEW B \in SUBSET DOMAIN frames, A \cap B = {}
  PROVE  Cardinality(A \cup B) = Cardinality(A) + Cardinality(B)
<1>1. /\ IsFiniteSet(A) /\ Cardinality(A) \in Nat
      /\ IsFiniteSet(B) /\ Cardinality(B) \in Nat
  BY PlacesFinite
<1>2. Cardinality(A \cup B) = Cardinality(A) + Cardinality(B) - Cardinality(A \cap B)
  BY <1>1, FS_Union
<1>3. Cardinality(A \cap B) = 0
  BY FS_EmptySet
<1>4. QED
  BY <1>1, <1>2, <1>3

\* The counters of the link layer, frame by frame.
LEMMA LinkCounters ==
  ASSUME NEW f \in Frame
  PROVE  /\ "established" \in FrameStats(f) <=> f.kind # "handshake"
         /\ "decrypted" \in FrameStats(f) <=> f.kind # "handshake" /\ LinkOpens(f)
<1>1. \A x \in FspStats(f) : x # "established" /\ x # "decrypted"
  BY DEF FspStats
<1>2. QED
  BY <1>1 DEF FrameStats

\* Those of the session layer: what is established is decrypted or plain, and
\* never both.
LEMMA SessionCounters ==
  ASSUME NEW f \in Frame
  PROVE  /\ "fsp_established" \in FrameStats(f)
              <=> "fsp_decrypted" \in FrameStats(f) \/ "fsp_unencrypted" \in FrameStats(f)
         /\ ~("fsp_decrypted" \in FrameStats(f) /\ "fsp_unencrypted" \in FrameStats(f))
<1>1. /\ "fsp_established" \in FspStats(f)
            <=> "fsp_decrypted" \in FspStats(f) \/ "fsp_unencrypted" \in FspStats(f)
      /\ ~("fsp_decrypted" \in FspStats(f) /\ "fsp_unencrypted" \in FspStats(f))
  BY DEF FspStats
<1>2. QED
  BY <1>1 DEF FrameStats

\* One datagram, coalesced frames and all, moves the counters by what it held.
LEMMA DatagramCounts ==
  ASSUME NEW frames \in Datagrams
  PROVE  /\ Cardinality(Counted(frames, "established")) = Cardinality(OnLink(frames))
         /\ Cardinality(Counted(frames, "decrypted"))
              = Cardinality(OnLink(frames)) - Cardinality(ShutOnLink(frames))
         /\ Cardinality(Counted(frames, "fsp_established"))
              = Cardinality(Counted(frames, "fsp_decrypted"))
                  + Cardinality(Counted(frames, "fsp_unencrypted"))
<1>1. \A i \in DOMAIN frames : frames[i] \in Frame
  BY DEF Datagrams
<1>2. \A x : Counted(frames, x) \in SUBSET DOMAIN frames
  BY DEF Counted
<1>3. /\ OnLink(frames) \in SUBSET DOMAIN frames
      /\ ShutOnLink(frames) \in SUBSET DOMAIN frames
  BY DEF OnLink, ShutOnLink
<1>4. Counted(frames, "established") = OnLink(frames)
  BY <1>1, LinkCounters DEF Counted, OnLink
<1>5. /\ OnLink(frames) = Counted(frames, "decrypted") \cup ShutOnLink(frames)
      /\ Counted(frames, "decrypted") \cap ShutOnLink(frames) = {}
  BY <1>1, LinkCounters DEF Counted, OnLink, ShutOnLink
<1>6. /\ Counted(frames, "fsp_established")
           = Counted(frames, "fsp_decrypted") \cup Counted(frames, "fsp_unencrypted")
      /\ Counted(frames, "fsp_decrypted") \cap Counted(frames, "fsp_unencrypted") = {}
  BY <1>1, SessionCounters DEF Counted
<1>7. Cardinality(OnLink(frames))
        = Cardinality(Counted(frames, "decrypted")) + Cardinality(ShutOnLink(frames))
  BY <1>2, <1>3, <1>5, TwoParts
<1>8. Cardinality(Counted(frames, "fsp_established"))
        = Cardinality(Counted(frames, "fsp_decrypted"))
            + Cardinality(Counted(frames, "fsp_unencrypted"))
  BY <1>2, <1>6, TwoParts
<1>9. /\ Cardinality(Counted(frames, "decrypted")) \in Nat
      /\ Cardinality(ShutOnLink(frames)) \in Nat
  BY <1>2, <1>3, PlacesFinite
<1>10. QED
  BY <1>4, <1>7, <1>8, <1>9

-----------------------------------------------------------------------------
(* The invariant *)

LEMMA InitRigInv == Init => RigInv
  BY DEF Init, RigInv, RigTypeOK, CountInv, Stat

\* mDNS counts nothing; a datagram what it held.
LEMMA NextRigInv ==
  ASSUME RigInv, [Next]_vars
  PROVE  RigInv'
<1>1. CASE UNCHANGED <<stats, wire>>
  BY <1>1 DEF RigInv, RigTypeOK, CountInv
<1>2. ASSUME NEW n \in 0..MaxCoalesced, NEW frames \in [1..n -> Frame], Datagram(frames)
      PROVE  RigInv'
  <2> DEFINE more(x) == Cardinality(Counted(frames, x))
             link == Cardinality(OnLink(frames))
             shut == Cardinality(ShutOnLink(frames))
  <2>1. frames \in Datagrams
    BY DEF Datagrams
  <2>2. \A x : Counted(frames, x) \in SUBSET DOMAIN frames
    BY DEF Counted
  <2>3. /\ \A x : more(x) \in Nat
        /\ link \in Nat /\ shut \in Nat
    BY <2>1, <2>2, PlacesFinite DEF OnLink, ShutOnLink
  <2>4. /\ more("established") = link /\ more("decrypted") = link - shut
        /\ more("fsp_established") = more("fsp_decrypted") + more("fsp_unencrypted")
    BY <2>1, DatagramCounts
  <2>5. /\ stats' = [x \in Stat |-> stats[x] + more(x)]
        /\ wire'.link = wire.link + link /\ wire'.linkShut = wire.linkShut + shut
    BY <1>2 DEF Datagram, Walk, Wire
  <2> HIDE DEF more, link, shut
  <2>6. RigTypeOK'
    BY <2>3, <2>5 DEF RigInv, RigTypeOK
  <2>7. CountInv'
    <3>1. /\ {"established", "decrypted", "fsp_established", "fsp_decrypted",
              "fsp_unencrypted"} \subseteq Stat
      BY DEF Stat
    <3>2. \A x \in Stat : stats'[x] = stats[x] + more(x) /\ stats[x] \in Nat
      BY <2>5 DEF RigInv, RigTypeOK
    <3>3. /\ stats'["established"] = stats["established"] + link
          /\ stats'["decrypted"] = stats["decrypted"] + (link - shut)
          /\ stats'["fsp_established"] = stats["fsp_established"] + more("fsp_established")
          /\ stats'["fsp_decrypted"] = stats["fsp_decrypted"] + more("fsp_decrypted")
          /\ stats'["fsp_unencrypted"] = stats["fsp_unencrypted"] + more("fsp_unencrypted")
      BY <2>4, <3>1, <3>2
    <3>4. /\ stats["fsp_decrypted"] \in Nat /\ stats["fsp_unencrypted"] \in Nat
          /\ wire.link \in Nat /\ wire.linkShut \in Nat
      BY <3>1, <3>2 DEF RigInv, RigTypeOK
    <3>5. stats'["established"] = wire'.link
      BY <2>5, <3>3 DEF RigInv, CountInv
    <3>6. stats'["decrypted"] = wire'.link - wire'.linkShut
      BY <2>3, <2>5, <3>3, <3>4 DEF RigInv, CountInv
    <3>7. stats'["fsp_established"] = stats'["fsp_decrypted"] + stats'["fsp_unencrypted"]
      BY <2>3, <2>4, <3>3, <3>4, SMTT(30) DEF RigInv, CountInv
    <3>8. QED
      BY <3>5, <3>6, <3>7 DEF CountInv
  <2>8. QED
    BY <2>6, <2>7 DEF RigInv
<1>3. QED
  BY <1>1, <1>2 DEF Next, Capture, Judge, vars, Mdns, SkipMdns

\* main()'s counters agree with the capture after every datagram.
THEOREM RigInvariant == RigSpec => []RigInv
  BY InitRigInv, NextRigInv, PTL DEF RigSpec

-----------------------------------------------------------------------------
\* The report's link ratio, rounded, is what the gate compares: a share that
\* passes is short of the demanded one by half a ten-thousandth at most.
LEMMA RoundedUp ==
  ASSUME NEW part \in Nat, NEW whole \in Nat, NEW ratio \in Rounded(part, whole),
         whole > 0, ratio >= MinRatio
  PROVE  20000 * part + whole >= 2 * MinRatio * whole
<1>1. ratio \in Int /\ MinRatio \in Int
  BY RigAssumption DEF Rounded
<1>2. 2 * (ratio * whole - 10000 * part) <= whole
  BY <1>1 DEF Rounded
<1>3. ratio * whole >= MinRatio * whole
  <2>1. (ratio - MinRatio) * whole >= 0
    BY <1>1
  <2>2. (ratio - MinRatio) * whole = ratio * whole - MinRatio * whole
    BY <1>1
  <2>3. QED
    BY <1>1, <2>1, <2>2
<1>4. QED
  <2>1. /\ ratio * whole \in Int /\ MinRatio * whole \in Int
        /\ 2 * MinRatio * whole = 2 * (MinRatio * whole)
    BY <1>1
  <2>2. QED
    BY <1>2, <1>3, <2>1

\* A share of all is never rounded down.
LEMMA AllIsEnough ==
  ASSUME NEW n \in Nat, n > 0, NEW ratio \in Rounded(n, n)
  PROVE  ratio >= MinRatio
<1>1. (10000 * n) \div n = 10000
  OBVIOUS
<1>2. ratio \in {10000, 10001}
  BY <1>1 DEF Rounded
<1>3. QED
  BY <1>2, RigAssumption

\* Nor is a session share of all too small.
LEMMA AllOfSession ==
  ASSUME NEW n \in Nat
  PROVE  AtLeast(n, n)
<1>1. MinRatio \in Nat /\ 10000 - MinRatio \in Nat
  BY RigAssumption
<1>2. (10000 - MinRatio) * n >= 0
  BY <1>1
<1>3. 10000 * n = MinRatio * n + (10000 - MinRatio) * n
  BY <1>1
<1>4. QED
  BY <1>1, <1>2, <1>3 DEF AtLeast

\* What a verdict rests on.
GateInv == LinkGate /\ NoFalseAlarm

\* The verdict is given over the counters, and the counters are the capture's.
LEMMA JudgeGate ==
  ASSUME RigInv, exit = Running, Judge
  PROVE  GateInv'
<1>1. /\ wire' = wire /\ stats' = stats
      /\ stats["established"] = wire.link
      /\ stats["decrypted"] = wire.link - wire.linkShut
      /\ stats["established"] \in Nat /\ stats["decrypted"] \in Nat
      /\ stats["fsp_established"] \in Nat
  BY DEF Judge, RigInv, RigTypeOK, CountInv, Stat
<1>2. CASE wire.link = 0
  BY <1>1, <1>2 DEF Judge, GateInv, LinkGate, NoFalseAlarm
<1>3. CASE wire.link > 0
  <2>1. PICK ratio \in Rounded(stats["decrypted"], stats["established"]) :
               exit' = IF Passes(ratio) THEN 0 ELSE 1
    BY <1>1, <1>3 DEF Judge
  <2>2. LinkGate'
    <3>1. exit' = 0 => ratio >= MinRatio
      BY <2>1 DEF Passes
    <3>2. exit' = 0 => 20000 * (wire.link - wire.linkShut) + wire.link
                         >= 2 * MinRatio * wire.link
      BY <1>1, <1>3, <3>1, RoundedUp
    <3>3. QED
      BY <1>1, <1>3, <3>2 DEF LinkGate
  <2>3. NoFalseAlarm'
    <3> SUFFICES ASSUME wire.linkShut = 0, stats["fsp_unencrypted"] = 0
                 PROVE  exit' = 0
      BY <1>1 DEF NoFalseAlarm
    <3>1. stats["decrypted"] = stats["established"]
      BY <1>1
    <3>2. ratio >= MinRatio
      BY <1>1, <1>3, <2>1, <3>1, AllIsEnough
    <3>3. stats["fsp_decrypted"] = stats["fsp_established"]
      BY DEF RigInv, RigTypeOK, CountInv, Stat
    <3>4. QED
      BY <1>1, <2>1, <3>2, <3>3, AllOfSession DEF Passes
  <2>4. QED
    BY <2>2, <2>3 DEF GateInv
<1>4. QED
  BY <1>1, <1>2, <1>3

\* It is given once, at the end.
LEMMA NextGate ==
  ASSUME RigInv, GateInv, [Next]_vars
  PROVE  GateInv'
<1>1. CASE Capture /\ exit = Running
  BY <1>1 DEF Capture, GateInv, LinkGate, NoFalseAlarm, Running
<1>2. CASE UNCHANGED vars
  BY <1>2 DEF vars, GateInv, LinkGate, NoFalseAlarm
<1>3. QED
  BY <1>1, <1>2, JudgeGate DEF Next

\* Both claims about the exit status hold of every run of the rig.
THEOREM GateInvariant == RigSpec => []GateInv
<1>1. Init => GateInv
  BY DEF Init, GateInv, LinkGate, NoFalseAlarm, Running
<1>2. QED
  BY <1>1, RigInvariant, NextGate, PTL DEF RigSpec

\* Exit status 0 means that the demanded share of the established link frames
\* of the capture was opened, coalesced ones included, up to the rounding of
\* the report.
THEOREM GateIsHonest == RigSpec => []LinkGate
<1>1. GateInv => LinkGate
  BY DEF GateInv
<1>2. QED
  BY <1>1, GateInvariant, PTL

\* No mDNS and no sequence of other datagrams makes the gate fail a capture
\* whose frames can all be opened.
THEOREM NoAlarmIsFalse == RigSpec => []NoFalseAlarm
<1>1. GateInv => NoFalseAlarm
  BY DEF GateInv
<1>2. QED
  BY <1>1, GateInvariant, PTL
=============================================================================
