---------------------------- MODULE CampaignProofs ----------------------------
(***************************************************************************)
(* The campaign and the analysis of its runs, for any topology, plan,      *)
(* polls and keylogs: the campaign keeps its contract, and a run that      *)
(* passes the default assertions is one that is up and whose keys were     *)
(* collected.                                                              *)
(***************************************************************************)
EXTENDS Campaign, FiniteSetTheorems, SequenceTheorems, WellFoundedInduction, TLAPS

-----------------------------------------------------------------------------
(* Least and greatest elements *)

\* A set of naturals has a least element.
LEMMA Least ==
  ASSUME NEW T \in SUBSET Nat, T # {}
  PROVE  \E x \in T : \A y \in T : x <= y
<1>1. PICK x \in T : \A y \in T : ~(<<y, x>> \in OpToRel(<, Nat))
  BY NatLessThanWellFounded, WFMin
<1>2. \A y \in T : ~(y < x)
  BY <1>1 DEF OpToRel
<1>3. QED
  BY <1>2

\* A bounded one has a greatest.
LEMMA Greatest ==
  ASSUME NEW b \in Nat, NEW T \in SUBSET (0 .. b), T # {}
  PROVE  \E x \in T : \A y \in T : y <= x
<1> DEFINE D == {b - x : x \in T}
<1>1. D \in SUBSET Nat /\ D # {}
  <2>1. \A x \in T : b - x \in Nat
    OBVIOUS
  <2>2. QED
    BY <2>1
<1>2. PICK d \in D : \A e \in D : d <= e
  BY <1>1, Least
<1>3. PICK x \in T : d = b - x
  BY <1>2
<1>4. \A y \in T : b - x <= b - y
  BY <1>2, <1>3
<1>5. QED
  BY <1>4

-----------------------------------------------------------------------------
(* Topology and polls *)

\* The topology is finite, and names are ordered.
LEMMA Topology ==
  /\ IsFiniteSet(Node) /\ IsFiniteSet(Fips)
  /\ \A n \in Node : NameRank[n] \in Nat
  BY FS_Subset, AnalysisAssumption

\* What a sample lists is a finite set of bounded size.
LEMMA ListingsFinite ==
  /\ IsFiniteSet(Fips \X Node) /\ Cardinality(Fips \X Node) \in Nat
  /\ \A sample : /\ IsFiniteSet(Listings(sample))
                 /\ Cardinality(Listings(sample)) \in 0 .. Cardinality(Fips \X Node)
<1>1. IsFiniteSet(Fips \X Node) /\ Cardinality(Fips \X Node) \in Nat
  BY Topology, FS_Product, FS_CardinalityType
<1>2. ASSUME NEW sample
      PROVE  /\ IsFiniteSet(Listings(sample))
             /\ Cardinality(Listings(sample)) \in 0 .. Cardinality(Fips \X Node)
  <2>1. Listings(sample) \in SUBSET (Fips \X Node)
    BY DEF Listings
  <2>2. QED
    BY <1>1, <2>1, FS_Subset, FS_CardinalityType
<1>3. QED
  BY <1>1, <1>2

\* A run that polled has a first sample among those that list most.
LEMMA BestSample ==
  ASSUME NEW polls \in Seq(Sample), polls # <<>>
  PROVE  /\ Best(polls) \in 1 .. Len(polls)
         /\ \A j \in 1 .. Len(polls) :
               Cardinality(Listings(polls[j])) <= Cardinality(Listings(polls[Best(polls)]))
<1> DEFINE size(i) == Cardinality(Listings(polls[i]))
           sizes == {size(i) : i \in DOMAIN polls}
<1>1. DOMAIN polls = 1 .. Len(polls) /\ 1 \in DOMAIN polls
  OBVIOUS
<1>2. sizes \in SUBSET (0 .. Cardinality(Fips \X Node)) /\ sizes # {}
  BY <1>1, ListingsFinite
<1>3. PICK most \in sizes : \A other \in sizes : other <= most
  BY <1>2, ListingsFinite, Greatest
<1> DEFINE firsts == {i \in DOMAIN polls : size(i) = most}
<1>4. firsts \in SUBSET Nat /\ firsts # {}
  BY <1>1
<1>5. PICK i \in firsts : \A j \in firsts : i <= j
  BY <1>4, Least
<1>6. /\ i \in DOMAIN polls
      /\ \A j \in DOMAIN polls : size(j) <= size(i) /\ (size(j) = size(i) => i <= j)
  BY <1>3, <1>5
<1>7. /\ Best(polls) \in DOMAIN polls
      /\ \A j \in DOMAIN polls : size(j) <= size(Best(polls))
  BY <1>6 DEF Best
<1>8. QED
  BY <1>1, <1>7
-----------------------------------------------------------------------------
(* The operators of the analysis *)

\* A name that is a node's is the node itself.
LEMMA NameOfNode ==
  ASSUME NEW known, NEW p \in Node, Name(known, p) \in Node
  PROVE  Name(known, p) = p
  BY AnalysisAssumption DEF Name

\* What is listed and when, without tuples.
LEMMA DropMember ==
  ASSUME NEW polls \in Seq(Sample)
  PROVE  /\ \A d \in Drops(polls) :
              d[1] \in Fips /\ d[2] \in Node /\ d[3] \in 1 .. Len(polls)
         /\ \A i \in 1 .. Len(polls) - 1, n \in Fips, p \in Node :
              polls[i][n][p] # "absent" /\ polls[i + 1][n][p] = "absent"
                => <<n, p, i>> \in Drops(polls)
<1>1. \A d \in Drops(polls) : d[1] \in Fips /\ d[2] \in Node /\ d[3] \in 1 .. Len(polls)
  BY DEF Drops
<1>2. ASSUME NEW i \in 1 .. Len(polls) - 1, NEW n \in Fips, NEW p \in Node,
             polls[i][n][p] # "absent", polls[i + 1][n][p] = "absent"
      PROVE  <<n, p, i>> \in Drops(polls)
  <2>1. Len(polls) \in Nat /\ i \in 1 .. Len(polls) /\ i + 1 <= Len(polls)
    OBVIOUS
  <2>2. /\ <<n, p, i>> \in Fips \X Node \X (1 .. Len(polls))
        /\ <<n, p, i>>[1] = n /\ <<n, p, i>>[2] = p /\ <<n, p, i>>[3] = i
    BY <2>1
  <2>3. i < Len(polls)
    BY <2>1
  <2>4. p \in Peers(polls[i], n) \ Peers(polls[i + 1], n)
    BY <1>2 DEF Peers
  <2>5. QED
    BY <2>2, <2>3, <2>4 DEF Drops
<1>3. QED
  BY <1>1, <1>2

\* Every drop is an event: of the ends of a pair that report it at a time, the
\* first by name does.
LEMMA DropReported ==
  ASSUME NEW polls \in Seq(Sample), NEW known, NEW d \in Drops(polls)
  PROVE  \E e \in Disconnects(polls, known) :
            e.at = d[3] + 1 /\ e.pair = Pair(known, d[1], d[2])
<1> DEFINE same == {e \in Drops(polls) : SameEvent(e, d, known)}
           places == {NameRank[e[1]] : e \in same}
<1>1. \A e \in Drops(polls) : e[1] \in Node
  BY DropMember, AnalysisAssumption
<1>2. d \in same
  BY DEF SameEvent
<1>3. places \in SUBSET Nat /\ places # {}
  <2>1. \A e \in same : NameRank[e[1]] \in Nat
    BY <1>1, Topology, AnalysisAssumption
  <2>2. QED
    BY <1>2, <2>1
<1>4. PICK least \in places : \A other \in places : least <= other
  BY <1>3, Least
<1>5. PICK e \in same : least = NameRank[e[1]]
  BY <1>4
<1>6. \A f \in same : NameRank[e[1]] <= NameRank[f[1]]
  BY <1>4, <1>5
<1>7. ASSUME NEW f \in Drops(polls), Earlier(f, e), SameEvent(f, e, known)
      PROVE  FALSE
  <2>1. f \in same /\ e[3] = f[3]
    BY <1>5, <1>7 DEF SameEvent
  <2>2. e[3] \in Nat /\ NameRank[e[1]] \in Nat /\ NameRank[f[1]] \in Nat
    BY <1>3, <1>5, <1>7, <2>1, DropMember
  <2>3. QED
    BY <1>6, <1>7, <2>1, <2>2 DEF Earlier
<1> DEFINE event(x) == [pair |-> Pair(known, x[1], x[2]), at |-> x[3] + 1,
                        reconnected |-> Reconnected(polls, x)]
<1>8. event(e) \in Disconnects(polls, known)
  <2>1. e \in {x \in Drops(polls) :
                 ~ \E f \in Drops(polls) : Earlier(f, x) /\ SameEvent(f, x, known)}
    BY <1>5, <1>7
  <2>2. QED
    BY <2>1, Zenon DEF Disconnects
<1>9. event(e).at = d[3] + 1 /\ event(e).pair = Pair(known, d[1], d[2])
  <2>1. event(e).at = e[3] + 1 /\ event(e).pair = Pair(known, e[1], e[2])
    BY Zenon
  <2>2. e[3] = d[3] /\ Pair(known, e[1], e[2]) = Pair(known, d[1], d[2])
    BY <1>5 DEF SameEvent
  <2>3. QED
    BY <2>1, <2>2, Zenon
<1>10. QED
  BY <1>8, <1>9, Zenon

\* Where nothing is dropped, what was listed once is listed to the end.
LEMMA StaysListed ==
  ASSUME NEW polls \in Seq(Sample), Drops(polls) = {},
         NEW i \in 1 .. Len(polls), NEW n \in Fips, NEW p \in Node,
         polls[i][n][p] # "absent"
  PROVE  \A j \in i .. Len(polls) : polls[j][n][p] # "absent"
<1> DEFINE gone == {j \in i .. Len(polls) : polls[j][n][p] = "absent"}
<1>1. SUFFICES ASSUME gone # {} PROVE FALSE
  OBVIOUS
<1>2. gone \in SUBSET Nat
  OBVIOUS
<1>3. PICK k \in gone : \A j \in gone : k <= j
  BY <1>1, <1>2, Least
<1>4. /\ k - 1 \in 1 .. Len(polls) - 1
      /\ polls[k - 1][n][p] # "absent" /\ polls[k - 1 + 1][n][p] = "absent"
  <2>1. k \in i .. Len(polls) /\ polls[k][n][p] = "absent" /\ k # i
    BY <1>3
  <2>2. k - 1 \in i .. Len(polls) /\ k - 1 + 1 = k /\ k - 1 \in 1 .. Len(polls) - 1
    BY <2>1
  <2>3. k - 1 \notin gone
    BY <1>3, <2>1
  <2>4. QED
    BY <2>1, <2>2, <2>3
<1>5. <<n, p, k - 1>> \in Drops(polls)
  BY <1>4, DropMember
<1>6. QED
  BY <1>5

-----------------------------------------------------------------------------
(* The connections *)

\* Each is of a pair that the best sample lists.
LEMMA ConnectionListed ==
  ASSUME NEW polls \in Seq(Sample), polls # <<>>, NEW known,
         NEW c \in Connections(polls, known)
  PROVE  \E l \in Listings(polls[Best(polls)]) : c.pair = Pair(known, l[1], l[2])
<1> DEFINE sample == polls[Best(polls)]
           connection(l) == [pair |-> Pair(known, l[1], l[2]),
                             connected |-> sample[l[1]][l[2]] = "connected"]
<1>1. \E l \in Listings(sample) : c = connection(l)
  BY Zenon DEF Connections
<1>2. \A l : connection(l).pair = Pair(known, l[1], l[2])
  BY Zenon
<1>3. QED
  BY <1>1, <1>2, Zenon

\* Every pair the best sample lists is one: of its ends the first
\* by name decides.
LEMMA ListedConnection ==
  ASSUME NEW polls \in Seq(Sample), polls # <<>>, NEW known,
         NEW l \in Listings(polls[Best(polls)])
  PROVE  \E c \in Connections(polls, known) : c.pair = Pair(known, l[1], l[2])
<1> DEFINE sample == polls[Best(polls)]
           same == {m \in Listings(sample) : Pair(known, m[1], m[2]) = Pair(known, l[1], l[2])}
           places == {NameRank[m[1]] : m \in same}
<1>1. \A m \in same : NameRank[m[1]] \in Nat
  BY Topology, AnalysisAssumption DEF Listings
<1>2. places \in SUBSET Nat /\ places # {}
  BY <1>1
<1>3. PICK least \in places : \A other \in places : least <= other
  BY <1>2, Least
<1>4. PICK k \in same : least = NameRank[k[1]]
  BY <1>3
<1>5. k \in {x \in Listings(sample) : \A m \in Listings(sample) :
                Pair(known, m[1], m[2]) = Pair(known, x[1], x[2])
                    => NameRank[x[1]] <= NameRank[m[1]]}
  BY <1>3, <1>4
<1> DEFINE c == [pair |-> Pair(known, k[1], k[2]),
                 connected |-> sample[k[1]][k[2]] = "connected"]
<1>6. c \in Connections(polls, known)
  BY <1>5, Zenon DEF Connections
<1>7. c.pair = Pair(known, l[1], l[2])
  BY <1>4, Zenon
<1>8. QED
  BY <1>6, <1>7, Zenon
-----------------------------------------------------------------------------
(* What passing the default assertions says of the polls *)

\* The default assertions, one by one.
LEMMA DefaultPass ==
  ASSUME NEW figures, NEW keylog, NEW known, NEW polls \in Seq(Sample),
         Verdict({}, figures, keylog, polls, known) = "PASS"
  PROVE  /\ polls # <<>> /\ Drops(polls) = {}
         /\ Links \subseteq ConnectedPairs(polls, known)
         /\ \A c \in Connections(polls, known) : Covered(c.pair, keylog)
<1>1. /\ Connections(polls, known) # {}
      /\ ConnectivityPasses({}, polls, known)
      /\ DisconnectsPass({}, polls, known)
      /\ KeysPass({}, keylog, polls, known)
  BY Zenon DEF Verdict
<1>2. polls # <<>>
  BY <1>1, Zenon DEF Connections
<1>3. Links \subseteq ConnectedPairs(polls, known)
  BY <1>1, Zenon DEF ConnectivityPasses, Connectivity
<1>4. Drops(polls) = {}
  <2>1. Disconnects(polls, known) = {}
    BY <1>1, Zenon DEF DisconnectsPass
  <2>2. SUFFICES ASSUME NEW d \in Drops(polls) PROVE FALSE
    OBVIOUS
  <2>3. QED
    BY <2>1, DropReported, Zenon
<1>5. \A c \in Connections(polls, known) : Covered(c.pair, keylog)
  BY <1>1, Zenon DEF KeysPass
<1>6. QED
  BY <1>2, <1>3, <1>4, <1>5

\* A listing of the sample that lists most is not dropped: the pairs it names
\* are listed in the last one.
LEMMA PassUp ==
  ASSUME NEW figures, NEW keylog, NEW known, NEW polls \in Seq(Sample),
         Verdict({}, figures, keylog, polls, known) = "PASS",
         NEW link \in Links
  PROVE  \E n, p \in link :
            n \in Fips /\ n # p /\ polls[Len(polls)][n][p] # "absent"
<1>1. /\ polls # <<>> /\ Drops(polls) = {}
      /\ link \in ConnectedPairs(polls, known)
  BY DefaultPass
<1>2. PICK c \in Connections(polls, known) : link = c.pair
  BY <1>1, Zenon DEF ConnectedPairs
<1>3. PICK l \in Listings(polls[Best(polls)]) : c.pair = Pair(known, l[1], l[2])
  BY <1>1, ConnectionListed
<1> DEFINE n == l[1]
           p == l[2]
<1>4. n \in Fips /\ p \in Node /\ polls[Best(polls)][n][p] # "absent"
  BY <1>3 DEF Listings, Peers
<1>5. Best(polls) \in 1 .. Len(polls) /\ Len(polls) \in Best(polls) .. Len(polls)
  BY <1>1, BestSample
<1>6. polls[Len(polls)][n][p] # "absent"
  BY <1>1, <1>4, <1>5, StaysListed
<1>7. link = {n, Name(known, p)} /\ link \subseteq Node
  BY <1>2, <1>3, AnalysisAssumption DEF Pair
<1>8. Name(known, p) = p
  BY <1>4, <1>7, NameOfNode
<1>9. n # p
  <2>1. polls[Best(polls)] \in Sample
    BY <1>5
  <2>2. QED
    BY <1>4, <2>1 DEF Sample
<1>10. QED
  BY <1>4, <1>6, <1>7, <1>8, <1>9

\* Nothing is dropped, so the last sample lists all that any did, and the one
\* that lists most lists just as much: its pairs are all pairs.
LEMMA AllInBest ==
  ASSUME NEW polls \in Seq(Sample), Drops(polls) = {},
         NEW i \in 1 .. Len(polls), NEW n \in Fips, NEW p \in Node,
         polls[i][n][p] # "absent"
  PROVE  <<n, p>> \in Listings(polls[Best(polls)])
<1> DEFINE last == Listings(polls[Len(polls)])
           best == Listings(polls[Best(polls)])
<1>1. Best(polls) \in 1 .. Len(polls) /\ Cardinality(last) <= Cardinality(best)
  <2>1. polls # <<>> /\ Len(polls) \in 1 .. Len(polls)
    OBVIOUS
  <2>2. QED
    BY <2>1, BestSample
<1>2. best \in SUBSET last
  <2>1. ASSUME NEW l \in best
        PROVE  l \in last
    <3>1. /\ l \in Fips \X Node /\ l[1] \in Fips /\ l[2] \in Node
          /\ polls[Best(polls)][l[1]][l[2]] # "absent"
      BY DEF Listings, Peers
    <3>2. polls[Len(polls)][l[1]][l[2]] # "absent"
      BY <1>1, <3>1, StaysListed
    <3>3. QED
      BY <3>1, <3>2 DEF Listings, Peers
  <2>2. QED
    BY <2>1
<1>3. best = last
  <2>1. IsFiniteSet(last) /\ Cardinality(last) \in Nat /\ Cardinality(best) \in Nat
    BY ListingsFinite
  <2>2. Cardinality(best) <= Cardinality(last)
    BY <1>2, <2>1, FS_Subset
  <2>3. Cardinality(last) = Cardinality(best)
    BY <1>1, <2>1, <2>2
  <2>4. QED
    BY <1>2, <2>1, <2>3, FS_Subset
<1>4. polls[Len(polls)][n][p] # "absent"
  BY StaysListed
<1>5. <<n, p>> \in last
  BY <1>4 DEF Listings, Peers
<1>6. QED
  BY <1>3, <1>5

\* A covered pair has a key in the keylog of one of its ends.
LEMMA CoveredHasKey ==
  ASSUME NEW keylog, DOMAIN keylog \subseteq Node, NEW pair, Covered(pair, keylog)
  PROVE  \E end \in pair \cap DOMAIN keylog : keylog[end] # {}
<1> DEFINE ends == pair \cap DOMAIN keylog
           ranks == {NameRank[n] : n \in ends}
<1>1. ends # {} /\ keylog[FirstOf(ends)] # {}
  BY DEF Covered
<1>2. ranks \in SUBSET Nat /\ ranks # {}
  <2>1. \A n \in ends : NameRank[n] \in Nat
    BY Topology
  <2>2. QED
    BY <1>1, <2>1
<1>3. PICK least \in ranks : \A other \in ranks : least <= other
  BY <1>2, Least
<1>4. \E n \in ends : \A m \in ends : NameRank[n] <= NameRank[m]
  BY <1>3
<1>5. FirstOf(ends) \in ends
  BY <1>4 DEF FirstOf
<1>6. QED
  BY <1>1, <1>5

\* Every pair that any sample ever listed has an end with a key.
LEMMA PassKeys ==
  ASSUME NEW figures, NEW keylog, NEW known, NEW polls \in Seq(Sample),
         DOMAIN keylog \subseteq Node,
         Verdict({}, figures, keylog, polls, known) = "PASS"
  PROVE  \A i \in 1 .. Len(polls), n \in Fips, p \in Node : polls[i][n][p] # "absent" =>
            \E end \in {n, p} \cap DOMAIN keylog : keylog[end] # {}
<1>1. /\ polls # <<>> /\ Drops(polls) = {}
      /\ \A c \in Connections(polls, known) : Covered(c.pair, keylog)
  BY DefaultPass
<1>2. SUFFICES ASSUME NEW i \in 1 .. Len(polls), NEW n \in Fips, NEW p \in Node,
                      polls[i][n][p] # "absent"
               PROVE  \E end \in {n, p} \cap DOMAIN keylog : keylog[end] # {}
  OBVIOUS
<1>3. <<n, p>> \in Listings(polls[Best(polls)])
  BY <1>1, <1>2, AllInBest
<1>4. PICK c \in Connections(polls, known) : c.pair = Pair(known, n, p)
  <2>1. <<n, p>>[1] = n /\ <<n, p>>[2] = p
    OBVIOUS
  <2>2. QED
    BY <1>1, <1>3, <2>1, ListedConnection
<1>5. PICK end \in c.pair \cap DOMAIN keylog : keylog[end] # {}
  BY <1>1, CoveredHasKey
<1>6. end \in {n, p}
  BY <1>4, <1>5, NameOfNode DEF Pair
<1>7. QED
  BY <1>5, <1>6

-----------------------------------------------------------------------------
(* The invariant of the campaign *)

Run == {"run", "analysed", "judge"}
Ends == {"success", "failure", "aborted"}
ReturnCode == {0, 1}
Settled == [verdict : Contract!Outcome, rc : ReturnCode]
Directory == [at : Nat, name : Scenario, verdict : Contract!Outcome \cup {"none"},
              rc : ReturnCode]

CampaignTypeOK ==
    /\ pc \in {"next"} \cup Run \cup Ends
    /\ todo \in Seq(Scenario)
    /\ dirs \in Seq(Directory)
    /\ series \in Seq(Views)
    /\ results \in Seq(Settled)

\* The last directory is that of the run in progress, which has a verdict from
\* its analysis on and returns 1 without one.
RunInv ==
    pc \in Run =>
        /\ todo # <<>> /\ dirs # <<>> /\ Last.name = Head(todo)
        /\ pc = "run" => Last.verdict = "none"
        /\ pc = "analysed" => Last.verdict # "none"
        /\ pc = "judge" /\ Last.verdict = "none" => Last.rc = 1

\* Directories are in the order of their seconds.  Of those of one second only
\* the last can have a verdict that counts, since a poll takes a second: the
\* other runs made no poll.
OrderInv ==
    /\ dry = TRUE \/ pc \in {"next", "judge"} => series = <<>>
    /\ series # <<>> => tick = TRUE
    /\ dry = TRUE => \A i \in DOMAIN dirs : dirs[i].verdict \in {"none", "INSUFFICIENT_DATA"}
    /\ \A i \in DOMAIN dirs :
          /\ dirs[i].at <= Last.at
          /\ dirs[i].verdict # "none" /\ dry = FALSE =>
                IF i = Len(dirs) THEN tick = TRUE ELSE dirs[i].at < Last.at

\* What the analysis of the last run had to go by.
ReportInv ==
    pc = "analysed" =>
        /\ Last.verdict = Verdict(report.checks, report.figures, report.keylog, series,
                                   report.known)
        /\ report.keylog \in Keylogs

CampaignInv ==
    /\ dry \in BOOLEAN /\ tick \in BOOLEAN
    /\ CampaignTypeOK /\ RunInv /\ OrderInv /\ ReportInv

-----------------------------------------------------------------------------
(* The directories, updated *)

\* Analyse changes one field of the last directory.
LEMMA SetVerdict ==
  ASSUME NEW ds \in Seq(Directory), ds # <<>>, NEW v \in Contract!Outcome, NEW es,
         es = [ds EXCEPT ![Len(ds)].verdict = v]
  PROVE  /\ es \in Seq(Directory) /\ Len(es) = Len(ds) /\ DOMAIN es = DOMAIN ds
         /\ \A i \in DOMAIN ds : i # Len(ds) => es[i] = ds[i]
         /\ es[Len(ds)].verdict = v
         /\ \A i \in DOMAIN ds : /\ es[i].at = ds[i].at /\ es[i].name = ds[i].name
                                 /\ es[i].rc = ds[i].rc
<1> DEFINE n == Len(ds)
           d == [ds[n] EXCEPT !.verdict = v]
<1>1. n \in 1 .. Len(ds) /\ ds[n] \in Directory
  OBVIOUS
<1>2. /\ d \in Directory /\ d.verdict = v
      /\ d.at = ds[n].at /\ d.name = ds[n].name /\ d.rc = ds[n].rc
  BY <1>1 DEF Directory
<1>3. es = [ds EXCEPT ![n] = d]
  OBVIOUS
<1>4. /\ es \in Seq(Directory) /\ Len(es) = Len(ds)
      /\ \A i \in 1 .. Len(ds) : es[i] = IF i = n THEN d ELSE ds[i]
  BY <1>1, <1>2, <1>3, ExceptSeq
<1>5. QED
  BY <1>1, <1>2, <1>4

\* A verdict is one of four, and without a poll there is too little data.
LEMMA VerdictType ==
  ASSUME NEW checks, NEW figures, NEW keylog, NEW polls, NEW known
  PROVE  /\ Verdict(checks, figures, keylog, polls, known) \in Contract!Outcome
         /\ polls = <<>> =>
               Verdict(checks, figures, keylog, polls, known) = "INSUFFICIENT_DATA"
  BY Zenon DEF Verdict, Connections, Contract!Outcome

-----------------------------------------------------------------------------
(* Every step keeps the invariant *)

\* At the start there is no directory.
LEMMA InitCampaignInv == Init => CampaignInv
<1> SUFFICES ASSUME Init PROVE CampaignInv
  OBVIOUS
<1>1. dry \in BOOLEAN /\ tick \in BOOLEAN
  BY Zenon DEF Init
<1>2. CampaignTypeOK
  BY CampaignAssumption DEF Init, CampaignTypeOK
<1>3. RunInv /\ OrderInv /\ ReportInv
  BY DEF Init, RunInv, OrderInv, ReportInv, Run
<1>4. QED
  BY <1>1, <1>2, <1>3 DEF CampaignInv

\* Missing and Abort, and the last step, touch no directory and start no run.
LEMMA IdleInv ==
  ASSUME CampaignInv, UNCHANGED <<dry, tick, dirs, series>>,
         pc' \in Ends \/ (pc' = "next" /\ pc \in {"next", "judge"}),
         todo' = todo \/ (todo # <<>> /\ todo' = Tail(todo)),
         results' \in Seq(Settled)
  PROVE  CampaignInv'
<1>1. dry' \in BOOLEAN /\ tick' \in BOOLEAN
  BY Zenon DEF CampaignInv
<1>2. CampaignTypeOK'
  <2>1. todo' \in Seq(Scenario)
    BY HeadTailProperties DEF CampaignInv, CampaignTypeOK
  <2>2. QED
    BY <2>1 DEF CampaignInv, CampaignTypeOK
<1>3. RunInv' /\ ReportInv'
  BY DEF RunInv, ReportInv, Run, Ends
<1>4. OrderInv'
  <2>1. pc' \in {"next", "judge"} => pc \in {"next", "judge"}
    BY DEF Ends
  <2>2. QED
    BY <2>1, Zenon DEF CampaignInv, OrderInv, Last
<1>5. QED
  BY <1>1, <1>2, <1>3, <1>4 DEF CampaignInv

\* A new directory has no verdict, and is of a later second than any that has
\* one: its run has polled.
LEMMA StartInv ==
  ASSUME CampaignInv, Start
  PROVE  CampaignInv'
<1> DEFINE new == [at |-> Second, name |-> Head(todo), verdict |-> "none", rc |-> 0]
<1>1. /\ pc = "next" /\ pc' = "run" /\ todo # <<>> /\ tick' = FALSE
      /\ UNCHANGED <<todo, dry, series, report, results>>
      /\ dirs' = Append(dirs, new)
  BY DEF Start
<1>2. todo \in Seq(Scenario) /\ Head(todo) \in Scenario /\ dirs \in Seq(Directory)
  BY <1>1 DEF CampaignInv, CampaignTypeOK
<1>3. /\ Second \in Nat
      /\ \A i \in DOMAIN dirs :
            /\ dirs[i].at <= Second
            /\ dirs[i].verdict # "none" /\ dry = FALSE => dirs[i].at < Second
  <2>1. CASE dirs = <<>>
    BY <2>1 DEF Second
  <2>2. CASE dirs # <<>>
    <3>1. /\ \A i \in DOMAIN dirs : dirs[i] \in Directory
          /\ Len(dirs) \in DOMAIN dirs
      BY <1>2, <2>2
    <3>2. Second = Last.at + 1 \/ (Second = Last.at /\ tick = FALSE)
      <4>1. tick \in BOOLEAN
        BY Zenon DEF CampaignInv
      <4>2. QED
        BY <2>2, <4>1, Zenon DEF Second
    <3>3. Last.at \in Nat /\ \A i \in DOMAIN dirs : dirs[i].at \in Nat
      BY <3>1 DEF Last, Directory
    <3>4. QED
      BY <3>1, <3>2, <3>3 DEF CampaignInv, OrderInv, Last
  <2>3. QED
    BY <2>1, <2>2
<1>4. new \in Directory
  BY <1>2, <1>3 DEF Directory, ReturnCode
<1>5. /\ dirs' \in Seq(Directory) /\ dirs' # <<>> /\ Len(dirs') = Len(dirs) + 1
      /\ DOMAIN dirs' = 1 .. Len(dirs) + 1 /\ Len(dirs) \in Nat
      /\ \A i \in DOMAIN dirs : dirs'[i] = dirs[i]
      /\ Last' = new
  BY <1>1, <1>2, <1>4, AppendProperties DEF Last
<1>6. dry' \in BOOLEAN /\ tick' \in BOOLEAN
  BY <1>1, Zenon DEF CampaignInv
<1>7. CampaignTypeOK'
  BY <1>1, <1>2, <1>5 DEF CampaignInv, CampaignTypeOK, Run
<1>8. RunInv' /\ ReportInv'
  BY <1>1, <1>5 DEF RunInv, ReportInv
<1>9. OrderInv'
  <2>1. series = <<>>
    BY <1>1 DEF CampaignInv, OrderInv
  <2>2. \A i \in DOMAIN dirs' :
          /\ dirs'[i].at <= Last'.at
          /\ dirs'[i].verdict # "none" /\ dry' = FALSE =>
                IF i = Len(dirs') THEN tick' = TRUE ELSE dirs'[i].at < Last'.at
    <3>1. ASSUME NEW i \in DOMAIN dirs', i # Len(dirs')
          PROVE  /\ i \in DOMAIN dirs /\ dirs'[i] = dirs[i]
                 /\ dirs[i].at <= Second
                 /\ dirs[i].verdict # "none" /\ dry = FALSE => dirs[i].at < Second
      BY <1>2, <1>3, <1>5, <3>1
    <3>2. dirs'[Len(dirs')] = new /\ Last' = new /\ new.at = Second /\ new.verdict = "none"
      BY <1>5 DEF Last
    <3>3. QED
      BY <1>1, <1>3, <3>1, <3>2
  <2>3. dry = TRUE => \A i \in DOMAIN dirs' : dirs'[i].verdict \in {"none", "INSUFFICIENT_DATA"}
    <3>1. ASSUME NEW i \in DOMAIN dirs', i # Len(dirs')
          PROVE  i \in DOMAIN dirs /\ dirs'[i] = dirs[i]
      BY <1>2, <1>5, <3>1
    <3>2. dirs'[Len(dirs')] = new /\ new.verdict = "none"
      BY <1>5 DEF Last
    <3>3. QED
      BY <3>1, <3>2 DEF CampaignInv, OrderInv
  <2>4. QED
    BY <1>1, <2>1, <2>2, <2>3 DEF OrderInv
<1>10. QED
  BY <1>6, <1>7, <1>8, <1>9 DEF CampaignInv

\* Time passes, by itself or in a poll.
LEMMA TickInv ==
  ASSUME CampaignInv, UNCHANGED <<todo, dry, pc, dirs, results>>, pc \in {"next", "run"},
         tick' = TRUE, series' \in Seq(Views), dry = TRUE \/ pc = "next" => series' = <<>>
  PROVE  CampaignInv'
<1>1. dry' \in BOOLEAN /\ tick' \in BOOLEAN
  BY Zenon DEF CampaignInv
<1>2. CampaignTypeOK'
  BY DEF CampaignInv, CampaignTypeOK
<1>3. RunInv' /\ ReportInv'
  BY DEF CampaignInv, RunInv, ReportInv, Last
<1>4. OrderInv'
  <2>1. dry' = TRUE \/ pc' \in {"next", "judge"} => series' = <<>>
    <3>1. dry' = TRUE => dry = TRUE
      BY Zenon
    <3>2. pc' \in {"next", "judge"} => pc = "next"
      OBVIOUS
    <3>3. QED
      BY <3>1, <3>2, Zenon
  <2>2. /\ series' # <<>> => tick' = TRUE
        /\ dry' = TRUE => \A i \in DOMAIN dirs' :
                             dirs'[i].verdict \in {"none", "INSUFFICIENT_DATA"}
        /\ \A i \in DOMAIN dirs' :
              /\ dirs'[i].at <= Last'.at
              /\ dirs'[i].verdict # "none" /\ dry' = FALSE =>
                    IF i = Len(dirs') THEN tick' = TRUE ELSE dirs'[i].at < Last'.at
    BY Zenon DEF CampaignInv, OrderInv, Last
  <2>3. QED
    BY <2>1, <2>2, Zenon DEF OrderInv
<1>5. QED
  BY <1>1, <1>2, <1>3, <1>4 DEF CampaignInv

\* A dry run makes no poll.
LEMMA PollInv ==
  ASSUME CampaignInv, TimePasses \/ Poll
  PROVE  CampaignInv'
<1>1. series \in Seq(Views)
  BY DEF CampaignInv, CampaignTypeOK
<1>2. CASE TimePasses
  <2>1. dry = TRUE \/ pc = "next" => series = <<>>
    BY Zenon DEF CampaignInv, OrderInv
  <2>2. QED
    BY <1>1, <1>2, <2>1, TickInv DEF TimePasses
<1>3. CASE Poll
  <2>1. PICK s \in Views : series' = Append(series, s)
    BY <1>3 DEF Poll
  <2>2. series' \in Seq(Views)
    BY <1>1, <2>1, AppendProperties
  <2>3. dry # TRUE
    BY <1>3, Zenon DEF Poll
  <2>4. QED
    BY <1>3, <2>2, <2>3, TickInv DEF Poll
<1>4. QED
  BY <1>2, <1>3

\* The verdict is INSUFFICIENT_DATA without a poll, and with one a second has
\* passed.
LEMMA AnalyseInv ==
  ASSUME CampaignInv, Analyse
  PROVE  CampaignInv'
<1>1. PICK checks \in Checks, figures \in BOOLEAN, keylog \in Keylogs, known \in Knowns :
        /\ report' = [checks |-> checks, figures |-> figures, keylog |-> keylog, known |-> known]
        /\ dirs' = [dirs EXCEPT ![Len(dirs)].verdict =
                      Verdict(checks, figures, keylog, series, known)]
  BY DEF Analyse
<1> DEFINE v == Verdict(checks, figures, keylog, series, known)
<1>2. pc = "run" /\ pc' = "analysed" /\ UNCHANGED <<todo, dry, tick, series, results>>
  BY DEF Analyse
<1>3. dirs \in Seq(Directory) /\ dirs # <<>> /\ v \in Contract!Outcome
  BY <1>2, VerdictType DEF CampaignInv, CampaignTypeOK, RunInv, Run
<1>4. /\ dirs' \in Seq(Directory) /\ Len(dirs') = Len(dirs) /\ DOMAIN dirs' = DOMAIN dirs
      /\ \A i \in DOMAIN dirs : i # Len(dirs) => dirs'[i] = dirs[i]
      /\ dirs'[Len(dirs)].verdict = v
      /\ \A i \in DOMAIN dirs : dirs'[i].at = dirs[i].at /\ dirs'[i].name = dirs[i].name
  BY <1>1, <1>3, SetVerdict
<1>5. Len(dirs) \in DOMAIN dirs /\ dirs' # <<>>
  BY <1>3, <1>4
<1>6. dry' \in BOOLEAN /\ tick' \in BOOLEAN
  BY <1>2, Zenon DEF CampaignInv
<1>7. CampaignTypeOK'
  BY <1>2, <1>4 DEF CampaignInv, CampaignTypeOK, Run
<1>8. RunInv'
  <2>1. v # "none"
    BY <1>3 DEF Contract!Outcome
  <2>2. Last'.name = Last.name /\ Last'.verdict = v
    BY <1>4, <1>5 DEF Last
  <2>3. QED
    BY <1>2, <1>5, <2>1, <2>2 DEF CampaignInv, RunInv, Run
<1>9. ReportInv'
  <2>1. /\ report'.checks = checks /\ report'.figures = figures
        /\ report'.keylog = keylog /\ report'.known = known
    BY <1>1, Zenon
  <2>2. Last'.verdict = v
    BY <1>4, <1>5 DEF Last
  <2>3. QED
    BY <1>2, <2>1, <2>2, Zenon DEF ReportInv
<1>10. OrderInv'
  <2>1. dry' = TRUE \/ pc' \in {"next", "judge"} => series' = <<>>
    <3>1. dry' = TRUE => series = <<>>
      BY <1>2, Zenon DEF CampaignInv, OrderInv
    <3>2. QED
      BY <1>2, <3>1
  <2>2. series' # <<>> => tick' = TRUE
    BY <1>2, Zenon DEF CampaignInv, OrderInv
  <2>3. dry' = TRUE =>
          \A i \in DOMAIN dirs' : dirs'[i].verdict \in {"none", "INSUFFICIENT_DATA"}
    <3> SUFFICES ASSUME dry' = TRUE, NEW i \in DOMAIN dirs'
                 PROVE  dirs'[i].verdict \in {"none", "INSUFFICIENT_DATA"}
      OBVIOUS
    <3>1. dry = TRUE
      BY <1>2, Zenon
    <3>2. v = "INSUFFICIENT_DATA"
      BY <3>1, VerdictType DEF CampaignInv, OrderInv
    <3>3. dirs[i].verdict \in {"none", "INSUFFICIENT_DATA"}
      BY <1>4, <3>1 DEF CampaignInv, OrderInv
    <3>4. QED
      BY <1>4, <3>2, <3>3
  <2>4. ASSUME NEW i \in DOMAIN dirs'
        PROVE  /\ dirs'[i].at <= Last'.at
               /\ dirs'[i].verdict # "none" /\ dry' = FALSE =>
                     IF i = Len(dirs') THEN tick' = TRUE ELSE dirs'[i].at < Last'.at
    <3>1. Last'.at = Last.at /\ i \in DOMAIN dirs /\ dirs'[i].at = dirs[i].at
      BY <1>4, <1>5 DEF Last
    <3>2. dirs'[i].at <= Last'.at
      BY <3>1 DEF CampaignInv, OrderInv
    <3>3. CASE i = Len(dirs')
      <4>1. dry' = FALSE => tick' = TRUE
        <5>1. dry' = FALSE => series # <<>>
          <6>1. dry \/ series # <<>>
            BY DEF Analyse
          <6>2. dry' = FALSE => ~dry
            BY <1>2, Zenon
          <6>3. QED
            BY <6>1, <6>2, Zenon
        <5>2. QED
          BY <1>2, <2>2, <5>1, Zenon
      <4>2. QED
        BY <3>2, <3>3, <4>1, Zenon
    <3>4. CASE i # Len(dirs')
      <4>1. dirs'[i] = dirs[i] /\ i # Len(dirs)
        BY <1>4, <3>1, <3>4
      <4>2. dirs[i].verdict # "none" /\ dry = FALSE => dirs[i].at < Last.at
        BY <3>1, <4>1, Zenon DEF CampaignInv, OrderInv
      <4>3. QED
        BY <1>2, <3>1, <3>2, <3>4, <4>1, <4>2, Zenon
    <3>5. QED
      BY <3>3, <3>4
  <2>5. QED
    BY <2>1, <2>2, <2>3, <2>4, Zenon DEF OrderInv
<1>11. QED
  BY <1>6, <1>7, <1>8, <1>9, <1>10 DEF CampaignInv

\* Return and Fallback leave every verdict as it is; a run without one
\* returns 1.
LEMMA ReturnInv ==
  ASSUME CampaignInv, Return \/ Fallback
  PROVE  CampaignInv'
<1>1. /\ pc \in {"run", "analysed"} /\ pc' = "judge" /\ series' = <<>>
      /\ UNCHANGED <<todo, dry, tick, results>>
  BY DEF Return, Fallback
<1>2. PICK r \in {0, 1} : /\ dirs' = [dirs EXCEPT ![Len(dirs)].rc = r]
                          /\ pc = "run" => r = 1
  <2>1. CASE Return
    <3>1. PICK r \in {0, 1} : dirs' = [dirs EXCEPT ![Len(dirs)].rc = r]
      BY <2>1 DEF Return
    <3>2. QED
      BY <2>1, <3>1, Zenon DEF Return
  <2>2. CASE Fallback
    BY <2>2, Zenon DEF Fallback
  <2>3. QED
    BY <2>1, <2>2
<1>3. dirs \in Seq(Directory) /\ dirs # <<>>
  BY <1>1 DEF CampaignInv, CampaignTypeOK, RunInv, Run
<1>4. /\ dirs' \in Seq(Directory) /\ Len(dirs') = Len(dirs) /\ DOMAIN dirs' = DOMAIN dirs
      /\ dirs'[Len(dirs)].rc = r
      /\ \A i \in DOMAIN dirs : /\ dirs'[i].at = dirs[i].at /\ dirs'[i].name = dirs[i].name
                                /\ dirs'[i].verdict = dirs[i].verdict
  <2> DEFINE n == Len(dirs)
             d == [dirs[n] EXCEPT !.rc = r]
  <2>1. n \in 1 .. Len(dirs) /\ dirs[n] \in Directory
    BY <1>3
  <2>2. /\ d \in Directory /\ d.rc = r
        /\ d.at = dirs[n].at /\ d.name = dirs[n].name /\ d.verdict = dirs[n].verdict
    BY <2>1 DEF Directory, ReturnCode
  <2>3. dirs' = [dirs EXCEPT ![n] = d]
    BY <1>2
  <2>4. /\ dirs' \in Seq(Directory) /\ Len(dirs') = Len(dirs)
        /\ \A i \in 1 .. Len(dirs) : dirs'[i] = IF i = n THEN d ELSE dirs[i]
    BY <1>3, <2>1, <2>2, <2>3, ExceptSeq
  <2> HIDE DEF d
  <2>5. DOMAIN dirs = 1 .. Len(dirs) /\ DOMAIN dirs' = 1 .. Len(dirs)
    BY <1>3, <2>4
  <2>6. dirs'[Len(dirs)].rc = r
    BY <2>1, <2>2, <2>4
  <2>7. ASSUME NEW i \in DOMAIN dirs
        PROVE  /\ dirs'[i].at = dirs[i].at /\ dirs'[i].name = dirs[i].name
               /\ dirs'[i].verdict = dirs[i].verdict
    BY <2>2, <2>4, <2>5
  <2>8. QED
    BY <2>4, <2>5, <2>6, <2>7
<1>5. /\ Len(dirs) \in DOMAIN dirs /\ dirs' # <<>> /\ Last'.at = Last.at
      /\ Last'.name = Last.name /\ Last'.verdict = Last.verdict /\ Last'.rc = r
  BY <1>3, <1>4 DEF Last
<1>6. dry' \in BOOLEAN /\ tick' \in BOOLEAN
  BY <1>1, Zenon DEF CampaignInv
<1>7. CampaignTypeOK'
  BY <1>1, <1>4 DEF CampaignInv, CampaignTypeOK, Run
<1>8. RunInv'
  <2>1. /\ todo # <<>> /\ Last.name = Head(todo)
        /\ Last.verdict = "none" => pc = "run"
    BY <1>1 DEF CampaignInv, RunInv, Run
  <2>2. /\ todo' # <<>> /\ Last'.name = Head(todo')
        /\ Last'.verdict = "none" => Last'.rc = 1
    BY <1>1, <1>2, <1>5, <2>1
  <2>3. QED
    BY <1>1, <1>5, <2>2 DEF RunInv
<1>9. ReportInv'
  BY <1>1 DEF ReportInv
<1>10. OrderInv'
  <2>1. dry' = TRUE => \A i \in DOMAIN dirs' :
                         dirs'[i].verdict \in {"none", "INSUFFICIENT_DATA"}
    <3>1. dry = TRUE => \A i \in DOMAIN dirs :
                         dirs[i].verdict \in {"none", "INSUFFICIENT_DATA"}
      BY Zenon DEF CampaignInv, OrderInv
    <3>2. QED
      BY <1>1, <1>4, <3>1, Zenon
  <2>2. ASSUME NEW i \in DOMAIN dirs'
        PROVE  /\ dirs'[i].at <= Last'.at
               /\ dirs'[i].verdict # "none" /\ dry' = FALSE =>
                     IF i = Len(dirs') THEN tick' = TRUE ELSE dirs'[i].at < Last'.at
    <3>1. /\ i \in DOMAIN dirs /\ Len(dirs') = Len(dirs) /\ Last'.at = Last.at
          /\ dirs'[i].at = dirs[i].at /\ dirs'[i].verdict = dirs[i].verdict
      BY <1>4, <1>5
    <3>2. /\ dirs[i].at <= Last.at
          /\ dirs[i].verdict # "none" /\ dry = FALSE =>
                IF i = Len(dirs) THEN tick = TRUE ELSE dirs[i].at < Last.at
      BY <3>1, Zenon DEF CampaignInv, OrderInv
    <3>3. dry' = dry /\ tick' = tick
      BY <1>1, Zenon
    <3>4. QED
      BY <3>1, <3>2, <3>3, Zenon
  <2>3. QED
    BY <1>1, <2>1, <2>2, Zenon DEF OrderInv
<1>11. QED
  BY <1>6, <1>7, <1>8, <1>9, <1>10 DEF CampaignInv

-----------------------------------------------------------------------------
(* Judging *)

\* The directory that the lookup finds for the run just ended is of the same
\* second, and is the run's own or one without a verdict that counts.
LEMMA LatestRun ==
  ASSUME CampaignInv, pc = "judge"
  PROVE  /\ LatestRunDir(Head(todo)) \in DOMAIN dirs
         /\ \/ LatestRunDir(Head(todo)) = Len(dirs)
            \/ dirs[LatestRunDir(Head(todo))].verdict = "none"
            \/ dry = TRUE
<1> DEFINE name == Head(todo)
           same == {i \in DOMAIN dirs : Matches(i, name) /\ dirs[i].at = Last.at}
           ranks == {Rank[dirs[i].name] : i \in same}
<1>1. /\ dirs \in Seq(Directory) /\ dirs # <<>> /\ Len(dirs) \in DOMAIN dirs
      /\ Last.name = name
      /\ \A i \in DOMAIN dirs : dirs[i] \in Directory
  BY DEF CampaignInv, CampaignTypeOK, RunInv, Run
<1>2. \A i \in DOMAIN dirs : dirs[i].at \in Nat /\ dirs[i].name \in Scenario
  BY <1>1 DEF Directory
<1>3. Len(dirs) \in same
  BY <1>1 DEF Last, Matches
<1>4. Len(Plan) \in Nat /\ ranks \in SUBSET (0 .. Len(Plan)) /\ ranks # {}
  <2>1. Len(Plan) \in Nat /\ \A i \in same : Rank[dirs[i].name] \in 0 .. Len(Plan)
    BY <1>2, CampaignAssumption
  <2>2. QED
    BY <1>3, <2>1
<1>5. PICK most \in ranks : \A other \in ranks : other <= most
  BY <1>4, Greatest
<1>6. PICK i \in same : most = Rank[dirs[i].name]
  BY <1>5
<1>7. \A j \in DOMAIN dirs : Matches(j, name) =>
        \/ dirs[i].at > dirs[j].at
        \/ dirs[i].at = dirs[j].at /\ Rank[dirs[i].name] >= Rank[dirs[j].name]
  <2> SUFFICES ASSUME NEW j \in DOMAIN dirs, Matches(j, name)
               PROVE  \/ dirs[i].at > dirs[j].at
                      \/ dirs[i].at = dirs[j].at /\ Rank[dirs[i].name] >= Rank[dirs[j].name]
    OBVIOUS
  <2>1. dirs[j].at <= Last.at /\ dirs[i].at = Last.at /\ Last.at \in Nat
    BY <1>1, <1>2, <1>6 DEF CampaignInv, OrderInv, Last
  <2>2. CASE dirs[j].at = Last.at
    <3>1. Rank[dirs[j].name] \in ranks
      BY <2>2
    <3>2. QED
      BY <1>4, <1>5, <1>6, <2>1, <2>2, <3>1
  <2>3. CASE dirs[j].at # Last.at
    BY <1>2, <2>1, <2>3
  <2>4. QED
    BY <2>2, <2>3
<1> DEFINE found == LatestRunDir(name)
<1>8. /\ found \in DOMAIN dirs
      /\ \A j \in DOMAIN dirs : Matches(j, name) =>
            dirs[found].at > dirs[j].at \/ dirs[found].at = dirs[j].at
  BY <1>6, <1>7 DEF LatestRunDir
<1>9. ~(dirs[found].at < Last.at)
  BY <1>1, <1>2, <1>3, <1>8 DEF Last
<1>10. found = Len(dirs) \/ dirs[found].verdict = "none" \/ dry = TRUE
  <2>1. dry = TRUE \/ dry = FALSE
    BY Zenon DEF CampaignInv
  <2>2. dirs[found].verdict # "none" /\ dry = FALSE /\ found # Len(dirs)
          => dirs[found].at < Last.at
    BY <1>8, Zenon DEF CampaignInv, OrderInv
  <2>3. QED
    BY <1>9, <2>1, <2>2, Zenon
<1>11. QED
  BY <1>8, <1>10

\* What Judge appends to the results.
LEMMA JudgeResult ==
  ASSUME CampaignInv, pc = "judge", NEW found \in DOMAIN dirs
  PROVE  Result(JudgedVerdict(dirs[found].verdict, Last.rc), Last.rc) \in Settled
<1>1. /\ \A i \in DOMAIN dirs : dirs[i] \in Directory
      /\ Len(dirs) \in DOMAIN dirs
  BY DEF CampaignInv, CampaignTypeOK, RunInv, Run
<1>2. Last.rc \in ReturnCode /\ dirs[found].verdict \in Contract!Outcome \cup {"none"}
  BY <1>1 DEF Last, Directory
<1>3. JudgedVerdict(dirs[found].verdict, Last.rc) \in Contract!Outcome
  BY <1>2 DEF JudgedVerdict, Contract!Outcome
<1>4. QED
  BY <1>2, <1>3 DEF Result, Settled

\* Every step keeps the invariant.
LEMMA NextCampaignInv ==
  ASSUME CampaignInv, [Next]_vars
  PROVE  CampaignInv'
<1>1. results \in Seq(Settled)
  BY DEF CampaignInv, CampaignTypeOK
<1>2. CASE Missing
  <2>1. Result("FAIL", 1) \in Settled
    BY DEF Result, Settled, Contract!Outcome, ReturnCode
  <2>2. results' \in Seq(Settled)
    BY <1>1, <1>2, <2>1, AppendProperties DEF Missing
  <2>3. QED
    BY <1>2, <2>2, IdleInv DEF Missing
<1>3. CASE Abort \/ Summarise
  BY <1>1, <1>3, IdleInv DEF Abort, Summarise, Ends
<1>4. CASE Judge
  <2>1. /\ pc = "judge" /\ pc' = "next" /\ todo' = Tail(todo)
        /\ UNCHANGED <<dry, tick, dirs, series>>
        /\ results' = Append(results,
             Result(JudgedVerdict(dirs[LatestRunDir(Head(todo))].verdict, Last.rc), Last.rc))
    BY <1>4 DEF Judge
  <2>2. todo # <<>>
    BY <2>1 DEF CampaignInv, RunInv, Run
  <2>3. results' \in Seq(Settled)
    BY <1>1, <2>1, LatestRun, JudgeResult, AppendProperties
  <2>4. QED
    BY <2>1, <2>2, <2>3, IdleInv
<1>5. CASE UNCHANGED vars
  <2>1. dry' \in BOOLEAN /\ tick' \in BOOLEAN
    BY <1>5, Zenon DEF CampaignInv, vars
  <2>2. CampaignTypeOK' /\ RunInv'
    BY <1>5 DEF CampaignInv, CampaignTypeOK, RunInv, Last, vars
  <2>3. OrderInv' /\ ReportInv'
    BY <1>5, Zenon DEF CampaignInv, OrderInv, ReportInv, Last, vars
  <2>4. QED
    BY <2>1, <2>2, <2>3 DEF CampaignInv
<1>6. QED
  BY <1>2, <1>3, <1>4, <1>5, StartInv, PollInv, AnalyseInv, ReturnInv DEF Next

\* The invariant that the theorems below follow from.
THEOREM CampaignInvariant == Spec => []CampaignInv
  BY InitCampaignInv, NextCampaignInv, PTL DEF Spec

-----------------------------------------------------------------------------
\* A run that passes the default assertions ends with every link up, whatever
\* its polls said meanwhile.
THEOREM PassIsUp == Spec => []PassMeansUp
<1>1. CampaignInv => PassMeansUp
  <2> SUFFICES ASSUME CampaignInv, pc = "analysed", Last.verdict = "PASS",
                      report.checks = {}, NEW link \in Links
               PROVE  \E n, p \in link :
                         n \in Fips /\ n # p /\ series[Len(series)][n][p] # "absent"
    BY DEF PassMeansUp
  <2>1. Verdict({}, report.figures, report.keylog, series, report.known) = "PASS"
    BY Zenon DEF CampaignInv, ReportInv
  <2>2. series \in Seq(Sample)
    BY CampaignAssumption DEF CampaignInv, CampaignTypeOK
  <2>3. QED
    BY <2>1, <2>2, PassUp
<1>2. QED
  BY <1>1, CampaignInvariant, PTL

\* And has a keylog that is not empty of an end of every pair that any of its
\* polls listed.
THEOREM PassHasKeys == Spec => []PassMeansKeys
<1>1. CampaignInv => PassMeansKeys
  <2> SUFFICES ASSUME CampaignInv, pc = "analysed", Last.verdict = "PASS",
                      report.checks = {},
                      NEW i \in DOMAIN series, NEW n \in Fips, NEW p \in Node,
                      series[i][n][p] # "absent"
               PROVE  \E end \in {n, p} \cap DOMAIN report.keylog : report.keylog[end] # {}
    BY DEF PassMeansKeys
  <2>1. Verdict({}, report.figures, report.keylog, series, report.known) = "PASS"
    BY Zenon DEF CampaignInv, ReportInv
  <2>2. series \in Seq(Sample) /\ i \in 1 .. Len(series)
    BY CampaignAssumption DEF CampaignInv, CampaignTypeOK
  <2>3. DOMAIN report.keylog \subseteq Node
    BY CampaignAssumption DEF CampaignInv, ReportInv
  <2>4. QED
    BY <2>1, <2>2, <2>3, PassKeys
<1>2. QED
  BY <1>1, CampaignInvariant, PTL

\* No drop is left out of the events, and no reconnection is made up.
THEOREM DropsReported == Spec => []DropsAreReported
<1>1. CampaignInv => DropsAreReported
  <2> SUFFICES ASSUME CampaignInv
               PROVE  DropsAreReported
    OBVIOUS
  <2> DEFINE events == Disconnects(series, report.known)
  <2>1. series \in Seq(Sample)
    BY CampaignAssumption DEF CampaignInv, CampaignTypeOK
  <2>2. ASSUME NEW i \in 1 .. Len(series) - 1, NEW n \in Fips, NEW p \in Node,
               series[i][n][p] # "absent", series[i + 1][n][p] = "absent"
        PROVE  \E e \in events : e.at = i + 1 /\ e.pair = Pair(report.known, n, p)
    <3>1. <<n, p, i>> \in Drops(series)
      BY <2>1, <2>2, DropMember
    <3>2. <<n, p, i>>[1] = n /\ <<n, p, i>>[2] = p /\ <<n, p, i>>[3] = i
      OBVIOUS
    <3>3. QED
      BY <2>1, <3>1, <3>2, DropReported
  <2>3. ASSUME NEW e \in events, e.reconnected
        PROVE  \E j \in e.at + 1 .. Len(series), n \in Fips, p \in Node :
                  e.pair = Pair(report.known, n, p) /\ series[j][n][p] # "absent"
    <3>1. PICK d \in Drops(series) :
             e = [pair |-> Pair(report.known, d[1], d[2]), at |-> d[3] + 1,
                  reconnected |-> Reconnected(series, d)]
      BY Zenon DEF Disconnects
    <3>2. /\ e.pair = Pair(report.known, d[1], d[2]) /\ e.at = d[3] + 1
          /\ Reconnected(series, d)
      BY <2>3, <3>1, Zenon
    <3>3. PICK j \in d[3] + 2 .. Len(series) : d[2] \in Peers(series[j], d[1])
      BY <3>2 DEF Reconnected
    <3>4. d[1] \in Fips /\ d[2] \in Node /\ d[3] \in 1 .. Len(series)
      BY <2>1, DropMember
    <3>5. j \in e.at + 1 .. Len(series) /\ series[j][d[1]][d[2]] # "absent"
      BY <2>1, <3>2, <3>3, <3>4 DEF Peers
    <3>6. QED
      BY <3>2, <3>4, <3>5
  <2>4. QED
    BY <2>2, <2>3, Zenon DEF DropsAreReported
<1>2. QED
  BY <1>1, CampaignInvariant, PTL

-----------------------------------------------------------------------------
(* The campaign keeps the contract of module CampaignContract               *)

Outcomes(rs) == [i \in DOMAIN rs |-> rs[i].verdict]

\* There are as many outcomes as results.
LEMMA OutcomesType ==
  ASSUME NEW rs \in Seq(Settled)
  PROVE  /\ Outcomes(rs) \in Seq(Contract!Outcome) /\ Len(Outcomes(rs)) = Len(rs)
         /\ \A i \in 1 .. Len(rs) : Outcomes(rs)[i] = rs[i].verdict
<1>1. \A x \in Settled : x.verdict \in Contract!Outcome
  BY DEF Settled
<1>2. Len(rs) \in Nat /\ DOMAIN rs = 1 .. Len(rs)
  OBVIOUS
<1>3. QED
  BY <1>1, <1>2 DEF Outcomes

\* One more result is one more outcome.
LEMMA OneMoreOutcome ==
  ASSUME NEW rs \in Seq(Settled), NEW r \in Settled
  PROVE  Outcomes(Append(rs, r)) = Append(Outcomes(rs), r.verdict)
<1> DEFINE more == Append(rs, r)
           left == Outcomes(more)
           right == Append(Outcomes(rs), r.verdict)
<1>1. \A x \in Settled : x.verdict \in Contract!Outcome
  BY DEF Settled
<1>2. /\ Len(rs) \in Nat /\ DOMAIN rs = 1 .. Len(rs)
      /\ more \in Seq(Settled) /\ Len(more) = Len(rs) + 1
      /\ DOMAIN more = 1 .. Len(rs) + 1
      /\ \A i \in 1 .. Len(rs) : more[i] = rs[i]
      /\ more[Len(rs) + 1] = r
  BY AppendProperties
<1>3. /\ Outcomes(rs) \in Seq(Contract!Outcome) /\ Len(Outcomes(rs)) = Len(rs)
      /\ \A i \in 1 .. Len(rs) : Outcomes(rs)[i] = rs[i].verdict
  BY OutcomesType
<1>4. /\ left \in Seq(Contract!Outcome) /\ Len(left) = Len(rs) + 1
      /\ \A i \in 1 .. Len(rs) : left[i] = rs[i].verdict
      /\ left[Len(rs) + 1] = r.verdict
  <2> HIDE DEF more
  <2>1. /\ left \in [1 .. Len(rs) + 1 -> Contract!Outcome]
        /\ \A i \in 1 .. Len(rs) + 1 : left[i] = more[i].verdict
    BY <1>1, <1>2 DEF Outcomes
  <2>2. QED
    BY <1>2, <2>1
<1>5. /\ right \in Seq(Contract!Outcome) /\ Len(right) = Len(rs) + 1
      /\ \A i \in 1 .. Len(rs) : right[i] = rs[i].verdict
      /\ right[Len(rs) + 1] = r.verdict
  BY <1>1, <1>2, <1>3, AppendProperties
<1>6. QED
  <2> HIDE DEF left, right
  <2>1. \A i \in 1 .. Len(left) : left[i] = right[i]
    BY <1>2, <1>4, <1>5
  <2>2. left = right
    BY <1>4, <1>5, <2>1, SeqEqual
  <2>3. QED
    BY <2>2 DEF left, right

\* Between two settlements nothing of the contract changes.
LEMMA NoSettlement ==
  ASSUME UNCHANGED <<todo, results>>,
         pc \in {"next", "run", "analysed"}, pc' \in {"next", "run", "analysed"}
  PROVE  UNCHANGED Contract!vars
  BY DEF Contract!vars, OwnOutcome

\* A run ends with the outcome of its analysis or FAIL.
LEMMA RunEndsStep ==
  ASSUME CampaignInv, Return \/ Fallback
  PROVE  Contract!RunEnds
<1>1. /\ pc \in {"run", "analysed"} /\ pc' = "judge" /\ UNCHANGED <<todo, results>>
  BY DEF Return, Fallback
<1>2. todo # <<>>
  BY <1>1 DEF CampaignInv, RunInv, Run
<1>3. OwnOutcome' \in Contract!Outcome
  <2>1. dirs' \in Seq(Directory) /\ dirs' # <<>>
    BY <1>1, ReturnInv DEF CampaignInv, CampaignTypeOK, RunInv, Run
  <2>2. Last' \in Directory
    BY <2>1 DEF Last
  <2>3. Last'.verdict \in Contract!Outcome \cup {"none"}
    BY <2>2 DEF Directory
  <2>4. QED
    BY <1>1, <2>3 DEF OwnOutcome, Contract!Outcome
<1>4. QED
  BY <1>1, <1>2, <1>3 DEF Contract!RunEnds, OwnOutcome

\* Whatever directory the lookup finds, the run is settled with its own
\* outcome or as a failure.
LEMMA JudgeSettles ==
  ASSUME CampaignInv, Judge
  PROVE  Contract!SettleRun
<1> DEFINE found == LatestRunDir(Head(todo))
           verdict == JudgedVerdict(dirs[found].verdict, Last.rc)
           result == Result(verdict, Last.rc)
<1>1. /\ pc = "judge" /\ pc' = "next" /\ todo' = Tail(todo)
      /\ results' = Append(results, result)
  BY DEF Judge
<1>2. /\ found \in DOMAIN dirs
      /\ found = Len(dirs) \/ dirs[found].verdict = "none" \/ dry = TRUE
  BY <1>1, LatestRun
<1>3. verdict = OwnOutcome \/ verdict = "FAIL"
  <2>1. CASE found = Len(dirs)
    BY <1>1, <2>1 DEF JudgedVerdict, OwnOutcome, Last
  <2>2. CASE dirs[found].verdict = "none"
    BY <2>2 DEF JudgedVerdict
  <2>3. CASE dry = TRUE
    <3>1. \A i \in DOMAIN dirs : dirs[i].verdict \in {"none", "INSUFFICIENT_DATA"}
      BY <2>3, Zenon DEF CampaignInv, OrderInv
    <3>2. Len(dirs) \in DOMAIN dirs
      BY <1>1 DEF CampaignInv, CampaignTypeOK, RunInv, Run
    <3>3. Last.rc = 0 => Last.verdict = "INSUFFICIENT_DATA"
      BY <1>1, <3>1, <3>2 DEF CampaignInv, RunInv, Run, Last
    <3>4. QED
      BY <1>1, <1>2, <3>1, <3>3 DEF JudgedVerdict, OwnOutcome
  <2>4. QED
    BY <1>2, <2>1, <2>2, <2>3
<1>4. results \in Seq(Settled) /\ result \in Settled /\ result.verdict = verdict
  BY <1>1, <1>2, JudgeResult DEF CampaignInv, CampaignTypeOK, Result
<1>5. Outcomes(results') = Append(Outcomes(results), verdict)
  BY <1>1, <1>4, OneMoreOutcome
<1>6. todo # <<>>
  BY <1>1 DEF CampaignInv, RunInv, Run
<1>7. OwnOutcome # "none" /\ OwnOutcome' = "none"
  BY <1>1 DEF OwnOutcome
<1>8. QED
  <2> HIDE DEF verdict
  <2>1. CASE verdict = OwnOutcome
    <3>1. Contract!Settle(OwnOutcome)
      BY <1>1, <1>5, <1>6, <1>7, <2>1 DEF Contract!Settle, Outcomes
    <3>2. QED
      BY <1>7, <3>1 DEF Contract!SettleRun
  <2>2. CASE verdict = "FAIL"
    <3>1. Contract!Settle("FAIL")
      BY <1>1, <1>5, <1>6, <1>7, <2>2 DEF Contract!Settle, Outcomes
    <3>2. QED
      BY <1>7, <3>1 DEF Contract!SettleRun
  <2>3. QED
    BY <1>3, <2>1, <2>2

\* A scenario whose file is missing is settled without a run.
LEMMA MissingSettles ==
  ASSUME CampaignInv, Missing
  PROVE  Contract!NotRun
<1>1. /\ pc = "next" /\ pc' = "next" /\ todo # <<>> /\ todo' = Tail(todo)
      /\ results' = Append(results, Result("FAIL", 1))
  BY DEF Missing
<1>2. /\ results \in Seq(Settled) /\ Result("FAIL", 1) \in Settled
      /\ Result("FAIL", 1).verdict = "FAIL"
  BY DEF CampaignInv, CampaignTypeOK, Result, Settled, Contract!Outcome, ReturnCode
<1>3. Outcomes(results') = Append(Outcomes(results), "FAIL")
  BY <1>1, <1>2, OneMoreOutcome
<1>4. QED
  BY <1>1, <1>3 DEF Contract!NotRun, Contract!Settle, Outcomes, OwnOutcome

\* The campaign succeeds if it has settled something and all of it passed.
LEMMA SummariseConcludes ==
  ASSUME CampaignInv, Summarise
  PROVE  Contract!Conclude
<1>1. /\ pc = "next" /\ todo = <<>> /\ UNCHANGED <<todo, results>>
      /\ pc' = IF Overall = "PASS" THEN "success" ELSE "failure"
  BY DEF Summarise
<1>2. results \in Seq(Settled)
  BY DEF CampaignInv, CampaignTypeOK
<1>3. Overall = "PASS" <=> /\ Outcomes(results) # <<>>
                           /\ \A i \in DOMAIN Outcomes(results) : Outcomes(results)[i] = "PASS"
  <2>1. Verdicts = {Outcomes(results)[i] : i \in DOMAIN Outcomes(results)}
    BY DEF Verdicts, Outcomes
  <2>2. Outcomes(results) = <<>> <=> Verdicts = {}
    <3>1. Outcomes(results) \in Seq(Contract!Outcome)
      BY <1>2, OutcomesType
    <3>2. Outcomes(results) = <<>> <=> DOMAIN Outcomes(results) = {}
      BY <3>1
    <3>3. QED
      BY <2>1, <3>2
  <2>3. Overall = "PASS" <=> Verdicts = {"PASS"}
    BY DEF Overall
  <2>4. QED
    BY <2>1, <2>2, <2>3
<1>4. QED
  BY <1>1, <1>3 DEF Contract!Conclude, Outcomes, OwnOutcome

\* Every step is one of the contract or none of its business.
LEMMA NextCampaignContract ==
  ASSUME CampaignInv, [Next]_vars
  PROVE  [Contract!Next]_(Contract!vars)
<1>1. CASE Missing \/ Judge \/ Return \/ Fallback \/ Summarise
  BY <1>1, MissingSettles, JudgeSettles, RunEndsStep, SummariseConcludes DEF Contract!Next
<1>2. CASE Abort
  <2>1. /\ pc \in {"next", "run", "analysed"} /\ pc' = "aborted"
        /\ UNCHANGED <<todo, results>>
    BY <1>2 DEF Abort
  <2>2. QED
    BY <2>1 DEF Contract!Next, Contract!Abort, OwnOutcome
<1>3. CASE Start \/ TimePasses \/ Poll \/ Analyse
  <2>1. /\ pc \in {"next", "run", "analysed"} /\ pc' \in {"next", "run", "analysed"}
        /\ UNCHANGED <<todo, results>>
    BY <1>3 DEF Start, TimePasses, Poll, Analyse
  <2>2. QED
    BY <2>1, NoSettlement
<1>4. CASE UNCHANGED vars
  BY <1>4 DEF vars, Contract!vars, OwnOutcome, Last
<1>5. QED
  BY <1>1, <1>2, <1>3, <1>4 DEF Next

\* CampaignRunner.run implements CampaignContract for any plan, names and
\* clock: no lookup by name lets one run vouch for another, and no analysis
\* for a run that failed later.
THEOREM CampaignKeepsContract == Spec => KeepsContract
<1>1. Init => Contract!Init
  <2> SUFFICES ASSUME Init PROVE Contract!Init
    OBVIOUS
  <2>1. Outcomes(results) = <<>>
    BY DEF Init, Outcomes
  <2>2. QED
    BY <2>1 DEF Init, Contract!Init, Outcomes, OwnOutcome
<1>2. QED
  BY <1>1, CampaignInvariant, NextCampaignContract, PTL
     DEF Spec, KeepsContract, Contract!Spec
=============================================================================
