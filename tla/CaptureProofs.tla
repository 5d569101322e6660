---------------------------- MODULE CaptureProofs ----------------------------
(***************************************************************************)
(* The capture, for any links, channels, sizes, bounds and losses, however *)
(* the two sides of a connection interleave: a frame whose records are in  *)
(* the capture one after the other is read once and whole, and the tracker *)
(* knows the service of each channel it has seen set up as long as the     *)
(* signalling can be told apart by what the tracker goes by.               *)
(***************************************************************************)
EXTENDS Capture, SequenceTheorems, FiniteSetTheorems, WellFoundedInduction, TLAPS

\* The frames of the hosts are addressed to one of the two CIDs of a channel;
\* what the tracker takes for one need not be.
HostFrames == {f \in DataFrames : f.cid \in Cids(f.chan)}
Units == [frame : HostFrames, size : Size, i : Nat \ {0}]
Entries == [frame : DataFrames, intact : BOOLEAN, fips : BOOLEAN]

TrackerTypeOK ==
    /\ pending \in [Cid -> Psm \cup {None}] /\ active \in [Cid -> Psm \cup {None}]
    /\ ident_to_scid \in [Ident -> Cid \cup {None}]
    /\ log \in Seq(Entries)

CaptureTypeOK ==
    /\ requests \subseteq Requests /\ unanswered \subseteq Requests
    /\ channels \subseteq Channels
    /\ setups \in Nat /\ frames \in Nat /\ lost \in Nat
    /\ crossed \in BOOLEAN /\ shared \in BOOLEAN /\ garbled \in BOOLEAN
    /\ air \in [Handle -> [Side -> Transports \cup {None}]]
    /\ captured \subseteq DataFrames
    /\ buffers \in [Handle -> Seq(Units)]
    /\ TrackerTypeOK

-----------------------------------------------------------------------------
(* Frames and their numbers *)

Unit(frame, size, i) == [frame |-> frame, size |-> size, i |-> i]

\* The first n units of the frame that crosses the HCI.
HoldsFirst(buf, frame, size, n) ==
    Len(buf) = n /\ \A i \in 1 .. n : buf[i] = Unit(frame, size, i)

Numbers(buf) == {buf[x].frame.no : x \in 1 .. Len(buf)}
LogNumbers == {log[j].frame.no : j \in 1 .. Len(log)}

\* A frame under way is one of an open channel of its handle.  As long as its
\* records are in the capture one after the other, the buffer holds what has
\* crossed.
AirAt(h, a, buf, open, sent) ==
    a # None =>
        /\ a.frame.chan \in open /\ a.frame.chan.h = h
        /\ a.frame.cid \in Cids(a.frame.chan)
        /\ a.next <= a.size
        /\ a.frame.no \in 0 .. sent /\ (a.whole => a.frame.no # 0)
        /\ a.next > 1 /\ a.whole => HoldsFirst(buf, a.frame, a.size, a.next - 1)

AirInv ==
    \A h \in Handle, s \in Side : AirAt(h, air[h][s], buffers[h], channels, frames)

\* Frames are numbered as they are sent.
NumberInv ==
    /\ LogNumbers \subseteq 0 .. frames
    /\ \A g \in Handle : Numbers(buffers[g]) \subseteq 0 .. frames

\* A frame that may still be captured has not been read, has units in no
\* buffer other than its own, and there only those above, and no other frame
\* under way has its number.
AloneAt(h, s) ==
    LET a == air[h][s] IN
    a # None /\ a.whole =>
        /\ a.frame.no \notin LogNumbers
        /\ \A g \in Handle : a.frame.no \in Numbers(buffers[g]) => g = h /\ a.next > 1
        /\ \A g \in Handle, t \in Side :
              air[g][t] # None /\ air[g][t].frame.no = a.frame.no => g = h /\ t = s

AloneInv == \A h \in Handle, s \in Side : AloneAt(h, s)

\* A captured frame has been read, once and whole, and nothing of it is left.
ReadOnce(f) ==
    \E j \in 1 .. Len(log) :
        /\ log[j].frame = f /\ log[j].intact
        /\ \A k \in 1 .. Len(log) : log[k].frame.no = f.no => k = j

GoneAt(f) ==
    /\ f.no \in 1 .. frames
    /\ \A g \in Handle : f.no \notin Numbers(buffers[g])
    /\ \A g \in Handle, t \in Side : air[g][t] # None => air[g][t].frame.no # f.no

ReadInv == \A f \in captured : ReadOnce(f) /\ GoneAt(f)

FrameInv == AirInv /\ NumberInv /\ AloneInv /\ ReadInv

-----------------------------------------------------------------------------
(* What the tracker knows *)

\* As long as no channel is known, no frame was taken.
BlankInv ==
    (\A c \in Cid : active[c] = None) => \A j \in 1 .. Len(log) : ~log[j].fips

\* The requests whose entries are in the tables: their answers have not been
\* read.
Known == {q \in requests \cup unanswered : q.setup = "seen"}

\* As long as they can be told apart, the tables hold nothing else, and an
\* outstanding one is there under its identifier and its CID.
RequestInv ==
    ~crossed /\ ~garbled =>
        /\ requests \cap unanswered = {}
        /\ \A r, q \in requests \cup unanswered : r.ident = q.ident \/ r.scid = q.scid => r = q
        /\ \A r \in requests : r.setup = "seen" =>
              ident_to_scid[r.ident] = r.scid /\ pending[r.scid] = r.psm
        /\ \A i \in Ident : ident_to_scid[i] # None => \E q \in Known : q.ident = i
        /\ \A c \in Cid : pending[c] # None => \E q \in Known : q.scid = c

\* So the tracker has each open channel whose set-up it has read, under both
\* CIDs.
ChannelInv ==
    Followed => \A c \in channels : c.setup = "seen" =>
        \A x \in Cids(c) : active[x] = c.psm

\* And took a frame of such a channel if and only if it was one of FIPS.
VerdictInv ==
    Followed => \A j \in 1 .. Len(log) : log[j].frame.chan.setup = "seen" =>
        (log[j].fips <=> log[j].frame.chan.psm = "fips")

TrackInv == BlankInv /\ RequestInv /\ ChannelInv /\ VerdictInv

CaptureInv == CaptureTypeOK /\ FrameInv /\ TrackInv

-----------------------------------------------------------------------------
(* Feeding a buffer *)

\* Some units of a frame.
UnitsOf(frame, size) == [frame : {frame}, size : {size}, i : 1 .. size]

LEMMA UnitsAre ==
    ASSUME NEW frame, NEW size \in Nat
    PROVE  /\ FrameUnits(frame, size) \in Seq(UnitsOf(frame, size))
           /\ Len(FrameUnits(frame, size)) = size
           /\ \A x \in 1 .. size :
                 FrameUnits(frame, size)[x] = Unit(frame, size, x)
<1>1. \A x \in 1 .. size : Unit(frame, size, x) \in UnitsOf(frame, size)
      BY DEF UnitsOf, Unit
<1>2. FrameUnits(frame, size) \in [1 .. size -> UnitsOf(frame, size)]
      BY <1>1 DEF FrameUnits, Unit
<1>3. FrameUnits(frame, size) \in Seq(UnitsOf(frame, size)) BY <1>2, SeqDef
<1>4. Len(FrameUnits(frame, size)) = size BY <1>2, <1>3, LenProperties
<1> QED BY <1>3, <1>4 DEF FrameUnits, Unit

Piece(frame, size, from, to) == SubSeq(FrameUnits(frame, size), from, to)

LEMMA PieceIs ==
    ASSUME NEW frame, NEW size \in Nat, NEW from \in 1 .. size, NEW to \in from .. size
    PROVE  LET g == Piece(frame, size, from, to) IN
           /\ g \in Seq(UnitsOf(frame, size)) /\ Len(g) = to - from + 1 /\ g # << >>
           /\ \A x \in 1 .. to - from + 1 :
                 g[x] = Unit(frame, size, from + x - 1)
           /\ Head(g) = Unit(frame, size, from)
<1> DEFINE f == FrameUnits(frame, size)
           g == Piece(frame, size, from, to)
           S == UnitsOf(frame, size)
<1>1. f \in Seq(S) /\ Len(f) = size /\ \A x \in 1 .. size : f[x] = Unit(frame, size, x)
      BY UnitsAre
<1>0. g = SubSeq(f, from, to) BY DEF Piece
<1> HIDE DEF f, g
<1>2. \A x \in from .. to : f[x] \in S BY <1>1, ElementOfSeq
<1>3. /\ g \in Seq(S) /\ Len(g) = to - from + 1
      /\ \A x \in 1 .. to - from + 1 : g[x] = f[from + x - 1]
      BY <1>2, <1>0, SubSeqProperties
<1>4. \A x \in 1 .. to - from + 1 : g[x] = Unit(frame, size, from + x - 1)
  <2>1. SUFFICES ASSUME NEW x \in 1 .. to - from + 1
                 PROVE  g[x] = Unit(frame, size, from + x - 1)
        OBVIOUS
  <2>2. from + x - 1 \in 1 .. size OBVIOUS
  <2> QED BY <1>1, <1>3, <2>2
<1>5. g # << >>
  <2>1. Len(g) # 0 BY <1>3
  <2> QED BY <2>1
<1>6. Head(g) = g[1] BY <1>3, <1>5
<1>7. 1 \in 1 .. to - from + 1 /\ from + 1 - 1 = from OBVIOUS
<1>8. Head(g) = Unit(frame, size, from) BY <1>4, <1>6, <1>7
<1> QED BY <1>3, <1>4, <1>5, <1>8 DEF g

\* A start replaces what is in the buffer; when it is the whole frame, it is
\* returned at once.
LEMMA StartFed ==
    ASSUME NEW frame \in HostFrames \cup Commands, NEW size \in Nat, NEW to \in 1 .. size,
           NEW buf \in Seq(Units), NEW sent \in BOOLEAN,
           NEW fed \in Feed(buf, Piece(frame, size, 1, to), PbFlag(sent, 1))
    PROVE  /\ to = size => fed.buf = << >> /\ fed.out = <<FrameUnits(frame, size)>>
           /\ to < size => HoldsFirst(fed.buf, frame, size, to) /\ fed.out = << >>
<1> DEFINE f == FrameUnits(frame, size)
           g == Piece(frame, size, 1, to)
           S == UnitsOf(frame, size)
<1>0. /\ fed \in Feed(buf, g, PbFlag(sent, 1)) /\ to \in 1 .. size
      BY Zenon
<1>1. /\ g \in Seq(S) /\ Len(g) = to /\ g # << >>
      /\ Head(g) = Unit(frame, size, 1)
      /\ \A i \in 1 .. to : g[i] = Unit(frame, size, i)
  <2>1. 1 \in 1 .. size /\ to - 1 + 1 = to BY <1>0
  <2>2. /\ g \in Seq(S) /\ Len(g) = to /\ g # << >> /\ Head(g) = Unit(frame, size, 1)
        /\ \A i \in 1 .. to - 1 + 1 : g[i] = Unit(frame, size, 1 + i - 1)
        BY <1>0, <2>1, PieceIs
  <2>3. \A i \in 1 .. to : 1 + i - 1 = i BY <1>0
  <2> HIDE DEF g
  <2> QED BY <2>1, <2>2, <2>3
<1>2. f \in Seq(S) /\ Len(f) = size BY UnitsAre
<1>3. to = size => g = f BY <1>2, SubSeqFull DEF Piece
<1> HIDE DEF f
<1> HIDE DEF g
<1>4. Declared(g) = {size} BY <1>1 DEF Declared, Unit
<1>5. StartFlag(PbFlag(sent, 1)) BY DEF StartFlag, PbFlag
<1>6. fed = Completed(g, size) BY <1>0, <1>4, <1>5 DEF Feed, f
<1>7. CASE to = size
  <2>1. SubSeq(g, size + 1, Len(g)) = << >> BY <1>1, <1>7, SubSeqEmpty
  <2>2. SubSeq(g, 1, size) = f BY <1>1, <1>3, <1>7, SubSeqFull
  <2> QED BY <1>1, <1>6, <1>7, <2>1, <2>2 DEF Completed, Remainder, f
<1>8. CASE to < size BY <1>1, <1>6, <1>8 DEF Completed, HoldsFirst
<1> QED BY <1>7, <1>8 DEF f

\* A continuation of a frame of which all so far is in the buffer.
LEMMA WholeFed ==
    ASSUME NEW frame \in HostFrames, NEW size \in Size, NEW buf \in Seq(Units), NEW from \in 2 .. size,
           NEW to \in from .. size, HoldsFirst(buf, frame, size, from - 1), NEW sent \in BOOLEAN,
           NEW fed \in Feed(buf, Piece(frame, size, from, to), PbFlag(sent, from))
    PROVE  /\ to = size => fed.buf = << >> /\ fed.out = <<FrameUnits(frame, size)>>
           /\ to < size => fed.buf \in Seq(Units) /\ HoldsFirst(fed.buf, frame, size, to) /\ fed.out = << >>
<1> DEFINE f == FrameUnits(frame, size)
           g == Piece(frame, size, from, to)
           S == UnitsOf(frame, size)
           new == buf \o g
<1>0. size \in Nat \ {0} BY AclAssumption
<1>1. /\ g \in Seq(S) /\ Len(g) = to - from + 1
      /\ \A x \in 1 .. to - from + 1 :
            g[x] = Unit(frame, size, from + x - 1)
  <2>1. from \in 1 .. size OBVIOUS
  <2> QED BY <1>0, <2>1, PieceIs
<1>2. /\ f \in Seq(S) /\ Len(f) = size
      /\ \A x \in 1 .. size : f[x] = Unit(frame, size, x)
      BY <1>0, UnitsAre
<1>3. S \subseteq Units BY <1>0 DEF UnitsOf, Units
<1>4. g \in Seq(Units) /\ f \in Seq(Units)
      BY <1>1, <1>2, <1>3, SeqMonotonic
<1> HIDE DEF f, g, S
<1>5. /\ new \in Seq(Units) /\ Len(new) = Len(buf) + Len(g)
      /\ \A x \in 1 .. Len(buf) + Len(g) :
            new[x] = IF x <= Len(buf) THEN buf[x] ELSE g[x - Len(buf)]
      BY <1>4, ConcatProperties
<1>6. Len(buf) = from - 1 /\ Len(new) = to BY <1>0, <1>1, <1>5 DEF HoldsFirst
<1>7. \A x \in 1 .. to : new[x] = Unit(frame, size, x)
  <2>1. SUFFICES ASSUME NEW x \in 1 .. to PROVE new[x] = Unit(frame, size, x)
        OBVIOUS
  <2>2. CASE x <= from - 1
    <3>1. x \in 1 .. from - 1 BY <1>0, <2>2
    <3>2. buf[x] = Unit(frame, size, x) BY <3>1 DEF HoldsFirst
    <3>3. new[x] = buf[x] BY <1>0, <1>1, <1>5, <1>6, <3>1
    <3> QED BY <3>2, <3>3
  <2>3. CASE x > from - 1
    <3>1. x - (from - 1) \in 1 .. to - from + 1
      <4>1. from \in Nat /\ to \in Nat /\ x \in Nat /\ x <= to BY <1>0
      <4> QED BY <2>3, <4>1
    <3>2. new[x] = g[x - (from - 1)]
      <4>1. x \in 1 .. Len(buf) + Len(g) BY <1>5, <1>6
      <4>2. new[x] = IF x <= Len(buf) THEN buf[x] ELSE g[x - Len(buf)] BY <1>5, <4>1
      <4> QED BY <1>6, <2>3, <4>2
    <3>3. from + (x - (from - 1)) - 1 = x BY <1>0
    <3> QED BY <1>1, <3>1, <3>2, <3>3
  <2>4. x <= from - 1 \/ x > from - 1 BY <1>0, <2>1
  <2> QED BY <2>2, <2>3, <2>4
<1> HIDE DEF new
<1>8. new # << >> /\ Head(new) = new[1] /\ buf # << >>
  <2>1. Len(new) >= 1 /\ Len(buf) >= 1 BY <1>0, <1>6
  <2> QED BY <1>5, <2>1
<1>9. Declared(new) = {size}
  <2>1. Head(new) = Unit(frame, size, 1) BY <1>0, <1>7, <1>8
  <2> QED BY <2>1 DEF Declared, Unit
<1>10. ~StartFlag(PbFlag(sent, from)) /\ buf # << >> BY <1>0, <1>8 DEF StartFlag, PbFlag
<1>11. fed = Completed(new, size) BY <1>9, <1>10 DEF Feed, g, f, new
<1>12. CASE to = size
  <2>1. new = f BY <1>2, <1>4, <1>5, <1>6, <1>7, <1>12, SeqEqual
  <2>2. SubSeq(new, size + 1, Len(new)) = << >> BY <1>0, <1>6, <1>12, SubSeqEmpty
  <2>3. SubSeq(new, 1, size) = f BY <1>5, <1>6, <1>12, <2>1, SubSeqFull
  <2> QED BY <1>0, <1>6, <1>11, <1>12, <2>2, <2>3 DEF Completed, Remainder, f
<1>13. CASE to < size
  <2>1. fed.buf = new /\ fed.out = << >> BY <1>0, <1>6, <1>11, <1>13 DEF Completed
  <2> QED BY <1>5, <1>6, <1>7, <1>13, <2>1 DEF HoldsFirst
<1> QED BY <1>0, <1>12, <1>13

LEMMA OwnFed ==
    ASSUME NEW frame \in HostFrames, NEW size \in Size, NEW buf \in Seq(Units), NEW from \in 1 .. size,
           NEW to \in from .. size, from > 1 => HoldsFirst(buf, frame, size, from - 1),
           NEW sent \in BOOLEAN,
           NEW fed \in Feed(buf, Piece(frame, size, from, to), PbFlag(sent, from))
    PROVE  /\ to = size => fed.buf = << >> /\ fed.out = <<FrameUnits(frame, size)>>
           /\ to < size => HoldsFirst(fed.buf, frame, size, to) /\ fed.out = << >>
<1>1. size \in Nat BY AclAssumption
<1>2. CASE from = 1
  <2>1. fed \in Feed(buf, Piece(frame, size, 1, to), PbFlag(sent, 1)) BY <1>2, Zenon
  <2>2. to \in 1 .. size BY <1>2
  <2> QED BY <1>1, <2>1, <2>2, StartFed
<1>3. CASE from # 1
  <2>1. from \in 2 .. size /\ from > 1 BY <1>1, <1>3
  <2> QED BY <2>1, WholeFed
<1> QED BY <1>2, <1>3

\* Whatever a buffer holds, feeding it leaves some of the units that were there
\* or came, and returns at most one frame, which begins with one of them.
LEMMA FedFrom ==
    ASSUME NEW S, NEW buf \in Seq(S), NEW fragment \in Seq(S), fragment # << >>, NEW pb,
           \A u \in S : u.size \in Nat \ {0},
           NEW fed \in Feed(buf, fragment, pb)
    PROVE  /\ fed.buf \in Seq(S)
           /\ fed.out # << >> => Head(Head(fed.out)) \in S
<1> DEFINE new == IF StartFlag(pb) THEN fragment ELSE buf \o fragment
<1>1. CASE ~StartFlag(pb) /\ buf = << >>
  <2>1. fed = [buf |-> buf, out |-> << >>] BY <1>1 DEF Feed
  <2> QED BY <2>1
<1>2. CASE ~(~StartFlag(pb) /\ buf = << >>)
  <2>1. PICK n \in Declared(new) : fed = Completed(new, n) BY <1>2 DEF Feed
  <2>2. new \in Seq(S) /\ Len(new) >= 1
    <3>1. Len(fragment) >= 1 OBVIOUS
    <3>2. /\ buf \o fragment \in Seq(S)
          /\ Len(buf \o fragment) = Len(buf) + Len(fragment)
          BY ConcatProperties
    <3>3. Len(buf \o fragment) >= 1 BY <3>1, <3>2
    <3> QED BY <3>1, <3>2, <3>3
  <2> HIDE DEF new
  <2>3. Head(new) \in S
    <3>1. new # << >> BY <2>2
    <3> QED BY <2>2, <3>1, HeadTailProperties
  <2>4. n \in Nat /\ n >= 1
    <3>1. Head(new).size \in Nat \ {0} BY <2>3
    <3>2. n = Head(new).size \/ n \in 1 .. Len(new) + 1 BY <2>1 DEF Declared
    <3>3. Len(new) \in Nat BY <2>2
    <3> QED BY <3>1, <3>2, <3>3
  <2>5. CASE ~(Len(new) >= n)
    <3>1. fed = [buf |-> new, out |-> << >>] BY <2>1, <2>5 DEF Completed
    <3> QED BY <2>2, <3>1
  <2>6. CASE Len(new) >= n
    <3> DEFINE rest == SubSeq(new, n + 1, Len(new))
               whole == SubSeq(new, 1, n)
    <3>1. fed = [buf |-> rest, out |-> <<whole>>] BY <2>1, <2>6 DEF Completed, Remainder
    <3>2. \A i \in 1 .. Len(new) : new[i] \in S BY <2>2
    <3>3. rest \in Seq(S) BY <2>2, <2>4, <3>2, SubSeqProperties
    <3>4. \A i \in 1 .. n : new[i] \in S BY <2>2, <2>4, <2>6, <3>2
    <3>5. whole \in Seq(S) /\ Len(whole) = n BY <2>2, <2>4, <2>6, <3>4, SubSeqProperties
    <3> HIDE DEF rest, whole
    <3>6. Head(whole) \in S
      <4>1. whole # << >> BY <2>4, <3>5
      <4> QED BY <3>5, <4>1, HeadTailProperties
    <3>7. fed.buf = rest /\ Head(fed.out) = whole BY <3>1
    <3> QED BY <3>3, <3>6, <3>7
  <2> QED BY <2>5, <2>6
<1> QED BY <1>1, <1>2

-----------------------------------------------------------------------------
(* What a record does *)

\* An entry of a data frame.
Entry(frame, intact) == [frame |-> frame, intact |-> intact, fips |-> IsFips(frame.cid)]

LEMMA EntryIs ==
    ASSUME NEW frame \in DataFrames, NEW intact \in BOOLEAN
    PROVE  /\ Entry(frame, intact) \in Entries
           /\ Entry(frame, intact).frame = frame /\ Entry(frame, intact).intact = intact
           /\ Entry(frame, intact).fips <=> active[frame.cid] = "fips"
<1> DEFINE fips == IsFips(frame.cid)
<1>1. fips \in BOOLEAN BY DEF IsFips
<1>2. fips <=> active[frame.cid] = "fips" BY DEF IsFips
<1>3. Entry(frame, intact) = [frame |-> frame, intact |-> intact, fips |-> fips]
      BY Zenon DEF Entry
<1> HIDE DEF fips
<1>4. Entry(frame, intact) \in Entries BY <1>1, <1>3 DEF Entries
<1>5. Entry(frame, intact).frame = frame BY <1>3
<1>6. Entry(frame, intact).intact = intact BY <1>3
<1>7. Entry(frame, intact).fips = fips BY <1>3
<1> QED BY <1>2, <1>4, <1>5, <1>6, <1>7, Zenon

LEMMA LogGrows ==
    ASSUME NEW seq \in Seq(Entries), NEW e \in Entries
    PROVE  /\ Append(seq, e) \in Seq(Entries) /\ Len(Append(seq, e)) = Len(seq) + 1
           /\ \A j \in 1 .. Len(seq) : Append(seq, e)[j] = seq[j]
           /\ Append(seq, e)[Len(seq) + 1] = e
OBVIOUS

LEMMA CommandIs ==
    ASSUME NEW command \in Commands
    PROVE  \/ command.kind = "request" /\ command.request \in Requests
           \/ /\ command.kind = "response" /\ command.request \in Requests
              /\ command.dcid \in Cid /\ command.accepted \in BOOLEAN
BY DEF Commands

\* A signalling command is read at once and leaves the buffer empty.
LEMMA CommandRead ==
    ASSUME CaptureTypeOK, NEW h \in Handle, NEW side \in Side, NEW command \in Commands,
           Record(h, FrameUnits(command, 1), side)
    PROVE  /\ buffers' = [buffers EXCEPT ![h] = << >>] /\ lost' = lost
           /\ garbled' = garbled
           /\ command.kind = "request" => TrackRequest(command.request)
           /\ command.kind = "response" =>
                TrackResponse(command.request, command.dcid, command.accepted)
<1> DEFINE f == FrameUnits(command, 1)
           g == Piece(command, 1, 1, 1)
<1>1. /\ f \in Seq(UnitsOf(command, 1)) /\ Len(f) = 1
      /\ f[1] = Unit(command, 1, 1)
  <2>1. 1 \in Nat /\ 1 \in 1 .. 1 OBVIOUS
  <2> QED BY <2>1, UnitsAre
<1>2. g = f BY <1>1, SubSeqFull DEF Piece
<1>3. f # << >> /\ Head(f) = Unit(command, 1, 1) BY <1>1
<1> HIDE DEF f, g
<1>4. PICK fed \in Feed(buffers[h], f, PbFlag(side = "local", Head(f).i)) :
        /\ buffers' = [buffers EXCEPT ![h] = fed.buf]
        /\ IF fed.out = << >> THEN UNCHANGED <<trackerVars, garbled>> ELSE Read(Head(fed.out))
      BY DEF Record, f
<1>5. Head(f).i = 1 /\ Head(f).frame = command BY <1>3 DEF Unit
<1>6. fed.buf = << >> /\ fed.out = <<f>>
  <2> DEFINE sent == side = "local"
  <2>1. PICK one \in Nat : one = 1 OBVIOUS
  <2>2. /\ fed \in Feed(buffers[h], Piece(command, one, 1, one), PbFlag(sent, 1))
        /\ sent \in BOOLEAN /\ one \in 1 .. one /\ buffers[h] \in Seq(Units)
        BY <1>2, <1>4, <1>5, <2>1 DEF g, CaptureTypeOK
  <2> HIDE DEF sent
  <2>3. fed.buf = << >> /\ fed.out = <<FrameUnits(command, one)>>
        BY <2>1, <2>2, StartFed
  <2> QED BY <2>1, <2>3 DEF f
<1>7. fed.out # << >> /\ Head(fed.out) = f BY <1>6
<1>8. Read(f) BY <1>4, <1>7
<1>9. PICK intact : Track(command, intact) /\ garbled' = (garbled \/ Belated(command))
      BY <1>5, <1>8, Zenon DEF Read
<1>10. garbled' = garbled
  <2>1. ~Belated(command) BY CommandIs DEF Belated
  <2> QED BY <1>9, <2>1 DEF CaptureTypeOK
<1> QED BY <1>4, <1>6, <1>9, <1>10 DEF Record, Track

\* What a data record makes the tracker read: nothing, a frame by its header,
\* or the middle of one.
NothingRead == UNCHANGED <<trackerVars, garbled>>

FrameRead(frame, intact) ==
    TrackData(frame, intact) /\ garbled' = (garbled \/ frame.chan \notin channels)

StrayRead ==
    /\ garbled' = TRUE
    /\ \/ UNCHANGED trackerVars
       \/ \E stray \in DataFrames : stray.no = 0 /\ TrackData(stray, FALSE)
       \/ \E r \in Requests : TrackRequest(r)
       \/ \E r \in Requests, dcid \in Cid, accepted \in BOOLEAN : TrackResponse(r, dcid, accepted)

LEMMA StraysAre ==
    ASSUME NEW frame \in DataFrames, NEW stray \in Strays(frame), Track(stray, FALSE)
    PROVE  \/ \E x \in DataFrames : x.no = 0 /\ TrackData(x, FALSE)
           \/ \E r \in Requests : TrackRequest(r)
           \/ \E r \in Requests, dcid \in Cid, accepted \in BOOLEAN :
                 TrackResponse(r, dcid, accepted)
<1> DEFINE Data == {f \in [kind : {"data"}, chan : {frame.chan}, fmp : BOOLEAN, no : {0}, cid : Cid] :
                      f.fmp => f.chan.psm = "fips"}
           Asks == [kind : {"request"}, request : Requests]
           Answers == [kind : {"response"}, request : Requests, dcid : Cid, accepted : BOOLEAN]
<1>0. stray \in Data \/ stray \in Asks \/ stray \in Answers BY DEF Strays, Commands
<1>1. CASE stray \in Data
  <2>1. /\ stray \in [kind : {"data"}, chan : {frame.chan}, fmp : BOOLEAN, no : {0}, cid : Cid]
        /\ stray.fmp => stray.chan.psm = "fips"
        BY <1>1
  <2>2. frame.chan \in Channels BY DEF DataFrames
  <2>3. stray \in [kind : {"data"}, chan : Channels, fmp : BOOLEAN, no : Nat, cid : Cid]
        BY <2>1, <2>2
  <2>4. stray \in DataFrames BY <2>1, <2>3 DEF DataFrames
  <2>5. stray.no = 0 /\ stray.kind = "data" BY <2>1
  <2>6. TrackData(stray, FALSE) BY <2>5 DEF Track
  <2> QED BY <2>4, <2>5, <2>6
<1>2. CASE stray \in Asks
  <2>1. stray.kind = "request" /\ stray.request \in Requests BY <1>2
  <2> QED BY <2>1 DEF Track
<1>3. CASE stray \in Answers
  <2>1. /\ stray.kind = "response" /\ stray.request \in Requests
        /\ stray.dcid \in Cid /\ stray.accepted \in BOOLEAN
        BY <1>3
  <2>2. TrackResponse(stray.request, stray.dcid, stray.accepted) BY <2>1 DEF Track
  <2> QED BY <2>1, <2>2
<1> HIDE DEF Data, Asks, Answers
<1> QED BY <1>0, <1>1, <1>2, <1>3

Flag(side, i) == PbFlag(side = "local", i)

Reads(h, side, a, last) ==
    /\ buffers' \in [Handle -> Seq(Units)] /\ lost' = lost
    /\ \A g \in Handle : g # h => buffers'[g] = buffers[g]
    /\ Numbers(buffers'[h]) \subseteq Numbers(buffers[h]) \cup {a.frame.no}
    /\ \/ NothingRead
       \/ \E frame \in HostFrames, intact \in BOOLEAN :
             /\ frame.no \in Numbers(buffers[h]) \cup {a.frame.no}
             /\ FrameRead(frame, intact)
       \/ StrayRead
    /\ \E fed \in Feed(buffers[h], Piece(a.frame, a.size, a.next, last), Flag(side, a.next)) :
         /\ buffers'[h] = fed.buf
         /\ fed.out = << >> => log' = log
         /\ fed.out = <<FrameUnits(a.frame, a.size)>> => log' = Append(log, Entry(a.frame, TRUE))

LEMMA DataRead ==
    ASSUME CaptureTypeOK, NEW h \in Handle, NEW side \in Side,
           NEW a \in Transports, a.frame \in HostFrames, NEW last \in a.next .. a.size,
           Record(h, SubSeq(FrameUnits(a.frame, a.size), a.next, last), side)
    PROVE  Reads(h, side, a, last)
<1> DEFINE f == FrameUnits(a.frame, a.size)
           g == Piece(a.frame, a.size, a.next, last)
           numbers == Numbers(buffers[h]) \cup {a.frame.no}
           S == {u \in Units : u.frame.no \in numbers}
<1>0. /\ a.size \in Nat /\ a.size \in Size /\ a.next \in 1 .. a.size
      /\ 1 \in 1 .. a.size
  <2>1. a.size \in Size /\ a.next \in Nat \ {0} BY DEF Transports
  <2>2. a.size \in Nat BY <2>1, AclAssumption
  <2>3. last \in Int /\ a.next <= last /\ last <= a.size BY <2>1, <2>2
  <2> QED BY <2>1, <2>2, <2>3
<1>1. /\ g \in Seq(UnitsOf(a.frame, a.size)) /\ g # << >>
      /\ Head(g) = Unit(a.frame, a.size, a.next)
      BY <1>0, PieceIs
<1>2. /\ f \in Seq(UnitsOf(a.frame, a.size)) /\ Len(f) = a.size
      /\ f[1] = Unit(a.frame, a.size, 1)
      BY <1>0, UnitsAre
<1>3. buffers[h] \in Seq(Units) /\ buffers \in [Handle -> Seq(Units)] BY DEF CaptureTypeOK
<1>4. g \in Seq(S) /\ buffers[h] \in Seq(S)
  <2>1. UnitsOf(a.frame, a.size) \subseteq S BY <1>0 DEF UnitsOf, Units
  <2>2. g \in Seq(S)
    <3> HIDE DEF g, S
    <3> QED BY <1>1, <2>1, SeqMonotonic
  <2>3. \A x \in 1 .. Len(buffers[h]) : buffers[h][x] \in S
    <3>1. SUFFICES ASSUME NEW x \in 1 .. Len(buffers[h]) PROVE buffers[h][x] \in S
          OBVIOUS
    <3>2. buffers[h][x] \in Units BY <1>3
    <3>3. buffers[h][x].frame.no \in Numbers(buffers[h]) BY DEF Numbers
    <3> QED BY <3>2, <3>3
  <2>4. buffers[h] \in Seq(S)
    <3> HIDE DEF S
    <3>1. buffers[h] = [x \in 1 .. Len(buffers[h]) |-> buffers[h][x]] BY <1>3
    <3>2. Len(buffers[h]) \in Nat BY <1>3
    <3> QED BY <2>3, <3>1, <3>2, SeqDef
  <2> QED BY <2>2, <2>4
<1>5. SubSeq(f, a.next, last) = g BY DEF Piece
<1>6. f # << >> /\ Head(f) = Unit(a.frame, a.size, 1) BY <1>0, <1>2
<1> HIDE DEF f, g
<1>7. PICK fed \in Feed(buffers[h], g, Flag(side, Head(g).i)) :
        /\ buffers' = [buffers EXCEPT ![h] = fed.buf]
        /\ IF fed.out = << >> THEN UNCHANGED <<trackerVars, garbled>> ELSE Read(Head(fed.out))
      BY <1>5 DEF Record, Flag, f
<1>8. Head(g).i = a.next BY <1>1 DEF Unit
<1>9. fed \in Feed(buffers[h], g, Flag(side, a.next)) BY <1>7, <1>8, Zenon
<1>10. /\ fed.buf \in Seq(S)
       /\ fed.out # << >> => Head(Head(fed.out)) \in S
  <2>1. \A u \in S : u.size \in Nat \ {0} BY AclAssumption DEF Units
  <2> HIDE DEF S
  <2> QED BY <1>1, <1>4, <1>7, <2>1, FedFrom
<1>11. /\ buffers' \in [Handle -> Seq(Units)] /\ buffers'[h] = fed.buf
       /\ \A x \in Handle : x # h => buffers'[x] = buffers[x]
  <2>1. S \subseteq Units OBVIOUS
  <2>2. fed.buf \in Seq(Units)
    <3> HIDE DEF S
    <3> QED BY <1>10, <2>1, SeqMonotonic
  <2> QED BY <1>3, <1>7, <2>2
<1>12. Numbers(buffers'[h]) \subseteq numbers
  <2>1. \A x \in 1 .. Len(fed.buf) : fed.buf[x] \in S
    <3> HIDE DEF S
    <3> QED BY <1>10
  <2> QED BY <1>11, <2>1 DEF Numbers
<1>13. lost' = lost BY DEF Record
<1>14. CASE fed.out = << >>
  <2>1. NothingRead BY <1>7, <1>14, Zenon DEF NothingRead
  <2>2. log' = log BY <2>1 DEF NothingRead, trackerVars
  <2>3. fed.out # <<f>> BY <1>14
  <2> QED BY <1>9, <1>11, <1>12, <1>13, <2>1, <2>2, <2>3, Zenon DEF f, g, Reads
<1>15. CASE fed.out # << >>
  <2> DEFINE units == Head(fed.out)
             frame == Head(units).frame
             intact == units = FrameUnits(frame, Head(units).size)
  <2>1. Read(units) BY <1>7, <1>15, Zenon
  <2>2. frame \in HostFrames /\ frame.no \in numbers /\ intact \in BOOLEAN
        BY <1>10, <1>15 DEF Units
  <2>3. frame \in DataFrames /\ frame.kind = "data" BY <2>2 DEF HostFrames, DataFrames
  <2>4. CASE Head(units).i = 1
    <3>1. Track(frame, intact) /\ garbled' = (garbled \/ Belated(frame))
          BY <2>1, <2>4, Zenon DEF Read
    <3>2. fed.out = <<f>> => frame = a.frame /\ intact = TRUE
      <4>1. SUFFICES ASSUME fed.out = <<f>> PROVE frame = a.frame /\ intact = TRUE
            OBVIOUS
      <4>2. units = f BY <4>1
      <4>3. Head(units).frame = a.frame /\ Head(units).size = a.size BY <1>6, <4>2 DEF Unit
      <4>4. intact BY <4>2, <4>3 DEF f
      <4> QED BY <4>3, <4>4
    <3> HIDE DEF frame, intact
    <3>3. TrackData(frame, intact) BY <2>3, <3>1 DEF Track
    <3>4. garbled' = (garbled \/ frame.chan \notin channels) BY <2>3, <3>1 DEF Belated
    <3>5. FrameRead(frame, intact) BY <3>3, <3>4 DEF FrameRead
    <3>6. log' = Append(log, Entry(frame, intact)) BY <3>3, Zenon DEF TrackData, Entry
    <3>7. fed.out = <<f>> => log' = Append(log, Entry(a.frame, TRUE)) BY <3>2, <3>6, Zenon
    <3>8. \E x \in HostFrames, y \in BOOLEAN : x.no \in numbers /\ FrameRead(x, y)
          BY <2>2, <3>5, Zenon DEF frame, intact
    <3> QED BY <1>9, <1>11, <1>12, <1>13, <1>15, <3>7, <3>8, Zenon DEF f, g, Reads
  <2>5. CASE Head(units).i # 1
    <3>1. /\ garbled' = TRUE
          /\ UNCHANGED trackerVars \/ \E stray \in Strays(frame) : Track(stray, FALSE)
          BY <2>1, <2>5, Zenon DEF Read
    <3>2. fed.out # <<f>>
      <4>1. Head(f).i = 1 BY <1>6 DEF Unit
      <4> QED BY <2>5, <4>1
    <3> HIDE DEF units, frame, intact
    <3>3. StrayRead BY <2>3, <3>1, StraysAre DEF StrayRead
    <3> QED BY <1>9, <1>11, <1>12, <1>13, <1>15, <3>2, <3>3, Zenon DEF f, g, Reads
  <2> QED BY <2>4, <2>5
<1> QED BY <1>14, <1>15
-----------------------------------------------------------------------------
(* What a fragment leaves of the frames *)

\* Feeding h with numbers N leaves and reads only what was there or came.
Feeds(h, N) ==
    /\ frames' = frames
    /\ \/ log' = log
       \/ \E e \in Entries : /\ log' = Append(log, e)
                             /\ e.frame.no \in {0} \cup N \cup Numbers(buffers[h])
    /\ \A g \in Handle : g # h => buffers'[g] = buffers[g]
    /\ Numbers(buffers'[h]) \subseteq N \cup Numbers(buffers[h])

\* No frame starts; the other side of h is whole only if it has not begun, or
\* nothing was recorded.
Moves(h, side) ==
    \A g \in Handle, t \in Side : air'[g][t] # None =>
        /\ air[g][t] # None
        /\ air'[g][t].frame = air[g][t].frame /\ air'[g][t].size = air[g][t].size
        /\ air'[g][t].whole => air[g][t].whole
        /\ g # h \/ t # side =>
              /\ air'[g][t].next = air[g][t].next
              /\ air'[g][t].whole /\ g = h => air[g][t].next = 1 \/ UNCHANGED <<buffers, log>>

\* What is left of the frame of h and side, if it is whole, is in the buffer.
Holds(h, side) ==
    air'[h][side] # None =>
        /\ air'[h][side].next > 1 /\ air'[h][side].next <= air'[h][side].size
        /\ air'[h][side].whole =>
              /\ log' = log
              /\ HoldsFirst(buffers'[h], air'[h][side].frame, air'[h][side].size,
                            air'[h][side].next - 1)

LEMMA FramesKept ==
    ASSUME CaptureTypeOK, FrameInv, NEW h \in Handle, NEW side \in Side, NEW N,
           \A n \in N : air[h][side] # None /\ n = air[h][side].frame.no,
           Feeds(h, N), Moves(h, side), Holds(h, side),
           \A g \in Handle, t \in Side : air'[g][t] # None => air'[g][t].frame.chan \in channels'
    PROVE  /\ AirInv' /\ NumberInv' /\ AloneInv'
           /\ \A f \in captured : ReadOnce(f)' /\ GoneAt(f)'
<1>1. /\ \A g \in Handle, t \in Side : AirAt(g, air[g][t], buffers[g], channels, frames)
      /\ LogNumbers \subseteq 0 .. frames
      /\ \A g \in Handle : Numbers(buffers[g]) \subseteq 0 .. frames
      /\ frames \in Nat /\ log \in Seq(Entries) /\ Len(log) \in Nat
      BY DEF FrameInv, AirInv, NumberInv, CaptureTypeOK, TrackerTypeOK
<1>2. /\ \A n \in N : n \in 0 .. frames
      /\ frames' = frames
      BY <1>1 DEF AirAt, Feeds
<1>3. /\ LogNumbers' \subseteq LogNumbers \cup {0} \cup N \cup Numbers(buffers[h])
      /\ Len(log') >= Len(log) /\ Len(log') \in Nat
      /\ \A j \in 1 .. Len(log) : log'[j] = log[j]
      /\ \A j \in 1 .. Len(log') : j \notin 1 .. Len(log) =>
            log'[j].frame.no \in {0} \cup N \cup Numbers(buffers[h])
  <2>1. CASE log' = log BY <1>1, <2>1 DEF LogNumbers
  <2>2. CASE log' # log
    <3>1. PICK e \in Entries : /\ log' = Append(log, e)
                               /\ e.frame.no \in {0} \cup N \cup Numbers(buffers[h])
          BY <2>2 DEF Feeds
    <3>2. /\ Len(log') = Len(log) + 1
          /\ \A j \in 1 .. Len(log) : log'[j] = log[j]
          /\ log'[Len(log) + 1] = e
          BY <1>1, <3>1, LogGrows
    <3>3. \A j \in 1 .. Len(log') : j \in 1 .. Len(log) \/ j = Len(log) + 1
          BY <1>1, <3>2
    <3> QED BY <1>1, <3>1, <3>2, <3>3 DEF LogNumbers
  <2> QED BY <2>1, <2>2
<1>4. NumberInv'
  <2>1. ASSUME NEW g \in Handle PROVE Numbers(buffers'[g]) \subseteq 0 .. frames
        BY <1>1, <1>2 DEF Feeds
  <2>2. LogNumbers' \subseteq 0 .. frames BY <1>1, <1>2, <1>3
  <2> QED BY <1>2, <2>1, <2>2 DEF NumberInv, Numbers
<1>5. AirInv'
  <2>1. SUFFICES ASSUME NEW g \in Handle, NEW t \in Side, air'[g][t] # None
                 PROVE  AirAt(g, air'[g][t], buffers'[g], channels', frames)
        BY <1>2 DEF AirInv, AirAt
  <2>2. /\ air[g][t] # None /\ AirAt(g, air[g][t], buffers[g], channels, frames)
        /\ air'[g][t].frame = air[g][t].frame /\ air'[g][t].size = air[g][t].size
        /\ air'[g][t].whole => air[g][t].whole
        BY <1>1, <2>1 DEF Moves
  <2>3. CASE g = h /\ t = side BY <2>1, <2>2, <2>3 DEF AirAt, Holds
  <2>4. CASE ~(g = h /\ t = side)
    <3>1. /\ air'[g][t].next = air[g][t].next
          /\ air'[g][t].whole /\ g = h => air[g][t].next = 1 \/ UNCHANGED <<buffers, log>>
          BY <2>1, <2>4 DEF Moves
    <3>2. g # h => buffers'[g] = buffers[g] BY DEF Feeds
    <3>3. air'[g][t].whole /\ air'[g][t].next > 1 => buffers'[g] = buffers[g]
          BY <3>1, <3>2
    <3> QED BY <2>1, <2>2, <3>1, <3>3 DEF AirAt
  <2> QED BY <2>3, <2>4
<1>6. AloneInv'
  <2>1. SUFFICES ASSUME NEW g \in Handle, NEW t \in Side, air'[g][t] # None, air'[g][t].whole
                 PROVE  /\ air'[g][t].frame.no \notin LogNumbers'
                        /\ \A x \in Handle : air'[g][t].frame.no \in Numbers(buffers'[x]) =>
                              x = g /\ air'[g][t].next > 1
                        /\ \A x \in Handle, y \in Side :
                              air'[x][y] # None /\ air'[x][y].frame.no = air'[g][t].frame.no =>
                                x = g /\ y = t
        BY DEF AloneInv, AloneAt, Numbers
  <2> DEFINE no == air[g][t].frame.no
  <2>2. /\ air[g][t] # None /\ air[g][t].whole /\ air'[g][t].frame.no = no /\ no # 0
        /\ air[g][t].frame = air'[g][t].frame
        BY <1>1, <2>1 DEF Moves, AirAt
  <2>3. /\ no \notin LogNumbers
        /\ \A x \in Handle : no \in Numbers(buffers[x]) => x = g /\ air[g][t].next > 1
        /\ \A x \in Handle, y \in Side :
              air[x][y] # None /\ air[x][y].frame.no = no => x = g /\ y = t
        BY <2>2, ZenonT(40) DEF FrameInv, AloneInv, AloneAt
  <2>4. \A x \in Handle, y \in Side :
          air'[x][y] # None /\ air'[x][y].frame.no = no => x = g /\ y = t
        BY <2>3 DEF Moves
  <2> HIDE DEF no
  <2>5. CASE g = h /\ t = side
    <3>1. log' = log /\ air'[h][side].next > 1 BY <2>1, <2>5 DEF Holds
    <3>2. LogNumbers' = LogNumbers BY <3>1 DEF LogNumbers
    <3>3. \A x \in Handle : no \in Numbers(buffers'[x]) => x = g
          BY <2>3, <2>5 DEF Feeds
    <3> QED BY <2>2, <2>3, <2>4, <2>5, <3>1, <3>2, <3>3
  <2>6. CASE ~(g = h /\ t = side)
    <3>1. no \notin N BY <2>3, <2>6 DEF no
    <3>2. /\ air'[g][t].next = air[g][t].next
          /\ g = h => air[g][t].next = 1 \/ UNCHANGED <<buffers, log>>
          BY <2>1, <2>6 DEF Moves
    <3>3. CASE UNCHANGED <<buffers, log>>
          BY <2>2, <2>3, <2>4, <3>2, <3>3 DEF LogNumbers
    <3>4. CASE ~UNCHANGED <<buffers, log>>
      <4>1. no \notin Numbers(buffers[h])
        <5>1. AirAt(g, air[g][t], buffers[g], channels, frames) BY <1>1
        <5> QED BY <2>3, <3>2, <3>4
      <4>2. no \notin LogNumbers' BY <1>3, <2>2, <2>3, <3>1, <4>1
      <4>3. \A x \in Handle : no \in Numbers(buffers'[x]) => x = g /\ air'[g][t].next > 1
            BY <2>3, <3>1, <3>2, <4>1 DEF Feeds
      <4> QED BY <2>2, <2>4, <4>2, <4>3
    <3> QED BY <3>3, <3>4
  <2> QED BY <2>5, <2>6
<1>7. ASSUME NEW f \in captured PROVE ReadOnce(f)' /\ GoneAt(f)'
  <2>1. /\ f.no \in 1 .. frames
        /\ \A g \in Handle : f.no \notin Numbers(buffers[g])
        /\ \A g \in Handle, t \in Side : air[g][t] # None => air[g][t].frame.no # f.no
        BY DEF FrameInv, ReadInv, GoneAt
  <2>2. f.no \notin {0} \cup N \cup Numbers(buffers[h]) BY <1>1, <2>1
  <2>3. PICK j \in 1 .. Len(log) :
          /\ log[j].frame = f /\ log[j].intact
          /\ \A k \in 1 .. Len(log) : log[k].frame.no = f.no => k = j
        BY DEF FrameInv, ReadInv, ReadOnce
  <2>4. j \in 1 .. Len(log') BY <1>1, <1>3
  <2>5. \A k \in 1 .. Len(log') : log'[k].frame.no = f.no => k = j BY <1>3, <2>2, <2>3
  <2>6. log'[j].frame = f /\ log'[j].intact BY <1>3, <2>3
  <2>7. ReadOnce(f)' BY <2>4, <2>5, <2>6 DEF ReadOnce
  <2>8. \A g \in Handle : f.no \notin Numbers(buffers'[g]) BY <2>1, <2>2 DEF Feeds
  <2>9. \A g \in Handle, t \in Side : air'[g][t] # None => air'[g][t].frame.no # f.no
        BY <2>1 DEF Moves
  <2>10. GoneAt(f)' BY <1>2, <2>1, <2>8, <2>9 DEF GoneAt, Numbers
  <2> QED BY <2>7, <2>10
<1> QED BY <1>4, <1>5, <1>6, <1>7

LEMMA CutIs ==
    ASSUME NEW a \in Transports \cup {None}
    PROVE  /\ Cut(a) \in Transports \cup {None}
           /\ a = None => Cut(a) = None
           /\ a # None =>
                /\ Cut(a) # None /\ Cut(a).frame = a.frame /\ Cut(a).size = a.size
                /\ Cut(a).next = a.next
                /\ Cut(a).whole => a.whole /\ a.next = 1
<1>1. CASE a = None BY <1>1 DEF Cut
<1>2. CASE a # None
  <2>1. a \in Transports BY <1>2
  <2>2. a.next \in Nat \ {0} BY <2>1 DEF Transports
  <2>3. CASE a.next > 1
    <3>1. Cut(a) = [a EXCEPT !.whole = FALSE] BY <1>2, <2>3 DEF Cut
    <3>2. Cut(a) \in Transports BY <2>1, <3>1 DEF Transports
    <3>3. /\ Cut(a).frame = a.frame /\ Cut(a).size = a.size
          /\ Cut(a).next = a.next /\ ~Cut(a).whole
          BY <2>1, <3>1 DEF Transports
    <3> QED BY <1>2, <3>2, <3>3, CaptureAssumption
  <2>4. CASE ~(a.next > 1)
    <3>1. Cut(a) = a /\ a.next = 1 BY <2>2, <2>4 DEF Cut
    <3> QED BY <1>2, <2>1, <3>1
  <2> QED BY <2>3, <2>4
<1> QED BY <1>1, <1>2

\* The frames under way after a fragment of one side.
LEMMA WriteMoves ==
    ASSUME CaptureTypeOK, NEW h \in Handle, NEW side \in Side, NEW seen \in BOOLEAN,
           NEW rest \in Transports \cup {None},
           air' = [air EXCEPT ![h] =
                     [s \in Side |-> IF s = side THEN rest ELSE IF seen THEN Cut(@[s]) ELSE @[s]]],
           seen \/ UNCHANGED <<buffers, log>>,
           rest # None => /\ air[h][side] # None /\ rest.frame = air[h][side].frame
                          /\ rest.size = air[h][side].size
                          /\ rest.whole => air[h][side].whole
    PROVE  /\ air' \in [Handle -> [Side -> Transports \cup {None}]]
           /\ air'[h][side] = rest
           /\ Moves(h, side)
<1> DEFINE new == [s \in Side |-> IF s = side THEN rest
                                  ELSE IF seen THEN Cut(air[h][s]) ELSE air[h][s]]
<1>1. air \in [Handle -> [Side -> Transports \cup {None}]] BY DEF CaptureTypeOK
<1>2. \A s \in Side : air[h][s] \in Transports \cup {None} BY <1>1
<1>3. air' = [air EXCEPT ![h] = new] BY <1>1
<1>4. /\ new[side] = rest
      /\ \A s \in Side : s # side => new[s] = IF seen THEN Cut(air[h][s]) ELSE air[h][s]
      OBVIOUS
<1>5. new \in [Side -> Transports \cup {None}]
  <2>1. \A s \in Side : new[s] \in Transports \cup {None} BY <1>2, <1>4, CutIs
  <2> QED BY <2>1
<1> HIDE DEF new
<1>6. /\ air'[h] = new
      /\ \A g \in Handle : g # h => air'[g] = air[g]
      BY <1>1, <1>3
<1>7. air' \in [Handle -> [Side -> Transports \cup {None}]] BY <1>1, <1>3, <1>5
<1>8. Moves(h, side)
  <2>1. SUFFICES ASSUME NEW g \in Handle, NEW t \in Side, air'[g][t] # None
                 PROVE  /\ air[g][t] # None
                        /\ air'[g][t].frame = air[g][t].frame /\ air'[g][t].size = air[g][t].size
                        /\ air'[g][t].whole => air[g][t].whole
                        /\ g # h \/ t # side =>
                              /\ air'[g][t].next = air[g][t].next
                              /\ air'[g][t].whole /\ g = h =>
                                    air[g][t].next = 1 \/ UNCHANGED <<buffers, log>>
        BY Zenon DEF Moves
  <2>2. CASE g # h BY <1>6, <2>1, <2>2
  <2>3. CASE g = h /\ t = side BY <1>4, <1>6, <2>1, <2>3
  <2>4. CASE g = h /\ t # side
    <3>1. air'[g][t] = IF seen THEN Cut(air[h][t]) ELSE air[h][t] BY <1>4, <1>6, <2>4
    <3>2. air[h][t] \in Transports \cup {None} BY <1>2
    <3>3. CASE seen BY <2>1, <2>4, <3>1, <3>2, <3>3, CutIs
    <3>4. CASE ~seen BY <2>1, <2>4, <3>1, <3>4
    <3> QED BY <3>3, <3>4
  <2> QED BY <2>2, <2>3, <2>4
<1> QED BY <1>4, <1>6, <1>7, <1>8

-----------------------------------------------------------------------------
(* What a frame leaves of the tables *)

LEMMA RequestTracked ==
    ASSUME TrackerTypeOK, BlankInv, NEW r \in Requests, TrackRequest(r)
    PROVE  /\ TrackerTypeOK' /\ BlankInv' /\ active' = active /\ log' = log
           /\ \A c \in Cid : pending'[c] = IF c = r.scid THEN r.psm ELSE pending[c]
           /\ \A i \in Ident : ident_to_scid'[i] = IF i = r.ident THEN r.scid ELSE ident_to_scid[i]
<1>1. r.scid \in Cid /\ r.ident \in Ident /\ r.psm \in Psm BY DEF Requests
<1>2. /\ pending' = [pending EXCEPT ![r.scid] = r.psm]
      /\ ident_to_scid' = [ident_to_scid EXCEPT ![r.ident] = r.scid]
      /\ active' = active /\ log' = log
      BY DEF TrackRequest
<1>3. TrackerTypeOK' BY <1>1, <1>2 DEF TrackerTypeOK
<1>4. BlankInv' BY <1>2 DEF BlankInv
<1> QED BY <1>1, <1>2, <1>3, <1>4 DEF TrackerTypeOK

LEMMA ResponseTracked ==
    ASSUME TrackerTypeOK, BlankInv, NEW r \in Requests, NEW dcid \in Cid, NEW accepted \in BOOLEAN,
           TrackResponse(r, dcid, accepted)
    PROVE  TrackerTypeOK' /\ BlankInv' /\ log' = log
<1> DEFINE named == Named(r.h, r.ident, r.scid)
<1>1. r.scid \in Cid /\ r.ident \in Ident BY DEF Requests
<1>2. /\ ident_to_scid' = [ident_to_scid EXCEPT ![r.ident] = None]
      /\ pending' = [c \in Cid |-> IF c = named THEN None ELSE pending[c]]
      /\ active' = IF accepted /\ named # None
                   THEN [c \in Cid |-> IF c \in Entered(r.h, named, r.scid, dcid)
                                       THEN pending[named] ELSE active[c]]
                   ELSE active
      /\ log' = log
      BY DEF TrackResponse, PopIdent
<1>3. named = None \/ (named \in Cid /\ pending[named] # None)
      BY <1>1 DEF Named, TrackerTypeOK
<1> HIDE DEF named
<1>4. active' \in [Cid -> Psm \cup {None}] BY <1>2, <1>3 DEF TrackerTypeOK
<1>5. TrackerTypeOK' BY <1>1, <1>2, <1>4 DEF TrackerTypeOK
<1>6. \A c \in Cid : active'[c] = None => active[c] = None BY <1>2, <1>3
<1>7. BlankInv' BY <1>2, <1>6 DEF BlankInv
<1> QED BY <1>2, <1>5, <1>7

LEMMA DataTracked ==
    ASSUME TrackerTypeOK, BlankInv, NEW frame \in DataFrames, NEW intact \in BOOLEAN,
           TrackData(frame, intact)
    PROVE  /\ TrackerTypeOK' /\ BlankInv' /\ log' = Append(log, Entry(frame, intact))
           /\ pending' = pending /\ active' = active /\ ident_to_scid' = ident_to_scid
<1> DEFINE e == Entry(frame, intact)
<1>1. /\ log' = Append(log, e) /\ pending' = pending /\ active' = active
      /\ ident_to_scid' = ident_to_scid
      BY Zenon DEF TrackData, Entry
<1>2. e \in Entries /\ (e.fips <=> active[frame.cid] = "fips") BY EntryIs
<1> HIDE DEF e
<1>3. log \in Seq(Entries) BY DEF TrackerTypeOK
<1>4. /\ log' \in Seq(Entries) /\ Len(log') = Len(log) + 1
      /\ \A j \in 1 .. Len(log) : log'[j] = log[j]
      /\ log'[Len(log) + 1] = e
      BY <1>1, <1>2, <1>3, LogGrows
<1>5. TrackerTypeOK' BY <1>1, <1>4 DEF TrackerTypeOK
<1>6. BlankInv'
  <2>1. SUFFICES ASSUME \A c \in Cid : active[c] = None, NEW j \in 1 .. Len(log')
                 PROVE  ~log'[j].fips
        BY <1>1 DEF BlankInv
  <2>2. Len(log) \in Nat BY <1>3
  <2>3. j \in 1 .. Len(log) \/ j = Len(log) + 1 BY <1>4, <2>2
  <2>4. frame.cid \in Cid BY DEF DataFrames
  <2>5. None # "fips" BY CocAssumption
  <2>6. ~e.fips BY <1>2, <2>1, <2>4, <2>5
  <2> QED BY <1>4, <2>1, <2>3, <2>6 DEF BlankInv
<1> QED BY <1>1, <1>5, <1>6 DEF e

\* The response to an outstanding request, when requests can be told apart,
\* finds that request and no other.
LEMMA Answered ==
    ASSUME CaptureTypeOK, RequestInv, ~crossed, ~garbled, NEW r \in requests, NEW dcid \in Cid,
           NEW accepted \in BOOLEAN, TrackResponse(r, dcid, accepted)
    PROVE  /\ r.setup # "seen" => /\ pending' = pending /\ active' = active
                                  /\ ident_to_scid' = ident_to_scid
           /\ r.setup = "seen" =>
                /\ \A i \in Ident : ident_to_scid'[i] = IF i = r.ident THEN None ELSE ident_to_scid[i]
                /\ \A c \in Cid : pending'[c] = IF c = r.scid THEN None ELSE pending[c]
                /\ \A c \in Cid : active'[c] = IF accepted /\ c \in {dcid, r.scid}
                                               THEN r.psm ELSE active[c]
<1> DEFINE named == Named(r.h, r.ident, r.scid)
<1>1. /\ r \in Requests /\ r.scid \in Cid /\ r.ident \in Ident /\ r.psm \in Psm
      /\ TrackerTypeOK
      BY DEF CaptureTypeOK, Requests
<1>2. r.psm # None /\ r.scid # None /\ None \notin Cid BY <1>1, CocAssumption
<1>3. /\ \A q \in requests \cup unanswered : r.ident = q.ident \/ r.scid = q.scid => r = q
      /\ r.setup = "seen" => ident_to_scid[r.ident] = r.scid /\ pending[r.scid] = r.psm
      /\ ident_to_scid[r.ident] # None => \E q \in Known : q.ident = r.ident
      /\ pending[r.scid] # None => \E q \in Known : q.scid = r.scid
      BY <1>1 DEF RequestInv
<1>4. /\ ident_to_scid' = [ident_to_scid EXCEPT ![r.ident] = None]
      /\ pending' = [c \in Cid |-> IF c = named THEN None ELSE pending[c]]
      /\ active' = IF accepted /\ named # None
                   THEN [c \in Cid |-> IF c \in Entered(r.h, named, r.scid, dcid)
                                       THEN pending[named] ELSE active[c]]
                   ELSE active
      BY DEF TrackResponse, PopIdent
<1>5. CASE r.setup # "seen"
  <2>1. ident_to_scid[r.ident] = None /\ pending[r.scid] = None BY <1>3, <1>5 DEF Known
  <2>2. named = None BY <2>1 DEF Named
  <2> HIDE DEF named
  <2>3. pending' = pending BY <1>1, <1>2, <1>4, <2>2 DEF TrackerTypeOK
  <2>4. ident_to_scid' = ident_to_scid BY <1>1, <1>4, <2>1 DEF TrackerTypeOK
  <2>5. active' = active BY <1>4, <2>2
  <2> QED BY <1>5, <2>3, <2>4, <2>5
<1>6. CASE r.setup = "seen"
  <2>1. named = r.scid BY <1>2, <1>3, <1>6 DEF Named
  <2>2. Entered(r.h, named, r.scid, dcid) = {dcid, r.scid} BY <2>1 DEF Entered
  <2> HIDE DEF named
  <2>3. \A i \in Ident : ident_to_scid'[i] = IF i = r.ident THEN None ELSE ident_to_scid[i]
        BY <1>1, <1>4 DEF TrackerTypeOK
  <2>4. \A c \in Cid : active'[c] = IF accepted /\ c \in {dcid, r.scid} THEN r.psm ELSE active[c]
        BY <1>1, <1>2, <1>3, <1>4, <1>6, <2>1, <2>2 DEF TrackerTypeOK
  <2> QED BY <1>4, <1>6, <2>1, <2>3, <2>4
<1> QED BY <1>5, <1>6

-----------------------------------------------------------------------------
(* The steps of signalling *)

\* A command disturbs no frame, and is read if it is recorded.
LEMMA CommandStep ==
    ASSUME CaptureTypeOK, FrameInv, BlankInv, NEW h \in Handle, NEW side \in Side,
           NEW command \in Commands, NEW seen \in BOOLEAN, Command(h, side, command, seen),
           channels \subseteq channels'
    PROVE  /\ frames' = frames /\ captured' = captured /\ lost' \in Nat /\ garbled' = garbled
           /\ air' \in [Handle -> [Side -> Transports \cup {None}]]
           /\ buffers' \in [Handle -> Seq(Units)]
           /\ TrackerTypeOK' /\ FrameInv' /\ BlankInv' /\ log' = log
           /\ ~seen => /\ pending' = pending /\ active' = active
                       /\ ident_to_scid' = ident_to_scid
           /\ seen => /\ command.kind = "request" => TrackRequest(command.request)
                      /\ command.kind = "response" =>
                           TrackResponse(command.request, command.dcid, command.accepted)
<1>1. /\ frames' = frames /\ captured' = captured
      /\ air' = [air EXCEPT ![h] = [s \in Side |->
                   IF s = side THEN None ELSE IF seen THEN Cut(@[s]) ELSE @[s]]]
      /\ IF seen THEN Record(h, FrameUnits(command, 1), side) ELSE Lose
      BY DEF Command, Write
<1>2. /\ lost \in Nat /\ TrackerTypeOK /\ buffers \in [Handle -> Seq(Units)]
      BY DEF CaptureTypeOK
<1>3. /\ lost' \in Nat /\ garbled' = garbled
      /\ ~seen => /\ buffers' = buffers /\ pending' = pending /\ active' = active
                  /\ ident_to_scid' = ident_to_scid /\ log' = log
      /\ seen => /\ buffers' = [buffers EXCEPT ![h] = << >>]
                 /\ command.kind = "request" => TrackRequest(command.request)
                 /\ command.kind = "response" =>
                      TrackResponse(command.request, command.dcid, command.accepted)
  <2>1. CASE seen
    <3>1. Record(h, FrameUnits(command, 1), side) BY <1>1, <2>1
    <3> QED BY <1>2, <2>1, <3>1, CommandRead
  <2>2. CASE ~seen
    <3>1. Lose BY <1>1, <2>2
    <3> QED BY <1>2, <2>2, <3>1 DEF Lose, decoderVars, trackerVars
  <2> QED BY <2>1, <2>2
<1>4. TrackerTypeOK' /\ BlankInv' /\ log' = log
  <2>0. \/ command.kind = "request" /\ command.request \in Requests
        \/ /\ command.kind = "response" /\ command.request \in Requests
           /\ command.dcid \in Cid /\ command.accepted \in BOOLEAN
        BY CommandIs
  <2>1. CASE ~seen BY <1>2, <1>3, <2>1 DEF TrackerTypeOK, BlankInv
  <2>2. CASE seen /\ command.kind = "request" BY <1>2, <1>3, <2>0, <2>2, RequestTracked
  <2>3. CASE seen /\ command.kind = "response" BY <1>2, <1>3, <2>0, <2>3, ResponseTracked
  <2> QED BY <2>0, <2>1, <2>2, <2>3
<1>5. /\ \A g \in Handle : g # h => buffers'[g] = buffers[g]
      /\ buffers' \in [Handle -> Seq(Units)]
      /\ Numbers(buffers'[h]) \subseteq Numbers(buffers[h])
  <2>1. Numbers(<< >>) = {} /\ << >> \in Seq(Units)
    <3>1. << >> \in Seq(Units) /\ Len(<< >>) = 0 OBVIOUS
    <3> QED BY <3>1 DEF Numbers
  <2>2. CASE seen
    <3>1. buffers' = [buffers EXCEPT ![h] = << >>] BY <1>3, <2>2
    <3>2. buffers'[h] = << >> BY <1>2, <3>1
    <3> QED BY <1>2, <2>1, <3>1, <3>2
  <2>3. CASE ~seen BY <1>2, <1>3, <2>3
  <2> QED BY <2>2, <2>3
<1>6. /\ air' \in [Handle -> [Side -> Transports \cup {None}]]
      /\ air'[h][side] = None /\ Moves(h, side)
  <2>1. seen \/ UNCHANGED <<buffers, log>> BY <1>3
  <2>2. None \in Transports \cup {None} /\ (None # None => FALSE) OBVIOUS
  <2> QED BY <1>1, <2>1, <2>2, WriteMoves
<1>7. Feeds(h, {}) BY <1>1, <1>4, <1>5 DEF Feeds
<1>8. Holds(h, side) BY <1>6 DEF Holds
<1>9. \A g \in Handle, t \in Side : air'[g][t] # None => air'[g][t].frame.chan \in channels'
  <2>1. \A g \in Handle, t \in Side : air[g][t] # None => air[g][t].frame.chan \in channels
        BY DEF FrameInv, AirInv, AirAt
  <2> QED BY <1>6, <2>1 DEF Moves
<1>10. /\ AirInv' /\ NumberInv' /\ AloneInv'
       /\ \A f \in captured : ReadOnce(f)' /\ GoneAt(f)'
  <2>1. \A n \in {} : air[h][side] # None /\ n = air[h][side].frame.no OBVIOUS
  <2> QED BY <1>6, <1>7, <1>8, <1>9, <2>1, FramesKept
<1>11. ReadInv' BY <1>1, <1>10 DEF ReadInv
<1> QED BY <1>1, <1>3, <1>4, <1>5, <1>6, <1>10, <1>11 DEF FrameInv

LEMMA RequestStep ==
    ASSUME CaptureInv, NEW h \in Handle, NEW side \in Side, NEW seen \in BOOLEAN,
           Request(h, side, seen)
    PROVE  CaptureInv'
<1>1. PICK psm \in Psm, scid \in Cid,
           i \in Ident :
        LET r == [h |-> h, init |-> side, ident |-> i, psm |-> psm, scid |-> scid,
                  setup |-> IF seen THEN "seen" ELSE "missed"]
        IN  /\ requests' = requests \cup {r}
            /\ crossed' = (crossed \/ \E q \in requests \cup unanswered :
                                         q.ident = i \/ q.scid = scid)
            /\ Command(h, side, [kind |-> "request", request |-> r], seen)
      BY DEF Request
<1> DEFINE r == [h |-> h, init |-> side, ident |-> i, psm |-> psm, scid |-> scid,
                 setup |-> IF seen THEN "seen" ELSE "missed"]
           command == [kind |-> "request", request |-> r]
           again == \E q \in requests \cup unanswered : q.ident = i \/ q.scid = scid
<1>2. /\ requests' = requests \cup {r} /\ crossed' = (crossed \/ again)
      /\ Command(h, side, command, seen)
      BY <1>1
<1>3. /\ setups' = setups + 1 /\ channels' = channels /\ unanswered' = unanswered
      /\ shared' = shared
      BY DEF Request
<1>4. CaptureTypeOK /\ FrameInv /\ TrackInv /\ TrackerTypeOK
      BY DEF CaptureInv, CaptureTypeOK
<1>5. r \in Requests /\ (r.setup = "seen" <=> seen) BY DEF Requests, Setup
<1>6. r.ident = i /\ r.scid = scid /\ r.psm = psm OBVIOUS
<1>7. again \in BOOLEAN OBVIOUS
<1> HIDE DEF r, again
<1>8. command.kind = "request" /\ command.request = r /\ command \in Commands
      BY <1>5 DEF Commands
<1> HIDE DEF command
<1>9. /\ frames' = frames /\ captured' = captured /\ lost' \in Nat /\ garbled' = garbled
      /\ air' \in [Handle -> [Side -> Transports \cup {None}]]
      /\ buffers' \in [Handle -> Seq(Units)]
      /\ TrackerTypeOK' /\ FrameInv' /\ BlankInv' /\ log' = log
      /\ ~seen => /\ pending' = pending /\ active' = active
                  /\ ident_to_scid' = ident_to_scid
      /\ seen => TrackRequest(r)
      BY <1>2, <1>3, <1>4, <1>5, <1>8, CommandStep DEF TrackInv
<1>10. CaptureTypeOK' BY <1>2, <1>3, <1>4, <1>5, <1>7, <1>9 DEF CaptureTypeOK
<1>11. active' = active BY <1>4, <1>5, <1>9, RequestTracked DEF TrackInv
<1>12. crossed' <=> crossed \/ again BY <1>2, <1>4 DEF CaptureTypeOK
<1>13. RequestInv'
  <2>1. SUFFICES ASSUME ~crossed, ~again, ~garbled
                 PROVE  /\ requests' \cap unanswered = {}
                        /\ \A p, q \in requests' \cup unanswered :
                              p.ident = q.ident \/ p.scid = q.scid => p = q
                        /\ \A q \in requests' : q.setup = "seen" =>
                              ident_to_scid'[q.ident] = q.scid /\ pending'[q.scid] = q.psm
                        /\ \A x \in Ident : ident_to_scid'[x] # None =>
                              \E q \in Known' : q.ident = x
                        /\ \A x \in Cid : pending'[x] # None => \E q \in Known' : q.scid = x
        BY <1>3, <1>9, <1>12 DEF RequestInv
  <2>2. /\ requests \cap unanswered = {}
        /\ \A p, q \in requests \cup unanswered : p.ident = q.ident \/ p.scid = q.scid => p = q
        /\ \A q \in requests : q.setup = "seen" =>
              ident_to_scid[q.ident] = q.scid /\ pending[q.scid] = q.psm
        /\ \A x \in Ident : ident_to_scid[x] # None => \E q \in Known : q.ident = x
        /\ \A x \in Cid : pending[x] # None => \E q \in Known : q.scid = x
        BY <1>4, <2>1 DEF TrackInv, RequestInv
  <2>3. \A q \in requests \cup unanswered : q.ident # i /\ q.scid # scid BY <2>1 DEF again
  <2>4. Known \subseteq Known' /\ (seen => r \in Known') BY <1>2, <1>3, <1>5 DEF Known
  <2>5. \A q \in requests : q.ident \in Ident /\ q.scid \in Cid
        BY <1>4 DEF CaptureTypeOK, Requests
  <2>6. CASE seen
    <3>1. /\ \A c \in Cid : pending'[c] = IF c = scid THEN psm ELSE pending[c]
          /\ \A x \in Ident : ident_to_scid'[x] = IF x = i THEN scid ELSE ident_to_scid[x]
          BY <1>4, <1>5, <1>6, <1>9, <2>6, RequestTracked DEF TrackInv
    <3> QED BY <1>2, <1>5, <1>6, <2>2, <2>3, <2>4, <2>5, <2>6, <3>1
  <2>7. CASE ~seen BY <1>2, <1>5, <1>6, <1>9, <2>2, <2>3, <2>4, <2>7
  <2> QED BY <2>6, <2>7
<1>14. ChannelInv' BY <1>3, <1>4, <1>9, <1>11, <1>12 DEF TrackInv, ChannelInv, Followed
<1>15. VerdictInv' BY <1>3, <1>4, <1>9, <1>12 DEF TrackInv, VerdictInv, Followed
<1> QED BY <1>9, <1>10, <1>13, <1>14, <1>15 DEF CaptureInv, TrackInv

\* An answer pops the request it is for, if both are in the capture, and no
\* other.
LEMMA AnswerStep ==
    ASSUME CaptureInv, NEW r \in requests, NEW dcid \in Cid, NEW accepted \in BOOLEAN,
           NEW seen \in BOOLEAN, Answer(r, dcid, accepted, seen), channels \subseteq channels'
    PROVE  /\ frames' = frames /\ captured' = captured /\ lost' \in Nat /\ garbled' = garbled
           /\ air' \in [Handle -> [Side -> Transports \cup {None}]]
           /\ buffers' \in [Handle -> Seq(Units)]
           /\ TrackerTypeOK' /\ FrameInv' /\ BlankInv' /\ log' = log
           /\ ~crossed /\ ~garbled =>
                /\ ~(seen /\ r.setup = "seen") => /\ pending' = pending /\ active' = active
                                                  /\ ident_to_scid' = ident_to_scid
                /\ seen /\ r.setup = "seen" =>
                     /\ \A i \in Ident :
                           ident_to_scid'[i] = IF i = r.ident THEN None ELSE ident_to_scid[i]
                     /\ \A c \in Cid : pending'[c] = IF c = r.scid THEN None ELSE pending[c]
                     /\ \A c \in Cid : active'[c] = IF accepted /\ c \in {dcid, r.scid}
                                                    THEN r.psm ELSE active[c]
<1> DEFINE command == [kind |-> "response", request |-> r, dcid |-> dcid, accepted |-> accepted]
           side == Other(r.init)
<1>1. /\ CaptureTypeOK /\ FrameInv /\ BlankInv /\ RequestInv
      /\ r \in Requests /\ r.h \in Handle /\ side \in Side
      BY DEF CaptureInv, TrackInv, CaptureTypeOK, Requests, Side, Other
<1>2. Command(r.h, side, command, seen) BY DEF Answer
<1>3. /\ command.kind = "response" /\ command.dcid = dcid /\ command.request = r
      /\ command.accepted = accepted /\ command \in Commands
      BY <1>1 DEF Commands
<1> HIDE DEF command, side
<1>4. /\ frames' = frames /\ captured' = captured /\ lost' \in Nat /\ garbled' = garbled
      /\ air' \in [Handle -> [Side -> Transports \cup {None}]]
      /\ buffers' \in [Handle -> Seq(Units)]
      /\ TrackerTypeOK' /\ FrameInv' /\ BlankInv' /\ log' = log
      /\ ~seen => /\ pending' = pending /\ active' = active
                  /\ ident_to_scid' = ident_to_scid
      /\ seen => TrackResponse(r, dcid, accepted)
      BY <1>1, <1>2, <1>3, CommandStep
<1>5. CASE seen /\ ~crossed /\ ~garbled BY <1>1, <1>4, <1>5, Answered
<1>6. CASE ~(seen /\ ~crossed /\ ~garbled) BY <1>4, <1>6
<1> QED BY <1>4, <1>5, <1>6

LEMMA PostponeStep ==
    ASSUME CaptureInv, NEW r \in requests, NEW seen \in BOOLEAN, Postpone(r, seen)
    PROVE  CaptureInv'
<1> DEFINE popped == seen /\ r.setup = "seen"
           new == [r EXCEPT !.setup = "deferred"]
<1>1. /\ Answer(r, r.scid, FALSE, seen)
      /\ requests' = IF popped THEN (requests \ {r}) \cup {new} ELSE requests
      /\ channels' = channels /\ setups' = setups /\ unanswered' = unanswered
      /\ crossed' = crossed /\ shared' = shared
      BY DEF Postpone
<1>2. CaptureTypeOK /\ TrackInv /\ r \in Requests /\ r.scid \in Cid /\ r.ident \in Ident
      BY DEF CaptureInv, CaptureTypeOK, Requests
<1>3. /\ new \in Requests /\ new.ident = r.ident /\ new.scid = r.scid /\ new.setup = "deferred"
      BY <1>2 DEF Requests, Setup
<1>4. popped \in BOOLEAN /\ (popped <=> seen /\ r.setup = "seen") OBVIOUS
<1> HIDE DEF new, popped
<1>5. /\ frames' = frames /\ captured' = captured /\ lost' \in Nat /\ garbled' = garbled
      /\ air' \in [Handle -> [Side -> Transports \cup {None}]]
      /\ buffers' \in [Handle -> Seq(Units)]
      /\ TrackerTypeOK' /\ FrameInv' /\ BlankInv' /\ log' = log
      /\ ~crossed /\ ~garbled =>
           /\ ~popped => /\ pending' = pending /\ active' = active
                         /\ ident_to_scid' = ident_to_scid
           /\ popped =>
                /\ \A i \in Ident :
                      ident_to_scid'[i] = IF i = r.ident THEN None ELSE ident_to_scid[i]
                /\ \A c \in Cid : pending'[c] = IF c = r.scid THEN None ELSE pending[c]
                /\ \A c \in Cid : active'[c] = active[c]
  <2>1. PICK no \in BOOLEAN : no = FALSE OBVIOUS
  <2>2. Answer(r, r.scid, no, seen) /\ channels \subseteq channels' BY <1>1, <2>1, Zenon
  <2>3. ~no BY <2>1
  <2> QED BY <1>2, <1>4, <2>2, <2>3, AnswerStep
<1>6. CaptureTypeOK' BY <1>1, <1>2, <1>3, <1>5 DEF CaptureTypeOK
<1>7. RequestInv'
  <2>1. SUFFICES ASSUME ~crossed, ~garbled PROVE RequestInv'
        BY <1>1, <1>5 DEF RequestInv
  <2>2. /\ requests \cap unanswered = {}
        /\ \A p, q \in requests \cup unanswered : p.ident = q.ident \/ p.scid = q.scid => p = q
        /\ \A q \in requests : q.setup = "seen" =>
              ident_to_scid[q.ident] = q.scid /\ pending[q.scid] = q.psm
        /\ \A x \in Ident : ident_to_scid[x] # None => \E q \in Known : q.ident = x
        /\ \A x \in Cid : pending[x] # None => \E q \in Known : q.scid = x
        BY <1>2, <2>1 DEF TrackInv, RequestInv
  <2>3. CASE ~popped BY <1>1, <1>5, <2>1, <2>2, <2>3 DEF RequestInv, Known
  <2>4. CASE popped
    <3>1. requests' = (requests \ {r}) \cup {new} /\ r.setup = "seen"
          BY <1>1, <1>4, <2>4
    <3>2. \A q \in Known : q # r => q \in Known' BY <1>1, <3>1 DEF Known
    <3>3. \A q \in requests \cup unanswered : q.ident = r.ident \/ q.scid = r.scid => q = r
          BY <2>2
    <3>4. r \notin unanswered BY <2>2
    <3>5. requests' \cap unanswered = {} BY <1>3, <2>2, <3>1, <3>3, <3>4
    <3>6. \A p, q \in requests' \cup unanswered : p.ident = q.ident \/ p.scid = q.scid => p = q
          BY <1>3, <2>2, <3>1, <3>3, <3>4
    <3>7. \A q \in requests' : q.setup = "seen" =>
             ident_to_scid'[q.ident] = q.scid /\ pending'[q.scid] = q.psm
      <4>1. SUFFICES ASSUME NEW q \in requests', q.setup = "seen"
                     PROVE  ident_to_scid'[q.ident] = q.scid /\ pending'[q.scid] = q.psm
            OBVIOUS
      <4>2. q \in requests /\ q # r BY <1>3, <3>1, <4>1
      <4>3. q.ident # r.ident /\ q.scid # r.scid BY <3>3, <4>2
      <4>4. q.ident \in Ident /\ q.scid \in Cid BY <1>2, <4>2 DEF CaptureTypeOK, Requests
      <4> QED BY <1>5, <2>1, <2>2, <2>4, <4>1, <4>2, <4>3, <4>4
    <3>8. \A x \in Ident : ident_to_scid'[x] # None => \E q \in Known' : q.ident = x
          BY <1>5, <2>1, <2>2, <2>4, <3>2
    <3>9. \A x \in Cid : pending'[x] # None => \E q \in Known' : q.scid = x
          BY <1>5, <2>1, <2>2, <2>4, <3>2
    <3> QED BY <1>1, <3>5, <3>6, <3>7, <3>8, <3>9 DEF RequestInv
  <2> QED BY <2>3, <2>4
<1>8. ChannelInv'
  <2>1. SUFFICES ASSUME Followed, NEW c \in channels, c.setup = "seen", NEW x \in Cids(c)
                 PROVE  active'[x] = c.psm
        BY <1>1, <1>5 DEF ChannelInv, Followed
  <2>2. x \in Cid BY <1>2 DEF CaptureTypeOK, Channels, Cids
  <2>3. active[x] = c.psm BY <1>2, <2>1 DEF TrackInv, ChannelInv
  <2> QED BY <1>5, <2>1, <2>2, <2>3 DEF Followed
<1>9. VerdictInv' BY <1>1, <1>2, <1>5 DEF TrackInv, VerdictInv, Followed
<1> QED BY <1>5, <1>6, <1>7, <1>8, <1>9 DEF CaptureInv, TrackInv

\* The tables of requests after the last answer to one.
LEMMA RespondStep ==
    ASSUME CaptureInv, NEW r \in requests, NEW dcid \in Cid, NEW accepted \in BOOLEAN,
           NEW seen \in BOOLEAN, Respond(r, dcid, accepted, seen), channels \subseteq channels',
           channels' \subseteq Channels, shared' \in BOOLEAN
    PROVE  /\ CaptureTypeOK' /\ FrameInv' /\ BlankInv' /\ RequestInv'
           /\ crossed' = crossed /\ garbled' = garbled /\ log' = log
           /\ ~crossed /\ ~garbled =>
                \A c \in Cid : active'[c] = IF /\ seen /\ r.setup = "seen" /\ accepted
                                               /\ c \in {dcid, r.scid}
                                            THEN r.psm ELSE active[c]
<1> DEFINE popped == seen /\ r.setup = "seen"
<1>1. /\ Answer(r, dcid, accepted, seen) /\ requests' = requests \ {r}
      /\ unanswered' = IF r.setup = "seen" /\ ~seen THEN unanswered \cup {r} ELSE unanswered
      /\ setups' = setups /\ crossed' = crossed
      BY DEF Respond
<1>2. CaptureTypeOK /\ TrackInv /\ r \in Requests /\ r.scid \in Cid /\ r.ident \in Ident
      BY DEF CaptureInv, CaptureTypeOK, Requests
<1>3. /\ frames' = frames /\ captured' = captured /\ lost' \in Nat /\ garbled' = garbled
      /\ air' \in [Handle -> [Side -> Transports \cup {None}]]
      /\ buffers' \in [Handle -> Seq(Units)]
      /\ TrackerTypeOK' /\ FrameInv' /\ BlankInv' /\ log' = log
      /\ ~crossed /\ ~garbled =>
           /\ ~popped => /\ pending' = pending /\ active' = active
                         /\ ident_to_scid' = ident_to_scid
           /\ popped =>
                /\ \A i \in Ident :
                      ident_to_scid'[i] = IF i = r.ident THEN None ELSE ident_to_scid[i]
                /\ \A c \in Cid : pending'[c] = IF c = r.scid THEN None ELSE pending[c]
                /\ \A c \in Cid : active'[c] = IF accepted /\ c \in {dcid, r.scid}
                                               THEN r.psm ELSE active[c]
      BY <1>1, AnswerStep
<1>4. CaptureTypeOK' BY <1>1, <1>2, <1>3 DEF CaptureTypeOK
<1>5. RequestInv'
  <2>1. SUFFICES ASSUME ~crossed, ~garbled PROVE RequestInv'
        BY <1>1, <1>3 DEF RequestInv
  <2>2. /\ requests \cap unanswered = {}
        /\ \A p, q \in requests \cup unanswered : p.ident = q.ident \/ p.scid = q.scid => p = q
        /\ \A q \in requests : q.setup = "seen" =>
              ident_to_scid[q.ident] = q.scid /\ pending[q.scid] = q.psm
        /\ \A x \in Ident : ident_to_scid[x] # None => \E q \in Known : q.ident = x
        /\ \A x \in Cid : pending[x] # None => \E q \in Known : q.scid = x
        BY <1>2, <2>1 DEF TrackInv, RequestInv
  <2>3. /\ requests' \cap unanswered' = {}
        /\ requests' \cup unanswered' \subseteq requests \cup unanswered
        BY <1>1, <2>2
  <2>4. \A q \in requests' : q.ident # r.ident /\ q.scid # r.scid BY <1>1, <2>2
  <2>5. \A q \in requests' : q \in requests /\ q.ident \in Ident /\ q.scid \in Cid
        BY <1>1, <1>2 DEF CaptureTypeOK, Requests
  <2>6. \A q \in Known : q # r \/ ~popped => q \in Known' BY <1>1 DEF Known
  <2>7. /\ \A q \in requests' : q.setup = "seen" =>
              ident_to_scid'[q.ident] = q.scid /\ pending'[q.scid] = q.psm
        /\ \A x \in Ident : ident_to_scid'[x] # None => \E q \in Known' : q.ident = x
        /\ \A x \in Cid : pending'[x] # None => \E q \in Known' : q.scid = x
    <3> HIDE DEF popped
    <3>1. CASE popped BY <1>3, <2>1, <2>2, <2>4, <2>5, <2>6, <3>1
    <3>2. CASE ~popped BY <1>3, <2>1, <2>2, <2>5, <2>6, <3>2
    <3> QED BY <3>1, <3>2
  <2> QED BY <2>2, <2>3, <2>7 DEF RequestInv
<1> QED BY <1>1, <1>3, <1>4, <1>5

\* An accepted channel is entered under both its CIDs; another service uses
\* neither.
LEMMA AcceptStep ==
    ASSUME CaptureInv, NEW r \in requests, NEW seen \in BOOLEAN, Accept(r, seen)
    PROVE  CaptureInv'
<1>1. PICK dcid \in Cid :
        LET new == Channel(r, dcid, seen)
        IN  /\ channels' = channels \cup {new}
            /\ shared' = (shared \/ \E c \in channels :
                                       c.psm # new.psm /\ Cids(c) \cap Cids(new) # {})
            /\ Respond(r, dcid, TRUE, seen)
      BY DEF Accept
<1> DEFINE new == Channel(r, dcid, seen)
           clash == \E c \in channels : c.psm # new.psm /\ Cids(c) \cap Cids(new) # {}
<1>2. /\ channels' = channels \cup {new} /\ shared' = (shared \/ clash)
      /\ Respond(r, dcid, TRUE, seen)
      BY <1>1
<1>3. CaptureTypeOK /\ TrackInv /\ r \in Requests BY DEF CaptureInv, CaptureTypeOK
<1>4. /\ new \in Channels /\ new.psm = r.psm /\ Cids(new) = {dcid, r.scid}
      /\ new.setup = "seen" => seen /\ r.setup = "seen"
      BY <1>3 DEF Channel, Cids, Requests, Channels, Setup
<1>5. clash \in BOOLEAN OBVIOUS
<1> HIDE DEF new, clash
<1>6. /\ CaptureTypeOK' /\ FrameInv' /\ BlankInv' /\ RequestInv'
      /\ crossed' = crossed /\ garbled' = garbled /\ log' = log
      /\ ~crossed /\ ~garbled =>
           \A c \in Cid : active'[c] = IF seen /\ r.setup = "seen" /\ c \in {dcid, r.scid}
                                       THEN r.psm ELSE active[c]
  <2>1. PICK yes \in BOOLEAN : yes = TRUE OBVIOUS
  <2>2. Respond(r, dcid, yes, seen) BY <1>2, <2>1, Zenon
  <2>3. /\ channels \subseteq channels' /\ channels' \subseteq Channels /\ shared' \in BOOLEAN
        BY <1>2, <1>3, <1>4, <1>5 DEF CaptureTypeOK
  <2>4. /\ CaptureTypeOK' /\ FrameInv' /\ BlankInv' /\ RequestInv'
        /\ crossed' = crossed /\ garbled' = garbled /\ log' = log
        /\ ~crossed /\ ~garbled =>
             \A c \in Cid : active'[c] = IF /\ seen /\ r.setup = "seen" /\ yes
                                            /\ c \in {dcid, r.scid}
                                         THEN r.psm ELSE active[c]
        BY <2>2, <2>3, RespondStep
  <2> HIDE DEF CaptureTypeOK, FrameInv, BlankInv, RequestInv
  <2> QED BY <2>1, <2>4
<1>7. shared' <=> shared \/ clash BY <1>2, <1>3 DEF CaptureTypeOK
<1>8. ChannelInv'
  <2>1. SUFFICES ASSUME Followed, ~clash, NEW c \in channels', c.setup = "seen", NEW x \in Cids(c)
                 PROVE  active'[x] = c.psm
        BY <1>6, <1>7 DEF ChannelInv, Followed
  <2>2. c \in Channels /\ x \in Cid
    <3>1. c \in Channels BY <1>6 DEF CaptureTypeOK
    <3> QED BY <3>1 DEF Channels, Cids
  <2>3. active'[x] = IF seen /\ r.setup = "seen" /\ x \in Cids(new) THEN r.psm ELSE active[x]
        BY <1>4, <1>6, <2>1, <2>2 DEF Followed
  <2>4. CASE c = new BY <1>4, <2>1, <2>3, <2>4
  <2>5. CASE c \in channels
    <3>1. active[x] = c.psm BY <1>3, <2>1, <2>5 DEF TrackInv, ChannelInv
    <3>2. x \in Cids(new) => c.psm = r.psm BY <1>4, <2>1, <2>5 DEF clash
    <3> QED BY <2>3, <3>1, <3>2
  <2> QED BY <1>2, <2>4, <2>5
<1>9. VerdictInv' BY <1>3, <1>6, <1>7 DEF TrackInv, VerdictInv, Followed
<1> QED BY <1>6, <1>8, <1>9 DEF CaptureInv, TrackInv

LEMMA RefuseStep ==
    ASSUME CaptureInv, NEW r \in requests, NEW seen \in BOOLEAN, Refuse(r, seen)
    PROVE  CaptureInv'
<1>1. Respond(r, r.scid, FALSE, seen) /\ channels' = channels /\ shared' = shared
      BY DEF Refuse
<1>2. CaptureTypeOK /\ TrackInv /\ r.scid \in Cid BY DEF CaptureInv, CaptureTypeOK, Requests
<1>3. /\ CaptureTypeOK' /\ FrameInv' /\ BlankInv' /\ RequestInv'
      /\ crossed' = crossed /\ garbled' = garbled /\ log' = log
      /\ ~crossed /\ ~garbled => \A c \in Cid : active'[c] = active[c]
  <2>1. PICK no \in BOOLEAN : no = FALSE OBVIOUS
  <2>2. Respond(r, r.scid, no, seen) BY <1>1, <2>1, Zenon
  <2>3. /\ channels \subseteq channels' /\ channels' \subseteq Channels /\ shared' \in BOOLEAN
        BY <1>1, <1>2 DEF CaptureTypeOK
  <2>4. ~no BY <2>1
  <2> QED BY <1>2, <2>2, <2>3, <2>4, RespondStep
<1>4. ChannelInv'
  <2>1. SUFFICES ASSUME Followed, NEW c \in channels, c.setup = "seen", NEW x \in Cids(c)
                 PROVE  active'[x] = c.psm
        BY <1>1, <1>3 DEF ChannelInv, Followed
  <2>2. x \in Cid BY <1>2 DEF CaptureTypeOK, Channels, Cids
  <2>3. active[x] = c.psm BY <1>2, <2>1 DEF TrackInv, ChannelInv
  <2> QED BY <1>3, <2>1, <2>2, <2>3 DEF Followed
<1>5. VerdictInv' BY <1>1, <1>2, <1>3 DEF TrackInv, VerdictInv, Followed
<1> QED BY <1>3, <1>4, <1>5 DEF CaptureInv, TrackInv

LEMMA DisconnectStep ==
    ASSUME CaptureInv, NEW c \in channels, Disconnect(c)
    PROVE  CaptureInv'
<1>1. /\ \A side \in Side : ~Quiet(c.h, side) => air[c.h][side].frame.chan # c
      /\ channels' = channels \ {c}
      /\ requests' = requests /\ setups' = setups /\ unanswered' = unanswered
      /\ crossed' = crossed /\ shared' = shared /\ frames' = frames /\ air' = air
      /\ lost' = lost /\ captured' = captured /\ buffers' = buffers /\ garbled' = garbled
      /\ pending' = pending /\ active' = active /\ ident_to_scid' = ident_to_scid /\ log' = log
      BY DEF Disconnect, decoderVars, trackerVars
<1>2. CaptureTypeOK /\ FrameInv /\ TrackInv BY DEF CaptureInv
<1>3. CaptureTypeOK' BY <1>1, <1>2 DEF CaptureTypeOK, TrackerTypeOK
<1>4. AirInv'
  <2>1. SUFFICES ASSUME NEW h \in Handle, NEW s \in Side
                 PROVE  AirAt(h, air[h][s], buffers[h], channels', frames)
        BY <1>1 DEF AirInv
  <2>2. AirAt(h, air[h][s], buffers[h], channels, frames) BY <1>2 DEF FrameInv, AirInv
  <2>3. air[h][s] # None => air[h][s].frame.chan # c BY <1>1, <2>2 DEF AirAt, Quiet
  <2> QED BY <1>1, <2>2, <2>3 DEF AirAt
<1>5. NumberInv' BY <1>1, <1>2 DEF FrameInv, NumberInv, LogNumbers, Numbers
<1>6. AloneInv'
  <2>1. SUFFICES ASSUME NEW h \in Handle, NEW s \in Side PROVE AloneAt(h, s)'
        BY DEF AloneInv
  <2>2. AloneAt(h, s) BY <1>2 DEF FrameInv, AloneInv
  <2>3. LogNumbers' = LogNumbers BY <1>1 DEF LogNumbers
  <2> QED BY <1>1, <2>2, <2>3 DEF AloneAt, Numbers
<1>7. ReadInv' BY <1>1, <1>2 DEF FrameInv, ReadInv, ReadOnce, GoneAt, Numbers
<1>8. BlankInv' /\ RequestInv' BY <1>1, <1>2 DEF TrackInv, BlankInv, RequestInv, Known
<1>9. ChannelInv' /\ VerdictInv' BY <1>1, <1>2 DEF TrackInv, ChannelInv, VerdictInv, Followed
<1> QED BY <1>3, <1>4, <1>5, <1>6, <1>7, <1>8, <1>9 DEF CaptureInv, FrameInv, TrackInv

-----------------------------------------------------------------------------
(* The steps of data *)

LEMMA FrameIs ==
    ASSUME NEW c \in Channels, NEW side \in Side, NEW fmp \in BOOLEAN, fmp => c.psm = "fips",
           NEW no \in Nat
    PROVE  /\ Frame(c, side, fmp, no) \in HostFrames
           /\ Frame(c, side, fmp, no).chan = c /\ Frame(c, side, fmp, no).no = no
<1> DEFINE f == Frame(c, side, fmp, no)
<1>1. /\ f = [kind |-> "data", chan |-> c, fmp |-> fmp, no |-> no, cid |-> f.cid]
      /\ f.cid \in Cids(c)
      BY DEF Frame, Cids
<1> HIDE DEF f
<1>2. f.cid \in Cid BY <1>1 DEF Cids, Channels
<1>3. f.chan = c /\ f.no = no /\ (f.fmp <=> fmp) BY <1>1
<1>4. f \in [kind : {"data"}, chan : Channels, fmp : BOOLEAN, no : Nat, cid : Cid]
      BY <1>1, <1>2
<1> QED BY <1>1, <1>3, <1>4 DEF f, DataFrames, HostFrames

LEMMA UnderWayIs ==
    ASSUME NEW frame \in DataFrames, NEW size \in Size, NEW next \in Nat \ {0}, NEW whole \in BOOLEAN
    PROVE  LET a == UnderWay(frame, size, next, whole) IN
           /\ a \in Transports /\ a # None
           /\ a.frame = frame /\ a.size = size /\ a.next = next /\ (a.whole <=> whole)
BY CaptureAssumption DEF UnderWay, Transports

LEMMA SendStep ==
    ASSUME CaptureInv, NEW c \in channels, NEW side \in Side, Send(c, side)
    PROVE  CaptureInv'
<1>1. PICK size \in Size, fmp \in BOOLEAN :
        /\ fmp => c.psm = "fips"
        /\ air' = [air EXCEPT ![c.h][side] =
                     UnderWay(Frame(c, side, fmp, frames + 1), size, 1, TRUE)]
      BY Zenon DEF Send
<1> DEFINE f == Frame(c, side, fmp, frames + 1)
           a == UnderWay(f, size, 1, TRUE)
<1>2. CaptureTypeOK /\ FrameInv /\ TrackInv BY DEF CaptureInv
<1>3. /\ air[c.h][side] = None /\ frames' = frames + 1
      /\ requests' = requests /\ setups' = setups /\ channels' = channels
      /\ unanswered' = unanswered /\ crossed' = crossed /\ shared' = shared
      /\ lost' = lost /\ captured' = captured /\ buffers' = buffers /\ garbled' = garbled
      /\ pending' = pending /\ active' = active /\ ident_to_scid' = ident_to_scid /\ log' = log
      BY DEF Send, Quiet, hostVars, decoderVars, trackerVars
<1>4. /\ c \in Channels /\ c.h \in Handle /\ frames \in Nat
      /\ air \in [Handle -> [Side -> Transports \cup {None}]]
      /\ log \in Seq(Entries) /\ buffers \in [Handle -> Seq(Units)]
      BY <1>2 DEF CaptureTypeOK, TrackerTypeOK, Channels
<1>5. f \in HostFrames /\ f.chan = c /\ f.no = frames + 1
  <2>1. frames + 1 \in Nat /\ (fmp => c.psm = "fips") /\ c \in Channels BY <1>1, <1>4
  <2> DEFINE no == frames + 1
  <2>2. no \in Nat /\ f = Frame(c, side, fmp, no) BY <2>1
  <2> HIDE DEF no
  <2>3. Frame(c, side, fmp, no) \in HostFrames BY <2>1, <2>2, FrameIs
  <2>4. Frame(c, side, fmp, no).chan = c /\ Frame(c, side, fmp, no).no = no
        BY <2>1, <2>2, FrameIs
  <2> QED BY <2>2, <2>3, <2>4 DEF no
<1>6. air' = [air EXCEPT ![c.h][side] = a] BY <1>1, Zenon
<1> HIDE DEF f
<1>7. /\ a \in Transports /\ a # None /\ a.frame = f /\ a.size = size /\ a.next = 1 /\ a.whole
  <2>1. PICK yes \in BOOLEAN : yes = TRUE OBVIOUS
  <2>2. a = UnderWay(f, size, 1, yes) /\ yes BY <2>1, Zenon
  <2>3. f \in DataFrames /\ 1 \in Nat \ {0} BY <1>5 DEF HostFrames
  <2>4. LET b == UnderWay(f, size, 1, yes) IN
        /\ b \in Transports /\ b # None
        /\ b.frame = f /\ b.size = size /\ b.next = 1 /\ (b.whole <=> yes)
        BY <2>3, UnderWayIs
  <2> HIDE DEF a
  <2> QED BY <2>2, <2>4
<1> HIDE DEF a
<1>8. /\ air' \in [Handle -> [Side -> Transports \cup {None}]] /\ air'[c.h][side] = a
      /\ \A h \in Handle, s \in Side : ~(h = c.h /\ s = side) => air'[h][s] = air[h][s]
      BY <1>4, <1>6, <1>7
<1>9. CaptureTypeOK' BY <1>2, <1>3, <1>8 DEF CaptureTypeOK, TrackerTypeOK
<1>10. \A h \in Handle, s \in Side : AirAt(h, air[h][s], buffers[h], channels, frames)
       BY <1>2 DEF FrameInv, AirInv
<1>11. AirInv'
  <2>1. SUFFICES ASSUME NEW h \in Handle, NEW s \in Side
                 PROVE  AirAt(h, air'[h][s], buffers[h], channels, frames + 1)
        BY <1>3 DEF AirInv
  <2>2. CASE h = c.h /\ s = side
    <3>1. size \in Nat /\ 1 <= size BY AclAssumption
    <3>2. f.cid \in Cids(c) BY <1>5 DEF HostFrames
    <3> QED BY <1>4, <1>5, <1>7, <1>8, <2>2, <3>1, <3>2 DEF AirAt
  <2>3. CASE ~(h = c.h /\ s = side)
    <3>1. AirAt(h, air[h][s], buffers[h], channels, frames) BY <1>10
    <3>2. \A n \in 0 .. frames : n \in 0 .. frames + 1 BY <1>4
    <3> QED BY <1>8, <2>3, <3>1, <3>2 DEF AirAt
  <2> QED BY <2>2, <2>3
<1>12. /\ \A n \in 0 .. frames : n \in 0 .. frames + 1 /\ n # frames + 1
       /\ \A n \in 1 .. frames : n \in 1 .. frames + 1 /\ n # frames + 1
       BY <1>4
<1>13. LogNumbers \subseteq 0 .. frames /\ \A g \in Handle : Numbers(buffers[g]) \subseteq 0 .. frames
       BY <1>2 DEF FrameInv, NumberInv
<1>14. NumberInv' BY <1>3, <1>12, <1>13 DEF NumberInv, LogNumbers, Numbers
<1>15. AloneInv'
  <2>0. LogNumbers' = LogNumbers /\ buffers' = buffers BY <1>3 DEF LogNumbers
  <2>1. SUFFICES ASSUME NEW h \in Handle, NEW s \in Side, air'[h][s] # None, air'[h][s].whole
                 PROVE  /\ air'[h][s].frame.no \notin LogNumbers'
                        /\ \A x \in Handle : air'[h][s].frame.no \in Numbers(buffers'[x]) =>
                              x = h /\ air'[h][s].next > 1
                        /\ \A x \in Handle, y \in Side :
                              air'[x][y] # None /\ air'[x][y].frame.no = air'[h][s].frame.no =>
                                x = h /\ y = s
        BY DEF AloneInv, AloneAt, Numbers
  <2>2. \A x \in Handle, y \in Side : ~(x = c.h /\ y = side) /\ air'[x][y] # None =>
          air'[x][y].frame.no # frames + 1
    <3>1. \A x \in Handle, y \in Side : air[x][y] # None => air[x][y].frame.no \in 0 .. frames
          BY <1>10 DEF AirAt
    <3> QED BY <1>8, <1>12, <3>1
  <2>3. CASE h = c.h /\ s = side
    <3>1. air'[h][s].frame.no = frames + 1 BY <1>5, <1>7, <1>8, <2>3
    <3> QED BY <1>12, <1>13, <2>0, <2>2, <2>3, <3>1
  <2>4. CASE ~(h = c.h /\ s = side)
    <3>1. air'[h][s] = air[h][s] BY <1>8, <2>4
    <3>2. AloneAt(h, s) BY <1>2 DEF FrameInv, AloneInv
    <3>3. \A x \in Handle, y \in Side :
            air'[x][y] # None /\ air'[x][y].frame.no = air'[h][s].frame.no => x = h /\ y = s
      <4>1. SUFFICES ASSUME NEW x \in Handle, NEW y \in Side, air'[x][y] # None,
                            air'[x][y].frame.no = air'[h][s].frame.no
                     PROVE  x = h /\ y = s
            OBVIOUS
      <4>2. air'[h][s].frame.no # frames + 1 BY <2>1, <2>2, <2>4
      <4>3. a.frame.no = frames + 1 BY <1>5, <1>7
      <4>4. ~(x = c.h /\ y = side) BY <1>8, <4>1, <4>2, <4>3
      <4>5. air'[x][y] = air[x][y] BY <1>8, <4>4
      <4> QED BY <2>1, <3>1, <3>2, <4>1, <4>5 DEF AloneAt
    <3> QED BY <2>0, <2>1, <3>1, <3>2, <3>3 DEF AloneAt
  <2> QED BY <2>3, <2>4
<1>16. ReadInv'
  <2>1. SUFFICES ASSUME NEW x \in captured PROVE ReadOnce(x) /\ GoneAt(x)'
        BY <1>3 DEF ReadInv, ReadOnce
  <2>2. ReadOnce(x) /\ GoneAt(x) BY <1>2 DEF FrameInv, ReadInv
  <2>3. a.frame.no = frames + 1 BY <1>5, <1>7
  <2>4. \A g \in Handle, t \in Side : air'[g][t] # None => air'[g][t].frame.no # x.no
    <3>1. SUFFICES ASSUME NEW g \in Handle, NEW t \in Side, air'[g][t] # None
                   PROVE  air'[g][t].frame.no # x.no
          OBVIOUS
    <3>2. x.no # frames + 1 BY <1>12, <2>2 DEF GoneAt
    <3> QED BY <1>8, <2>2, <2>3, <3>1, <3>2 DEF GoneAt
  <2>5. GoneAt(x)' BY <1>3, <1>12, <2>2, <2>4 DEF GoneAt, Numbers
  <2> QED BY <2>2, <2>5
<1>17. TrackInv' BY <1>2, <1>3 DEF TrackInv, BlankInv, RequestInv, Known, ChannelInv, VerdictInv,
                                  Followed
<1> QED BY <1>9, <1>11, <1>14, <1>15, <1>16, <1>17 DEF CaptureInv, FrameInv

LEMMA InitStep == ASSUME Init PROVE CaptureInv
<1>1. /\ requests = {} /\ frames = 0 /\ lost = 0 /\ captured = {}
      /\ unanswered = {} /\ crossed = FALSE /\ shared = FALSE /\ garbled = FALSE
      /\ buffers = [h \in Handle |-> << >>]
      /\ pending = [c \in Cid |-> None] /\ active = [c \in Cid |-> None]
      /\ ident_to_scid = [i \in Ident |-> None] /\ log = << >>
      BY DEF Init, TrackerInit
<1>2. /\ channels \subseteq Channels /\ setups \in Nat
      /\ air \in [Handle -> [Side -> Transports \cup {None}]]
      /\ \A c \in channels : c.setup = "missed"
      /\ \A h \in Handle, s \in Side : air[h][s] # None =>
           /\ air[h][s].frame.chan \in channels /\ air[h][s].frame.chan.h = h
           /\ air[h][s].frame.cid \in Cids(air[h][s].frame.chan)
           /\ air[h][s].frame.no = 0
           /\ air[h][s].next = air[h][s].size /\ ~air[h][s].whole
  <2>1. CASE channels = {} /\ setups = 0 /\ air = [h \in Handle |-> [side \in Side |-> None]]
        BY <2>1
  <2>2. CASE \E c \in OpenBefore : \E a \in AirBefore(c) :
               /\ channels = {c} /\ setups = 1
               /\ air = [h \in Handle |-> IF h = c.h THEN a ELSE [side \in Side |-> None]]
    <3>1. PICK c \in OpenBefore : \E a \in AirBefore(c) :
               /\ channels = {c} /\ setups = 1
               /\ air = [h \in Handle |-> IF h = c.h THEN a ELSE [side \in Side |-> None]]
          BY <2>2
    <3>2. PICK a \in AirBefore(c) :
               /\ channels = {c} /\ setups = 1
               /\ air = [h \in Handle |-> IF h = c.h THEN a ELSE [side \in Side |-> None]]
          BY <3>1
    <3>3. c \in Channels /\ c.setup = "missed" BY DEF OpenBefore
    <3>4. /\ a \in [Side -> Transports \cup {None}]
          /\ \A s \in Side : a[s] # None =>
               /\ a[s].frame.chan = c /\ a[s].frame.cid \in Cids(c) /\ a[s].frame.no = 0
               /\ a[s].next = a[s].size /\ ~a[s].whole
      <4>1. ASSUME NEW s \in Side, NEW size \in Size
            PROVE  LET b == LastOf(c, s, size) IN
                   /\ b \in Transports /\ b.frame.chan = c /\ b.frame.cid \in Cids(c)
                   /\ b.frame.no = 0 /\ b.next = b.size /\ ~b.whole
        <5>1. PICK no \in BOOLEAN : no = FALSE OBVIOUS
        <5> DEFINE f == Frame(c, s, no, 0)
                   b == UnderWay(f, size, size, no)
        <5>2. f \in HostFrames /\ f.chan = c /\ f.no = 0
          <6>1. 0 \in Nat /\ (no => c.psm = "fips") BY <5>1
          <6> QED BY <3>3, <6>1, FrameIs
        <5> HIDE DEF f
        <5>3. /\ b \in Transports /\ b.frame = f /\ b.size = size /\ b.next = size
              /\ (b.whole <=> no)
          <6>1. f \in DataFrames /\ size \in Nat \ {0} BY <5>2, AclAssumption DEF HostFrames
          <6> QED BY <6>1, UnderWayIs
        <5> HIDE DEF b
        <5>4. f.cid \in Cids(c) BY <5>2 DEF HostFrames
        <5>5. b = LastOf(c, s, size) BY <5>1, Zenon DEF b, f, LastOf
        <5> QED BY <5>1, <5>2, <5>3, <5>4, <5>5
      <4> DEFINE All == {None} \cup {LastOf(c, s, size) : s \in Side, size \in Size}
      <4>2. /\ a \in [Side -> All]
            /\ \A s \in Side : a[s] # None => \E size \in Size \ {1} : a[s] = LastOf(c, s, size)
            BY DEF AirBefore
      <4> HIDE DEF All
      <4>3. a = [s \in Side |-> a[s]] BY <4>2
      <4> QED BY <4>1, <4>2, <4>3
    <3>5. \A h \in Handle, s \in Side : air[h][s] = IF h = c.h THEN a[s] ELSE None
          BY <3>2, <3>4
    <3>6. air \in [Handle -> [Side -> Transports \cup {None}]] BY <3>2, <3>4
    <3> QED BY <3>2, <3>3, <3>4, <3>5, <3>6
  <2> QED BY <2>1, <2>2 DEF Init
<1>3. TrackerTypeOK BY <1>1 DEF TrackerTypeOK
<1>4. CaptureTypeOK
  <2>1. buffers \in [Handle -> Seq(Units)] BY <1>1
  <2>2. crossed \in BOOLEAN /\ shared \in BOOLEAN /\ garbled \in BOOLEAN BY <1>1
  <2>3. /\ requests \subseteq Requests /\ unanswered \subseteq Requests
        /\ frames \in Nat /\ lost \in Nat /\ captured \subseteq DataFrames
        BY <1>1
  <2> QED BY <1>2, <1>3, <2>1, <2>2, <2>3 DEF CaptureTypeOK
<1>5. AirInv
  <2>1. \A h \in Handle, s \in Side : air[h][s] # None => air[h][s].size \in Nat
    <3>1. \A h \in Handle, s \in Side : air[h][s] # None => air[h][s].size \in Size
          BY <1>2 DEF Transports
    <3> QED BY <3>1, AclAssumption
  <2> QED BY <1>1, <1>2, <2>1 DEF AirInv, AirAt
<1>6. NumberInv BY <1>1 DEF NumberInv, LogNumbers, Numbers
<1>7. AloneInv BY <1>2 DEF AloneInv, AloneAt
<1>8. ReadInv /\ BlankInv BY <1>1 DEF ReadInv, BlankInv
<1>9. RequestInv BY <1>1 DEF RequestInv
<1>10. ChannelInv /\ VerdictInv BY <1>1, <1>2 DEF ChannelInv, VerdictInv
<1> QED BY <1>4, <1>5, <1>6, <1>7, <1>8, <1>9, <1>10 DEF CaptureInv, FrameInv, TrackInv

\* What a record leaves of the tables, and the entry it makes.
LEMMA TrackStep ==
    ASSUME CaptureTypeOK, TrackInv, NEW M,
           \/ NothingRead
           \/ \E frame \in HostFrames, intact \in BOOLEAN : frame.no \in M /\ FrameRead(frame, intact)
           \/ StrayRead,
           requests' = requests, unanswered' = unanswered, channels' = channels,
           crossed' = crossed, shared' = shared
    PROVE  /\ TrackerTypeOK' /\ garbled' \in BOOLEAN /\ TrackInv'
           /\ \/ log' = log
              \/ \E e \in Entries : log' = Append(log, e) /\ e.frame.no \in {0} \cup M
<1>1. /\ TrackerTypeOK /\ BlankInv /\ RequestInv /\ ChannelInv /\ VerdictInv
      /\ garbled \in BOOLEAN
      BY DEF CaptureTypeOK, TrackInv
<1>2. CASE NothingRead
  <2>1. /\ garbled' = garbled /\ pending' = pending /\ active' = active
        /\ ident_to_scid' = ident_to_scid /\ log' = log
        BY <1>2 DEF NothingRead, trackerVars
  <2>2. TrackInv' BY <1>1, <2>1 DEF TrackInv, BlankInv, RequestInv, Known, ChannelInv,
                                   VerdictInv, Followed
  <2> QED BY <1>1, <2>1, <2>2 DEF TrackerTypeOK
<1>3. CASE \E frame \in HostFrames, intact \in BOOLEAN : frame.no \in M /\ FrameRead(frame, intact)
  <2>1. PICK frame \in HostFrames, intact \in BOOLEAN : frame.no \in M /\ FrameRead(frame, intact)
        BY <1>3
  <2>2. /\ frame \in DataFrames /\ TrackData(frame, intact)
        /\ garbled' = (garbled \/ frame.chan \notin channels)
        BY <2>1 DEF HostFrames, FrameRead
  <2> DEFINE e == Entry(frame, intact)
  <2>3. /\ TrackerTypeOK' /\ BlankInv' /\ log' = Append(log, e)
        /\ pending' = pending /\ active' = active /\ ident_to_scid' = ident_to_scid
        BY <1>1, <2>2, DataTracked
  <2>4. e \in Entries /\ e.frame = frame /\ (e.fips <=> active[frame.cid] = "fips")
        BY <2>2, EntryIs
  <2> HIDE DEF e
  <2>5. /\ Len(log') = Len(log) + 1 /\ Len(log) \in Nat
        /\ \A j \in 1 .. Len(log) : log'[j] = log[j]
        /\ log'[Len(log) + 1] = e
    <3>1. log \in Seq(Entries) BY <1>1 DEF TrackerTypeOK
    <3> QED BY <2>3, <2>4, <3>1, LogGrows
  <2>6. garbled' \in BOOLEAN /\ (~garbled' <=> ~garbled /\ frame.chan \in channels)
        BY <1>1, <2>2
  <2>7. RequestInv' BY <1>1, <2>3, <2>6 DEF RequestInv, Known
  <2>8. ChannelInv' BY <1>1, <2>3, <2>6 DEF ChannelInv, Followed
  <2>9. VerdictInv'
    <3>1. SUFFICES ASSUME Followed, frame.chan \in channels,
                          NEW j \in 1 .. Len(log'), log'[j].frame.chan.setup = "seen"
                   PROVE  log'[j].fips <=> log'[j].frame.chan.psm = "fips"
          BY <2>6 DEF VerdictInv, Followed
    <3>2. CASE j \in 1 .. Len(log) BY <1>1, <2>5, <3>1, <3>2 DEF VerdictInv
    <3>3. CASE j = Len(log) + 1
      <4>1. frame.cid \in Cids(frame.chan) BY <2>1 DEF HostFrames
      <4>2. active[frame.cid] = frame.chan.psm BY <1>1, <2>4, <2>5, <3>1, <3>3, <4>1 DEF ChannelInv
      <4> QED BY <2>4, <2>5, <3>3, <4>2
    <3> QED BY <2>5, <3>2, <3>3
  <2> QED BY <2>1, <2>3, <2>4, <2>6, <2>7, <2>8, <2>9 DEF TrackInv
<1>4. CASE StrayRead
  <2>1. garbled' = TRUE BY <1>4 DEF StrayRead
  <2>2. RequestInv' /\ ChannelInv' /\ VerdictInv' BY <2>1 DEF RequestInv, ChannelInv, VerdictInv, Followed
  <2>3. CASE UNCHANGED trackerVars
    <3>1. /\ pending' = pending /\ active' = active
          /\ ident_to_scid' = ident_to_scid /\ log' = log
          BY <2>3 DEF trackerVars
    <3> QED BY <1>1, <2>1, <2>2, <3>1 DEF TrackerTypeOK, BlankInv, TrackInv
  <2>4. CASE \E stray \in DataFrames : stray.no = 0 /\ TrackData(stray, FALSE)
    <3>1. PICK stray \in DataFrames : stray.no = 0 /\ TrackData(stray, FALSE) BY <2>4
    <3>2. PICK no \in BOOLEAN : no = FALSE OBVIOUS
    <3>3. TrackData(stray, no) BY <3>1, <3>2, Zenon
    <3>4. TrackerTypeOK' /\ BlankInv' /\ log' = Append(log, Entry(stray, no))
          BY <1>1, <3>3, DataTracked
    <3>5. Entry(stray, no) \in Entries /\ Entry(stray, no).frame = stray BY EntryIs
    <3> QED BY <2>1, <2>2, <3>1, <3>4, <3>5 DEF TrackInv
  <2>5. CASE \E r \in Requests : TrackRequest(r)
        BY <1>1, <2>1, <2>2, <2>5, RequestTracked DEF TrackInv
  <2>6. CASE \E r \in Requests, dcid \in Cid, accepted \in BOOLEAN : TrackResponse(r, dcid, accepted)
        BY <1>1, <2>1, <2>2, <2>6, ResponseTracked DEF TrackInv
  <2> QED BY <1>4, <2>3, <2>4, <2>5, <2>6 DEF StrayRead
<1> QED BY <1>2, <1>3, <1>4

LEMMA FragmentStep ==
    ASSUME CaptureInv, NEW h \in Handle, NEW side \in Side, NEW k \in Nat \ {0},
           NEW seen \in BOOLEAN, Fragment(h, side, k, seen)
    PROVE  CaptureInv'
<1>0. PICK a : a = air[h][side] OBVIOUS
<1> DEFINE last == a.next + k - 1
           whole == a.whole /\ seen
           rest == IF last = a.size THEN None ELSE [a EXCEPT !.next = last + 1, !.whole = whole]
<1>1. CaptureTypeOK /\ FrameInv /\ TrackInv /\ TrackerTypeOK
      BY DEF CaptureInv, CaptureTypeOK
<1>2. /\ a # None /\ last <= a.size
      /\ Write(h, side, SubSeq(FrameUnits(a.frame, a.size), a.next, last), rest, seen)
      /\ captured' = IF last = a.size /\ whole THEN captured \cup {a.frame} ELSE captured
      /\ requests' = requests /\ channels' = channels /\ setups' = setups
      /\ unanswered' = unanswered /\ crossed' = crossed /\ shared' = shared /\ frames' = frames
      BY <1>0 DEF Fragment, Quiet, hostVars
<1>3. /\ a \in Transports /\ AirAt(h, a, buffers[h], channels, frames)
      BY <1>0, <1>1, <1>2 DEF CaptureTypeOK, FrameInv, AirInv
<1>4. /\ a.frame \in HostFrames /\ a.size \in Size /\ a.size \in Nat /\ a.next \in Nat
      /\ a.next \in 1 .. a.size /\ a.whole \in BOOLEAN
      /\ a.frame.no \in 0 .. frames /\ (a.whole => a.frame.no # 0)
      /\ a.frame.chan \in channels
  <2>1. /\ a.frame \in DataFrames /\ a.size \in Size /\ a.next \in Nat \ {0} /\ a.whole \in BOOLEAN
        BY <1>3 DEF Transports
  <2>2. /\ a.frame \in HostFrames /\ a.next <= a.size BY <1>2, <1>3, <2>1 DEF AirAt, HostFrames
  <2>3. a.size \in Nat BY <2>1, AclAssumption
  <2>4. a.frame.no \in 0 .. frames /\ (a.whole => a.frame.no # 0) /\ a.frame.chan \in channels
        BY <1>2, <1>3 DEF AirAt
  <2>5. a.next \in 1 .. a.size BY <2>1, <2>2, <2>3
  <2> QED BY <2>1, <2>2, <2>3, <2>4, <2>5
<1>5. last \in Nat /\ last \in a.next .. a.size BY <1>2, <1>4
<1>6. /\ rest \in Transports \cup {None} /\ (rest = None <=> last = a.size)
      /\ rest # None => /\ rest.frame = a.frame /\ rest.size = a.size /\ rest.next = last + 1
                        /\ rest.whole = whole
  <2>1. CASE last = a.size BY <2>1
  <2>2. CASE last # a.size
    <3>1. rest = [a EXCEPT !.next = last + 1, !.whole = whole] BY <2>2
    <3>2. last + 1 \in Nat \ {0} /\ whole \in BOOLEAN BY <1>4, <1>5
    <3> HIDE DEF last, whole, rest
    <3>3. rest \in Transports BY <1>3, <3>1, <3>2 DEF Transports
    <3>4. rest.frame = a.frame /\ rest.size = a.size /\ rest.next = last + 1 /\ rest.whole = whole
          BY <1>3, <3>1 DEF Transports
    <3> QED BY <2>2, <3>3, <3>4, CaptureAssumption
  <2> QED BY <2>1, <2>2
<1>7. whole \in BOOLEAN /\ (whole <=> a.whole /\ seen) BY <1>4
<1>8. /\ air' = [air EXCEPT ![h] = [s \in Side |->
                   IF s = side THEN rest ELSE IF seen THEN Cut(@[s]) ELSE @[s]]]
      /\ IF seen THEN Record(h, SubSeq(FrameUnits(a.frame, a.size), a.next, last), side) ELSE Lose
      BY <1>2, Zenon DEF Write
<1> HIDE DEF last, whole, rest
<1> DEFINE read == Numbers(buffers[h]) \cup {a.frame.no}
<1>9. ~seen => /\ buffers' = buffers /\ log' = log /\ TrackerTypeOK' /\ garbled' \in BOOLEAN
               /\ TrackInv' /\ lost' \in Nat
  <2>1. SUFFICES ASSUME ~seen PROVE /\ buffers' = buffers /\ log' = log /\ TrackerTypeOK'
                                    /\ garbled' \in BOOLEAN /\ TrackInv' /\ lost' \in Nat
        OBVIOUS
  <2>2. Lose BY <1>8, <2>1
  <2>3. buffers' = buffers /\ NothingRead /\ log' = log /\ lost' = lost + 1
        BY <2>2 DEF Lose, decoderVars, NothingRead, trackerVars
  <2> QED BY <1>1, <1>2, <2>3, TrackStep DEF CaptureTypeOK
<1>10. seen =>
         /\ lost' \in Nat /\ TrackerTypeOK' /\ garbled' \in BOOLEAN /\ TrackInv'
         /\ buffers' \in [Handle -> Seq(Units)]
         /\ \A g \in Handle : g # h => buffers'[g] = buffers[g]
         /\ Numbers(buffers'[h]) \subseteq read
         /\ \/ log' = log
            \/ \E e \in Entries : log' = Append(log, e) /\ e.frame.no \in {0} \cup read
         /\ a.whole /\ last = a.size => /\ buffers'[h] = << >>
                                        /\ log' = Append(log, Entry(a.frame, TRUE))
         /\ a.whole /\ last < a.size => /\ HoldsFirst(buffers'[h], a.frame, a.size, last)
                                        /\ log' = log
  <2> SUFFICES ASSUME seen
               PROVE  /\ lost' \in Nat /\ TrackerTypeOK' /\ garbled' \in BOOLEAN /\ TrackInv'
                      /\ buffers' \in [Handle -> Seq(Units)]
                      /\ \A g \in Handle : g # h => buffers'[g] = buffers[g]
                      /\ Numbers(buffers'[h]) \subseteq read
                      /\ \/ log' = log
                         \/ \E e \in Entries : log' = Append(log, e) /\ e.frame.no \in {0} \cup read
                      /\ a.whole /\ last = a.size => /\ buffers'[h] = << >>
                                                     /\ log' = Append(log, Entry(a.frame, TRUE))
                      /\ a.whole /\ last < a.size => /\ HoldsFirst(buffers'[h], a.frame, a.size, last)
                                                     /\ log' = log
      OBVIOUS
  <2>1. Record(h, SubSeq(FrameUnits(a.frame, a.size), a.next, last), side) BY <1>8
  <2>2. /\ buffers' \in [Handle -> Seq(Units)] /\ lost' = lost
        /\ \A g \in Handle : g # h => buffers'[g] = buffers[g]
        /\ Numbers(buffers'[h]) \subseteq Numbers(buffers[h]) \cup {a.frame.no}
        /\ \/ NothingRead
           \/ \E frame \in HostFrames, intact \in BOOLEAN :
                 frame.no \in Numbers(buffers[h]) \cup {a.frame.no} /\ FrameRead(frame, intact)
           \/ StrayRead
        /\ \E fed \in Feed(buffers[h], Piece(a.frame, a.size, a.next, last),
                           Flag(side, a.next)) :
             /\ buffers'[h] = fed.buf
             /\ fed.out = << >> => log' = log
             /\ fed.out = <<FrameUnits(a.frame, a.size)>> => log' = Append(log, Entry(a.frame, TRUE))
    <3>1. CaptureTypeOK BY <1>1
    <3>2. a \in Transports BY <1>3
    <3>3. a.frame \in HostFrames BY <1>4
    <3>4. last \in a.next .. a.size BY <1>5
    <3>5. Reads(h, side, a, last) BY <2>1, <3>1, <3>2, <3>3, <3>4, DataRead
    <3> QED BY <3>5, Zenon DEF Reads
  <2>3. /\ TrackerTypeOK' /\ garbled' \in BOOLEAN /\ TrackInv'
        /\ \/ log' = log
           \/ \E e \in Entries : log' = Append(log, e) /\ e.frame.no \in {0} \cup read
    <3>1. \/ NothingRead
          \/ \E frame \in HostFrames, intact \in BOOLEAN : frame.no \in read /\ FrameRead(frame, intact)
          \/ StrayRead
          BY <2>2
    <3> HIDE DEF read
    <3> QED BY <1>1, <1>2, <3>1, TrackStep
  <2>4. ASSUME a.whole
        PROVE  /\ last = a.size => /\ buffers'[h] = << >>
                                   /\ log' = Append(log, Entry(a.frame, TRUE))
               /\ last < a.size => /\ HoldsFirst(buffers'[h], a.frame, a.size, last)
                                   /\ log' = log
    <3> DEFINE local == side = "local"
    <3>1. PICK fed \in Feed(buffers[h], Piece(a.frame, a.size, a.next, last),
                            Flag(side, a.next)) :
             /\ buffers'[h] = fed.buf
             /\ fed.out = << >> => log' = log
             /\ fed.out = <<FrameUnits(a.frame, a.size)>> => log' = Append(log, Entry(a.frame, TRUE))
          BY <2>2
    <3>2. local \in BOOLEAN /\ Flag(side, a.next) = PbFlag(local, a.next) BY DEF Flag
    <3> HIDE DEF local
    <3>3. a.next > 1 => HoldsFirst(buffers[h], a.frame, a.size, a.next - 1)
          BY <1>2, <1>3, <2>4 DEF AirAt
    <3>4. buffers[h] \in Seq(Units) BY <1>1 DEF CaptureTypeOK
    <3>5. /\ last = a.size => fed.buf = << >> /\ fed.out = <<FrameUnits(a.frame, a.size)>>
          /\ last < a.size => HoldsFirst(fed.buf, a.frame, a.size, last) /\ fed.out = << >>
          BY <1>4, <1>5, <3>1, <3>2, <3>3, <3>4, OwnFed
    <3> QED BY <3>1, <3>5
  <2>5. lost' \in Nat BY <1>1, <2>2 DEF CaptureTypeOK
  <2> QED BY <2>2, <2>3, <2>4, <2>5
<1>11. /\ air' \in [Handle -> [Side -> Transports \cup {None}]]
       /\ air'[h][side] = rest /\ Moves(h, side)
  <2>1. seen \/ UNCHANGED <<buffers, log>> BY <1>9
  <2>2. rest # None => /\ air[h][side] # None /\ rest.frame = air[h][side].frame
                       /\ rest.size = air[h][side].size
                       /\ rest.whole => air[h][side].whole
        BY <1>0, <1>2, <1>6, <1>7
  <2> QED BY <1>1, <1>6, <1>8, <2>1, <2>2, WriteMoves
<1>12. Feeds(h, {a.frame.no}) BY <1>2, <1>9, <1>10 DEF Feeds
<1>13. Holds(h, side)
  <2>1. SUFFICES ASSUME rest # None
                 PROVE  /\ rest.next > 1 /\ rest.next <= rest.size
                        /\ rest.whole => /\ log' = log
                                         /\ HoldsFirst(buffers'[h], rest.frame, rest.size, rest.next - 1)
        BY <1>11 DEF Holds
  <2>2. last < a.size BY <1>4, <1>5, <1>6, <2>1
  <2>3. rest.next - 1 = last /\ rest.next > 1 /\ rest.next <= rest.size
        BY <1>4, <1>5, <1>6, <2>1, <2>2
  <2> QED BY <1>6, <1>7, <1>10, <2>1, <2>2, <2>3
<1>14. /\ AirInv' /\ NumberInv' /\ AloneInv'
       /\ \A f \in captured : ReadOnce(f)' /\ GoneAt(f)'
  <2>1. \A g \in Handle, t \in Side : air'[g][t] # None => air'[g][t].frame.chan \in channels'
    <3>1. \A g \in Handle, t \in Side : air[g][t] # None => air[g][t].frame.chan \in channels
          BY <1>1 DEF FrameInv, AirInv, AirAt
    <3> QED BY <1>2, <1>11, <3>1 DEF Moves
  <2>2. \A n \in {a.frame.no} : air[h][side] # None /\ n = air[h][side].frame.no BY <1>0, <1>2
  <2> QED BY <1>1, <1>11, <1>12, <1>13, <2>1, <2>2, FramesKept
<1>15. ASSUME last = a.size, whole PROVE ReadOnce(a.frame)' /\ GoneAt(a.frame)'
  <2>1. /\ buffers'[h] = << >> /\ log' = Append(log, Entry(a.frame, TRUE))
        /\ a.whole /\ rest = None
        /\ \A g \in Handle : g # h => buffers'[g] = buffers[g]
        BY <1>6, <1>7, <1>10, <1>15
  <2>2. AloneAt(h, side) BY <1>1 DEF FrameInv, AloneInv
  <2>3. /\ a.frame.no \notin LogNumbers
        /\ \A g \in Handle : a.frame.no \in Numbers(buffers[g]) => g = h
        /\ \A g \in Handle, t \in Side :
              air[g][t] # None /\ air[g][t].frame.no = a.frame.no => g = h /\ t = side
        BY <1>0, <1>2, <2>1, <2>2 DEF AloneAt
  <2>4. PICK e \in Entries : log' = Append(log, e) /\ e.frame = a.frame /\ e.intact
    <3>1. PICK yes \in BOOLEAN : yes = TRUE OBVIOUS
    <3>2. a.frame \in DataFrames BY <1>4 DEF HostFrames
    <3>3. log' = Append(log, Entry(a.frame, yes)) BY <2>1, <3>1, Zenon
    <3>4. /\ Entry(a.frame, yes) \in Entries /\ Entry(a.frame, yes).frame = a.frame
          /\ Entry(a.frame, yes).intact = yes
          BY <3>2, EntryIs
    <3> QED BY <3>1, <3>3, <3>4
  <2>5. /\ Len(log') = Len(log) + 1 /\ Len(log) \in Nat
        /\ \A j \in 1 .. Len(log) : log'[j] = log[j]
        /\ log'[Len(log) + 1] = e
    <3>1. log \in Seq(Entries) BY <1>1 DEF TrackerTypeOK
    <3> QED BY <2>4, <3>1, LogGrows
  <2>6. \A j \in 1 .. Len(log') : log'[j].frame.no = a.frame.no => j = Len(log) + 1
    <3>1. \A j \in 1 .. Len(log') : j \in 1 .. Len(log) \/ j = Len(log) + 1 BY <2>5
    <3> QED BY <2>3, <2>5, <3>1 DEF LogNumbers
  <2>7. Len(log) + 1 \in 1 .. Len(log') BY <2>5
  <2>8. ReadOnce(a.frame)' BY <2>4, <2>5, <2>6, <2>7 DEF ReadOnce
  <2>9. a.frame.no \in 1 .. frames BY <1>1, <1>4, <2>1 DEF CaptureTypeOK
  <2>10. \A g \in Handle : a.frame.no \notin Numbers(buffers'[g])
    <3>1. Numbers(<< >>) = {}
      <4>1. Len(<< >>) = 0 OBVIOUS
      <4> QED BY <4>1 DEF Numbers
    <3> QED BY <2>1, <2>3, <3>1
  <2>11. \A g \in Handle, t \in Side : air'[g][t] # None => air'[g][t].frame.no # a.frame.no
    <3>1. SUFFICES ASSUME NEW g \in Handle, NEW t \in Side, air'[g][t] # None,
                          air'[g][t].frame.no = a.frame.no
                   PROVE  FALSE
          OBVIOUS
    <3>2. air[g][t] # None /\ air[g][t].frame = air'[g][t].frame BY <1>11, <3>1 DEF Moves
    <3>3. g = h /\ t = side BY <2>3, <3>1, <3>2
    <3> QED BY <1>11, <2>1, <3>1, <3>3
  <2>12. GoneAt(a.frame)' BY <1>2, <2>9, <2>10, <2>11 DEF GoneAt, Numbers
  <2> QED BY <2>8, <2>12
<1>16. ReadInv' BY <1>2, <1>14, <1>15 DEF ReadInv
<1>17. CaptureTypeOK'
  <2>1. a.frame \in DataFrames BY <1>4 DEF HostFrames
  <2>2. captured' \subseteq DataFrames BY <1>1, <1>2, <2>1 DEF CaptureTypeOK
  <2>3. buffers' \in [Handle -> Seq(Units)] BY <1>1, <1>9, <1>10 DEF CaptureTypeOK
  <2>4. lost' \in Nat /\ TrackerTypeOK' /\ garbled' \in BOOLEAN BY <1>9, <1>10
  <2> QED BY <1>1, <1>2, <1>11, <2>2, <2>3, <2>4 DEF CaptureTypeOK
<1>18. TrackInv' BY <1>9, <1>10
<1> QED BY <1>14, <1>16, <1>17, <1>18 DEF CaptureInv, FrameInv

-----------------------------------------------------------------------------
(* The theorems *)

LEMMA CaptureNext == ASSUME CaptureInv, [Next]_vars PROVE CaptureInv'
<1>1. CASE \E h \in Handle, side \in Side, seen \in BOOLEAN : Request(h, side, seen)
      BY <1>1, RequestStep
<1>2. CASE \E r \in requests, seen \in BOOLEAN : Postpone(r, seen) \/ Accept(r, seen) \/ Refuse(r, seen)
      BY <1>2, PostponeStep, AcceptStep, RefuseStep
<1>3. CASE \E c \in channels : Disconnect(c) \/ \E side \in Side : Send(c, side)
      BY <1>3, DisconnectStep, SendStep
<1>4. CASE \E h \in Handle, side \in Side, k \in 1 .. Max(Size), seen \in BOOLEAN :
             Fragment(h, side, k, seen)
  <2>1. PICK h \in Handle, side \in Side, k \in 1 .. Max(Size), seen \in BOOLEAN :
          Fragment(h, side, k, seen)
        BY <1>4
  <2>2. k \in Nat \ {0} OBVIOUS
  <2> QED BY <2>1, <2>2, FragmentStep
<1>5. CASE UNCHANGED vars
  <2>1. /\ requests' = requests /\ channels' = channels /\ setups' = setups
        /\ unanswered' = unanswered /\ crossed' = crossed /\ shared' = shared
        /\ frames' = frames /\ air' = air /\ lost' = lost /\ captured' = captured
        /\ buffers' = buffers /\ garbled' = garbled
        /\ pending' = pending /\ active' = active /\ ident_to_scid' = ident_to_scid /\ log' = log
        BY <1>5 DEF vars, hostVars, decoderVars, trackerVars
  <2>2. CaptureTypeOK' BY <2>1 DEF CaptureInv, CaptureTypeOK, TrackerTypeOK
  <2>3. AirInv' BY <2>1 DEF CaptureInv, FrameInv, AirInv
  <2>4. NumberInv' BY <2>1 DEF CaptureInv, FrameInv, NumberInv, LogNumbers, Numbers
  <2>5. AloneInv'
    <3>1. SUFFICES ASSUME NEW h \in Handle, NEW s \in Side PROVE AloneAt(h, s)'
          BY DEF AloneInv
    <3>2. AloneAt(h, s) BY DEF CaptureInv, FrameInv, AloneInv
    <3>3. LogNumbers' = LogNumbers BY <2>1 DEF LogNumbers
    <3> QED BY <2>1, <3>2, <3>3 DEF AloneAt, Numbers
  <2>6. ReadInv' BY <2>1 DEF CaptureInv, FrameInv, ReadInv, ReadOnce, GoneAt, Numbers
  <2>7. TrackInv' BY <2>1 DEF CaptureInv, TrackInv, BlankInv, RequestInv, Known, ChannelInv,
                             VerdictInv, Followed
  <2> QED BY <2>2, <2>3, <2>4, <2>5, <2>6, <2>7 DEF CaptureInv, FrameInv
<1> QED BY <1>1, <1>2, <1>3, <1>4, <1>5 DEF Next

\* The inductive invariant of a capture, for any links, channels, sizes,
\* losses and lateness: types, the frames under way and the units of them in
\* the buffers, which frames were read, and what the tracker's tables hold
\* (reassemble_acl_packets and extract_fips_l2cap_frames together).
THEOREM CaptureInvariant == Spec => []CaptureInv
<1>1. Init => CaptureInv BY InitStep
<1>2. CaptureInv /\ [Next]_vars => CaptureInv' BY CaptureNext
<1> QED BY <1>1, <1>2, PTL DEF Spec

\* A frame whose records are in the capture, and follow each other on its
\* connection, reaches the tracker once and whole, whatever was lost before it,
\* on whichever connections, however frames are fragmented and however the two
\* sides of a connection interleave (reassemble_acl_packets).
THEOREM FramesAreIntact == Spec => []FramesIntact
<1>1. ASSUME CaptureInv PROVE FramesIntact
  <2>1. ReadInv /\ log \in Seq(Entries)
        BY <1>1 DEF CaptureInv, FrameInv, CaptureTypeOK, TrackerTypeOK
  <2>2. DOMAIN log = 1 .. Len(log) BY <2>1
  <2> QED BY <2>1, <2>2 DEF ReadInv, ReadOnce, FramesIntact
<1>2. CaptureInv => FramesIntact BY <1>1
<1> QED BY <1>2, CaptureInvariant, PTL

LEMMA LeastOf ==
    ASSUME NEW T \in SUBSET Nat, T # {}
    PROVE  \E x \in T : \A y \in T : x <= y
<1>1. PICK x \in T : \A y \in T : ~(<<y, x>> \in OpToRel(<, Nat))
      BY NatLessThanWellFounded, WFMin
<1>2. \A y \in T : ~(y < x) BY <1>1 DEF OpToRel
<1> QED BY <1>2

\* A handle has a hit exactly when an FMP frame of it was read.
LEMMA HitsAre ==
    ASSUME CaptureTypeOK, NEW h
    PROVE  /\ Hits(h) \in Nat /\ Hits(h) <= Len(log)
           /\ Hits(h) >= 1 <=>
                \E j \in 1 .. Len(log) : log[j].frame.chan.h = h /\ log[j].frame.fmp
<1> DEFINE S == {j \in DOMAIN log : log[j].frame.chan.h = h /\ log[j].frame.fmp}
<1>1. log \in Seq(Entries) /\ DOMAIN log = 1 .. Len(log) /\ Len(log) \in Nat
      BY DEF CaptureTypeOK, TrackerTypeOK
<1>2. IsFiniteSet(1 .. Len(log)) /\ Cardinality(1 .. Len(log)) = Len(log)
  <2>1. 1 \in Int /\ Len(log) \in Int BY <1>1
  <2>2. /\ IsFiniteSet(1 .. Len(log))
        /\ Cardinality(1 .. Len(log)) = IF 1 > Len(log) THEN 0 ELSE Len(log) - 1 + 1
        BY <2>1, FS_Interval
  <2> QED BY <1>1, <2>2
<1>3. S \in SUBSET (1 .. Len(log)) BY <1>1
<1>4. Hits(h) = Cardinality(S) BY DEF Hits
<1>5. (\E j \in 1 .. Len(log) : log[j].frame.chan.h = h /\ log[j].frame.fmp) <=> S # {}
      BY <1>1
<1> HIDE DEF S
<1>6. IsFiniteSet(S) /\ Cardinality(S) <= Len(log) BY <1>2, <1>3, FS_Subset
<1>7. Cardinality(S) \in Nat BY <1>6, FS_CardinalityType
<1>8. Cardinality(S) = 0 <=> S = {} BY <1>6, FS_EmptySet
<1> QED BY <1>4, <1>5, <1>6, <1>7, <1>8

LEMMA MostHits ==
    ASSUME CaptureTypeOK, NEW h \in Handle
    PROVE  LET most == Max({Hits(g) : g \in Handle}) IN
           most \in Nat /\ \E g \in Handle : most = Hits(g)
<1> DEFINE Bounds == {n \in Nat : \A g \in Handle : Hits(g) <= n}
           All == {Hits(g) : g \in Handle}
<1>1. Len(log) \in Nat BY DEF CaptureTypeOK, TrackerTypeOK
<1>2. \A g \in Handle : Hits(g) \in Nat /\ Hits(g) <= Len(log) BY HitsAre
<1>3. PICK n \in Bounds : \A m \in Bounds : n <= m
  <2>1. Len(log) \in Bounds BY <1>1, <1>2
  <2>2. Bounds \in SUBSET Nat OBVIOUS
  <2> HIDE DEF Bounds
  <2> QED BY <2>1, <2>2, LeastOf
<1>4. \E g \in Handle : Hits(g) = n
  <2>1. SUFFICES ASSUME \A g \in Handle : Hits(g) # n PROVE FALSE
        OBVIOUS
  <2>2. \A g \in Handle : Hits(g) <= n - 1 BY <1>2, <1>3, <2>1
  <2>3. n - 1 \in Nat BY <1>2, <1>3, <2>2
  <2>4. n - 1 \in Bounds BY <2>2, <2>3
  <2>5. n <= n - 1 BY <1>3, <2>4
  <2> QED BY <1>3, <2>5
<1>5. n \in All /\ \A m \in All : n >= m BY <1>2, <1>3, <1>4
<1>6. Max(All) \in All
  <2>1. \E x \in All : \A y \in All : x >= y BY <1>5
  <2> HIDE DEF All
  <2> QED BY <2>1 DEF Max
<1> QED BY <1>2, <1>6

\* A handle that is asked for has a hit, and one that has a quarter of the
\* most is asked for.
LEMMA CandidatesAre ==
    ASSUME CaptureTypeOK, NEW h \in Handle
    PROVE  /\ h \in Candidates => Hits(h) >= 1
           /\ Hits(h) >= 1 /\ (\A g \in Handle : Hits(g) <= 4 * Hits(h)) => h \in Candidates
<1> DEFINE most == Max({Hits(g) : g \in Handle})
<1>1. PICK g \in Handle : most = Hits(g) BY MostHits
<1>2. most \in Nat /\ Hits(h) \in Nat BY HitsAre, MostHits
<1>3. h \in Candidates <=> Hits(h) >= EnoughHits(most) BY DEF Candidates
<1> HIDE DEF most
<1>4. most \div 4 \in Nat /\ 4 * (most \div 4) <= most BY <1>2
<1>5. EnoughHits(most) = IF most \div 4 > 1 THEN most \div 4 ELSE 1 BY DEF EnoughHits
<1>6. EnoughHits(most) \in Nat /\ EnoughHits(most) >= 1 BY <1>4, <1>5
<1>7. ASSUME Hits(h) >= 1, \A x \in Handle : Hits(x) <= 4 * Hits(h)
      PROVE  Hits(h) >= EnoughHits(most)
  <2>1. most <= 4 * Hits(h) BY <1>1, <1>7
  <2>2. most \div 4 <= Hits(h) BY <1>2, <1>4, <2>1
  <2> QED BY <1>5, <1>7, <2>2
<1> QED BY <1>2, <1>3, <1>6, <1>7

\* A FIPS frame whose records and whose channel's set-up, answered at once, are
\* in the capture is returned, as long as its signalling can be told apart by
\* what the tracker goes by: whatever records are lost, whichever set-ups
\* overlap, and whatever other responses come in two parts
\* (extract_fips_l2cap_frames).
THEOREM FipsIsReturned == Spec => []AllFips
<1>1. ASSUME CaptureInv PROVE AllFips
  <2>1. /\ ReadInv /\ VerdictInv /\ log \in Seq(Entries)
        BY <1>1 DEF CaptureInv, FrameInv, TrackInv, CaptureTypeOK, TrackerTypeOK
  <2>2. SUFFICES ASSUME Followed, NEW f \in captured, f.chan.psm = "fips", f.chan.setup = "seen"
                 PROVE  IsReturned(f)
        BY DEF AllFips
  <2>3. PICK j \in 1 .. Len(log) : log[j].frame = f BY <2>1 DEF ReadInv, ReadOnce
  <2>4. log[j].fips BY <2>1, <2>2, <2>3 DEF VerdictInv
  <2>5. j \in DOMAIN log BY <2>1
  <2>6. j \in Extracted BY <2>4, <2>5 DEF Extracted
  <2> QED BY <2>3, <2>6 DEF IsReturned
<1>2. CaptureInv => AllFips BY <1>1
<1> QED BY <1>2, CaptureInvariant, PTL

\* Only frames of FIPS channels are returned from a capture that holds every
\* channel's set-up, answered at once, by the tracker or by the fallback, as
\* long as its signalling can be told apart by what the tracker goes by,
\* whatever records are lost (extract_fips_l2cap_frames, _detect_fips_cids).
THEOREM OnlyFipsIsReturned == Spec => []OnlyFipsWhenTracked
<1>1. ASSUME CaptureInv PROVE OnlyFipsWhenTracked
  <2>1. CaptureTypeOK /\ VerdictInv /\ log \in Seq(Entries)
        BY <1>1 DEF CaptureInv, TrackInv, CaptureTypeOK, TrackerTypeOK
  <2>2. DOMAIN log = 1 .. Len(log) /\ \A j \in 1 .. Len(log) : log[j].frame \in DataFrames
    <3>1. \A j \in 1 .. Len(log) : log[j] \in Entries BY <2>1
    <3> QED BY <2>1, <3>1 DEF Entries
  <2>3. SUFFICES ASSUME Followed, \A j \in DOMAIN log : log[j].frame.chan.setup = "seen",
                        NEW j \in Extracted
                 PROVE  log[j].frame.chan.psm = "fips"
        BY DEF OnlyFipsWhenTracked, OnlyFips
  <2>4. \A i \in 1 .. Len(log) : log[i].fips <=> log[i].frame.chan.psm = "fips"
        BY <2>1, <2>2, <2>3 DEF VerdictInv
  <2>5. j \in DOMAIN log BY DEF Extracted
  <2>6. CASE log[j].fips BY <2>2, <2>4, <2>5, <2>6
  <2>7. CASE ~log[j].fips
    <3>1. /\ \A i \in DOMAIN log : ~log[i].fips
          /\ log[j].frame.chan.h \in Candidates
          BY <2>7 DEF Extracted
    <3>2. Hits(log[j].frame.chan.h) >= 1
      <4>1. log[j].frame.chan.h \in Handle BY <3>1 DEF Candidates
      <4> QED BY <2>1, <3>1, <4>1, CandidatesAre
    <3>3. PICK i \in 1 .. Len(log) : log[i].frame.fmp BY <2>1, <3>2, HitsAre
    <3>4. log[i].frame.chan.psm = "fips" BY <2>2, <3>3 DEF DataFrames
    <3> QED BY <2>2, <2>4, <3>1, <3>4
  <2> QED BY <2>6, <2>7
<1>2. CaptureInv => OnlyFipsWhenTracked BY <1>1
<1> QED BY <1>2, CaptureInvariant, PTL

\* As long as no set-up could be followed, the frames of a connection on which
\* an FMP frame was seen are returned, unless another connection has more than
\* four times its FMP frames: however many records are lost and however
\* channels overlap (_detect_fips_cids).
THEOREM LateCapturesWork == Spec => []LateCaptureReturned
<1>1. ASSUME CaptureInv PROVE LateCaptureReturned
  <2>1. /\ CaptureTypeOK /\ ReadInv /\ BlankInv /\ log \in Seq(Entries)
        /\ captured \subseteq DataFrames
        BY <1>1 DEF CaptureInv, FrameInv, TrackInv, CaptureTypeOK, TrackerTypeOK
  <2>2. SUFFICES ASSUME \A c \in DOMAIN active : active[c] = None, NEW f \in captured, NEW g \in captured,
                        f.fmp, f.chan.h = g.chan.h,
                        \A k \in Handle : Hits(k) <= 4 * Hits(f.chan.h)
                 PROVE  IsReturned(g)
        BY DEF LateCaptureReturned
  <2>3. PICK i \in 1 .. Len(log) : log[i].frame = f BY <2>1 DEF ReadInv, ReadOnce
  <2>4. PICK j \in 1 .. Len(log) : log[j].frame = g BY <2>1 DEF ReadInv, ReadOnce
  <2>5. DOMAIN log = 1 .. Len(log) BY <2>1
  <2>6. Extracted = {x \in DOMAIN log : log[x].frame.chan.h \in Candidates}
    <3>0. DOMAIN active = Cid BY <2>1 DEF CaptureTypeOK, TrackerTypeOK
    <3>1. {x \in DOMAIN log : log[x].fips} = {} BY <2>1, <2>2, <2>5, <3>0 DEF BlankInv
    <3> QED BY <3>1 DEF Extracted
  <2>7. f.chan.h \in Handle BY <2>1 DEF DataFrames, Channels
  <2>8. Hits(f.chan.h) >= 1 BY <2>1, <2>2, <2>3, HitsAre
  <2>9. f.chan.h \in Candidates BY <2>1, <2>2, <2>7, <2>8, CandidatesAre
  <2>10. j \in Extracted BY <2>2, <2>4, <2>5, <2>6, <2>9
  <2> QED BY <2>4, <2>10 DEF IsReturned
<1>2. CaptureInv => LateCaptureReturned BY <1>1
<1> QED BY <1>2, CaptureInvariant, PTL
=============================================================================
