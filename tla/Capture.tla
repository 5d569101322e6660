------------------------------- MODULE Capture -------------------------------
(***************************************************************************)
(* A Bluetooth capture from the hosts to the extracted FIPS frames: two    *)
(* hosts per connection set up channels and exchange data, the controllers *)
(* transport their frames fragment by fragment, btmon writes a record per  *)
(* fragment, may start late and may lose some; then AclReassembly makes    *)
(* frames of the records and CocTracker picks those of FIPS channels.      *)
(*                                                                         *)
(* Either host may request channels, the other answers with the same       *)
(* identifier; each side numbers channels and requests on its own, on each *)
(* connection anew.  A signalling command fits one fragment.  What one     *)
(* side sends on a connection it sends in order, a frame after the other;  *)
(* the two sides of a connection, and the connections, interleave freely.  *)
(***************************************************************************)
EXTENDS AclReassembly, CocTracker

CONSTANTS
    Late,        \* channels may be open, and frames under way, at the start
    MaxSetups,   \* bound on channels and requests
    MaxFrames,   \* bound on data frames
    MaxLost      \* bound on the records btmon loses

Side == {"local", "remote"}
Other(side) == IF side = "local" THEN "remote" ELSE "local"

\* What the capture holds of a set-up: all of it, a "pending" response as well,
\* or not all of it.
Setup == {"seen", "deferred", "missed"}

\* A request, a channel, a frame on it, which looks like FMP for the FIPS
\* service alone, a signalling command, and the transport of a data frame.
Requests == [h : Handle, init : Side, ident : Ident, psm : Psm, scid : Cid, setup : Setup]
Channels == [h : Handle, init : Side, psm : Psm, scid : Cid, dcid : Cid, setup : Setup]
DataFrames ==
    {f \in [kind : {"data"}, chan : Channels, fmp : BOOLEAN, no : Nat, cid : Cid] :
        f.fmp => f.chan.psm = "fips"}
Commands ==
    [kind : {"request"}, request : Requests]
    \cup [kind : {"response"}, request : Requests, dcid : Cid, accepted : BOOLEAN]
Transports == [frame : DataFrames, size : Size, next : Nat \ {0}, whole : BOOLEAN]

ASSUME CaptureAssumption ==
    /\ Late \in BOOLEAN
    /\ {MaxSetups, MaxFrames, MaxLost} \subseteq Nat
    /\ None \notin Transports

VARIABLES
    requests,    \* outstanding channel requests
    channels,    \* open channels
    setups,      \* channels ever open or requested
    frames,      \* data frames sent
    air,         \* per handle and side, the data frame under way
    lost,        \* records lost
    buffers,     \* the reassembly, per handle: units not yet returned
    \* History:
    captured,    \* data frames all of whose records are in the file, with no
                 \* other record of the connection between them
    unanswered,  \* requests in the file whose responses are not
    crossed,     \* some two requests outstanding, as far as the file tells,
                 \* had the same identifier or the same CID
    shared,      \* some two channels of different services open at once had
                 \* a CID in common, be it on different connections
    garbled      \* a frame came out of the middle of one, or too late: its
                 \* channel had closed

hostVars == <<requests, channels, setups, unanswered, crossed, shared>>
decoderVars == <<buffers, trackerVars, garbled>>
vars == <<hostVars, frames, air, lost, captured, decoderVars>>

Quiet(h, side) == air[h][side] = None

-----------------------------------------------------------------------------
(* btmon and the decoder *)

\* What the middle of a frame may be read as: data of any CID, or a command.
Strays(frame) ==
    {f \in [kind : {"data"}, chan : {frame.chan}, fmp : BOOLEAN, no : {0}, cid : Cid] :
        f.fmp => f.chan.psm = "fips"}
    \cup Commands

Belated(frame) == frame.kind = "data" /\ frame.chan \notin channels

\* The tracker reads a frame by the header in its first unit; without one it
\* reads anything, and ignores what has an unknown CID.
Read(units) ==
    LET frame == Head(units).frame IN
    IF Head(units).i = 1
    THEN /\ Track(frame, units = FrameUnits(frame, Head(units).size))
         /\ garbled' = (garbled \/ Belated(frame))
    ELSE /\ garbled' = TRUE
         /\ UNCHANGED trackerVars \/ \E stray \in Strays(frame) : Track(stray, FALSE)

\* A record of `fragment`.
Record(h, fragment, side) ==
    /\ \E fed \in Feed(buffers[h], fragment, PbFlag(side = "local", Head(fragment).i)) :
         /\ buffers' = [buffers EXCEPT ![h] = fed.buf]
         /\ IF fed.out = <<>> THEN UNCHANGED <<trackerVars, garbled>> ELSE Read(Head(fed.out))
    /\ UNCHANGED lost

\* btmon drops the record; the decoder ignores the drop counter.
Lose ==
    /\ lost < MaxLost
    /\ lost' = lost + 1
    /\ UNCHANGED decoderVars

\* A record of one side cuts into the frame under way of the other.
Cut(a) == IF a # None /\ a.next > 1 THEN [a EXCEPT !.whole = FALSE] ELSE a

\* A fragment crosses the HCI, captured or lost, which leaves its side with
\* the transport `rest`.
Write(h, side, fragment, rest, seen) ==
    /\ IF seen THEN Record(h, fragment, side) ELSE Lose
    /\ air' = [air EXCEPT ![h] =
                 [s \in Side |-> IF s = side THEN rest ELSE IF seen THEN Cut(@[s]) ELSE @[s]]]

-----------------------------------------------------------------------------
(* The hosts: signalling *)

\* CIDs a side of link h has in use.
InUse(h, side) ==
    {c.scid : c \in {x \in channels \cup requests : x.h = h /\ x.init = side}}
    \cup {c.dcid : c \in {x \in channels : x.h = h /\ x.init # side}}

\* A signalling command of one side.
Command(h, side, command, seen) ==
    /\ Quiet(h, side)
    /\ Write(h, side, FrameUnits(command, 1), None, seen)
    /\ UNCHANGED <<frames, captured>>

Request(h, side, seen) ==
    /\ setups < MaxSetups
    /\ \E psm \in Psm, scid \in Cid \ InUse(h, side),
          i \in Ident \ {r.ident : r \in {x \in requests : x.h = h /\ x.init = side}} :
         LET r == [h |-> h, init |-> side, ident |-> i, psm |-> psm, scid |-> scid,
                   setup |-> IF seen THEN "seen" ELSE "missed"]
         IN  /\ requests' = requests \cup {r}
             /\ crossed' = (crossed \/ \E q \in requests \cup unanswered :
                                          q.ident = i \/ q.scid = scid)
             /\ Command(h, side, [kind |-> "request", request |-> r], seen)
    /\ setups' = setups + 1
    /\ UNCHANGED <<channels, unanswered, shared>>

\* The other side of r answers.
Answer(r, dcid, accepted, seen) ==
    Command(r.h, Other(r.init),
            [kind |-> "response", request |-> r, dcid |-> dcid, accepted |-> accepted], seen)

\* BR/EDR only: "pending", the answer will follow.
Postpone(r, seen) ==
    /\ r.h \in Classic
    /\ Answer(r, r.scid, FALSE, seen)
    /\ requests' = IF seen /\ r.setup = "seen"
                   THEN (requests \ {r}) \cup {[r EXCEPT !.setup = "deferred"]} ELSE requests
    /\ UNCHANGED <<channels, setups, unanswered, crossed, shared>>

Respond(r, dcid, accepted, seen) ==
    /\ Answer(r, dcid, accepted, seen)
    /\ requests' = requests \ {r}
    /\ unanswered' = IF r.setup = "seen" /\ ~seen THEN unanswered \cup {r} ELSE unanswered
    /\ UNCHANGED <<setups, crossed>>

Channel(r, dcid, seen) ==
    [h |-> r.h, init |-> r.init, psm |-> r.psm, scid |-> r.scid, dcid |-> dcid,
     setup |-> IF seen THEN r.setup ELSE "missed"]

Cids(c) == {c.scid, c.dcid}

Accept(r, seen) ==
    \E dcid \in Cid \ InUse(r.h, Other(r.init)) :
        LET new == Channel(r, dcid, seen)
        IN  /\ channels' = channels \cup {new}
            /\ shared' = (shared \/ \E c \in channels :
                                       c.psm # new.psm /\ Cids(c) \cap Cids(new) # {})
            /\ Respond(r, dcid, TRUE, seen)

\* The response carries an error result; its dcid means nothing.
Refuse(r, seen) ==
    /\ Respond(r, r.scid, FALSE, seen)
    /\ UNCHANGED <<channels, shared>>

\* Disconnection requests are not tracked.  Both sides have sent out the
\* frames they had begun.
Disconnect(c) ==
    /\ \A side \in Side : ~Quiet(c.h, side) => air[c.h][side].frame.chan # c
    /\ channels' = channels \ {c}
    /\ UNCHANGED <<requests, setups, unanswered, crossed, shared, frames, air, lost, captured,
                   decoderVars>>

-----------------------------------------------------------------------------
(* The hosts: data *)

Frame(c, side, fmp, no) ==
    [kind |-> "data", chan |-> c, fmp |-> fmp, no |-> no,
     cid |-> IF side = c.init THEN c.dcid ELSE c.scid]

UnderWay(frame, size, next, whole) ==
    [frame |-> frame, size |-> size, next |-> next, whole |-> whole]

\* One side sends on channel c, addressing the CID of the other.  On a FIPS
\* channel the payload is an FMP frame or the key exchange before it; other
\* services never look like FMP.
Send(c, side) ==
    /\ frames < MaxFrames /\ Quiet(c.h, side)
    /\ \E size \in Size, fmp \in BOOLEAN :
         /\ fmp => c.psm = "fips"
         /\ air' = [air EXCEPT ![c.h][side] =
                      UnderWay(Frame(c, side, fmp, frames + 1), size, 1, TRUE)]
    /\ frames' = frames + 1
    /\ UNCHANGED <<hostVars, lost, captured, decoderVars>>

\* k units of the frame that a side has under way on h cross the HCI.
Fragment(h, side, k, seen) ==
    LET a == air[h][side]
        last == a.next + k - 1
        whole == a.whole /\ seen
    IN  /\ ~Quiet(h, side)
        /\ last <= a.size
        /\ Write(h, side, SubSeq(FrameUnits(a.frame, a.size), a.next, last),
                 IF last = a.size THEN None ELSE [a EXCEPT !.next = last + 1, !.whole = whole],
                 seen)
        /\ captured' = IF last = a.size /\ whole THEN captured \cup {a.frame} ELSE captured
        /\ UNCHANGED <<hostVars, frames>>

-----------------------------------------------------------------------------
\* The capture may start with a channel open, in the middle of its frames.
OpenBefore == {c \in Channels : c.setup = "missed"}

LastOf(c, side, size) == UnderWay(Frame(c, side, FALSE, 0), size, size, FALSE)

AirBefore(c) ==
    {a \in [Side -> {None} \cup {LastOf(c, side, size) : side \in Side, size \in Size}] :
        \A side \in Side : a[side] # None =>
            \E size \in Size \ {1} : a[side] = LastOf(c, side, size)}

Init ==
    /\ requests = {} /\ frames = 0 /\ lost = 0 /\ captured = {}
    /\ unanswered = {} /\ crossed = FALSE /\ shared = FALSE /\ garbled = FALSE
    /\ \/ channels = {} /\ setups = 0 /\ air = [h \in Handle |-> [side \in Side |-> None]]
       \/ /\ Late
          /\ \E c \in OpenBefore : \E a \in AirBefore(c) :
               /\ channels = {c} /\ setups = 1
               /\ air = [h \in Handle |-> IF h = c.h THEN a ELSE [side \in Side |-> None]]
    /\ buffers = [h \in Handle |-> <<>>]
    /\ TrackerInit

Next ==
    \/ \E h \in Handle, side \in Side, seen \in BOOLEAN : Request(h, side, seen)
    \/ \E r \in requests, seen \in BOOLEAN : Postpone(r, seen) \/ Accept(r, seen) \/ Refuse(r, seen)
    \/ \E c \in channels : Disconnect(c) \/ \E side \in Side : Send(c, side)
    \/ \E h \in Handle, side \in Side, k \in 1 .. Max(Size), seen \in BOOLEAN :
          Fragment(h, side, k, seen)

Spec == Init /\ [][Next]_vars

-----------------------------------------------------------------------------
(* Properties *)

IsReturned(frame) == \E j \in Extracted : log[j].frame = frame

\* A frame whose records are in the capture, and follow each other on its
\* connection, reaches the tracker once and with all its units in order,
\* whatever was lost or mixed before it and whatever other connections carry
\* meanwhile (reassemble_acl_packets keeps a buffer per handle, and a start
\* replaces what is in it).
FramesIntact ==
    \A f \in captured : \E j \in DOMAIN log :
        log[j].frame = f /\ log[j].intact /\ \A k \in DOMAIN log : log[k].frame = f => k = j

\* reassemble_acl_packets: fragments become "complete L2CAP frames".
FramesWhole == \A j \in DOMAIN log : log[j].intact

\* The accepted frames are FIPS traffic; the published artifacts are called
\* privacy-filtered on that ground.
OnlyFips == \A j \in Extracted : log[j].frame.chan.psm = "fips"

\* The signalling so far can be told apart by identifier and CID alone, which
\* is all the tracker goes by.
Followed == ~crossed /\ ~shared /\ ~garbled

\* _detect_fips_cids: "Identify CIDs carrying FIPS traffic", in any capture
\* whose signalling can be followed as far as it goes.
OnlyFipsDetected == Followed => OnlyFips

\* extract_fips_l2cap_frames, "filter by known PSM 133 CIDs", in a capture with
\* every set-up and whole frames only, where the CIDs are not.
OnlyFipsCids ==
    ~crossed /\ ~garbled /\ (\A j \in DOMAIN log : log[j].frame.chan.setup = "seen") => OnlyFips

\* Frames are FIPS traffic in a capture that holds every channel's set-up,
\* answered at once, and whose signalling can be followed, whatever else it
\* has lost.
OnlyFipsWhenTracked ==
    Followed /\ (\A j \in DOMAIN log : log[j].frame.chan.setup = "seen") => OnlyFips

\* A FIPS frame whose records and whose channel's set-up, answered at once,
\* are in a capture whose signalling can be followed is returned: neither a
\* lost record nor a mangled neighbour nor the tables' old entries cost it.
AllFips ==
    Followed => \A f \in captured : f.chan.psm = "fips" /\ f.chan.setup = "seen" => IsReturned(f)

\* extract_fips_l2cap_frames, "Track L2CAP CoC connections via signalling":
\* the same of FMP frames where the response came in two parts, both captured.
AllFipsWhenDeferred ==
    Followed => \A f \in captured : f.fmp /\ f.chan.setup # "missed" => IsReturned(f)

\* The same of FMP frames whose channel was set up, by a request and its answer
\* in the capture, while another set-up with the same identifier or CID was
\* under way.
AllFipsOverlapping ==
    ~shared /\ ~garbled =>
        \A f \in captured : f.fmp /\ f.chan.setup = "seen" => IsReturned(f)

\* As long as no set-up could be followed, started late or with the response
\* lost: once an FMP frame has been seen on a connection, every captured FIPS
\* frame of it is returned, unless another connection has more than four
\* times its FMP frames.
LateCaptureReturned ==
    (\A c \in DOMAIN active : active[c] = None) =>
        \A f, g \in captured :
            /\ f.fmp /\ f.chan.h = g.chan.h /\ g.chan.psm = "fips"
            /\ \A k \in Handle : Hits(k) <= 4 * Hits(f.chan.h)
            => IsReturned(g)
=============================================================================
