----------------------------- MODULE CocTracker ------------------------------
(***************************************************************************)
(* Which L2CAP frames of a capture are FIPS traffic:                       *)
(* extract_fips_l2cap_frames, _process_signalling and _detect_fips_cids of *)
(* lab/capture/btsnoop_decrypt.py.  The tracker reads signalling and data  *)
(* frames in order and keys what it learns by CID and by identifier alone. *)
(***************************************************************************)
EXTENDS Naturals, Sequences, FiniteSets, FiniteSetsExt

CONSTANTS
    Handle,
    Classic,     \* handles of BR/EDR links; the others are LE links
    Cid, Ident,  \* dynamic CIDs, signalling identifiers
    Psm,         \* service of a channel: "fips" (PSM 133) or "other"
    None

ASSUME CocAssumption ==
    /\ Classic \subseteq Handle
    /\ Psm \subseteq {"fips", "other"}
    /\ None \notin Cid \cup {"fips", "other"}

VARIABLES
    pending,      \* CID of a request -> its PSM
    active,       \* CID of a channel -> its PSM
    ident_to_scid,
    log           \* data frames read, whole or not, and the verdict on them

trackerVars == <<pending, active, ident_to_scid, log>>

-----------------------------------------------------------------------------
(* Signalling *)

\* Pop a request by identifier.
PopIdent(i) == [ident_to_scid EXCEPT ![i] = None]

\* The pending request a response names: by its identifier; a BR/EDR
\* response, which carries the scid, falls back to that.
Named(h, i, scid) ==
    LET byIdent == ident_to_scid[i] IN
    IF byIdent # None /\ pending[byIdent] # None THEN byIdent
    ELSE IF h \in Classic /\ pending[scid] # None THEN scid ELSE None

\* The CIDs under which an accepted channel is entered: the responder's and
\* the request's (LE) or the response's scid (BR/EDR).
\* Mutant: the responder's only.
ResponderOnly(h, named, scid, dcid) == {dcid}
Entered(h, named, scid, dcid) == {dcid, IF h \in Classic THEN scid ELSE named}

TrackRequest(r) ==
    /\ pending' = [pending EXCEPT ![r.scid] = r.psm]
    /\ ident_to_scid' = [ident_to_scid EXCEPT ![r.ident] = r.scid]
    /\ UNCHANGED <<active, log>>

\* What is found leaves pending, accepted or not.
TrackResponse(r, dcid, accepted) ==
    LET named == Named(r.h, r.ident, r.scid) IN
    /\ ident_to_scid' = PopIdent(r.ident)
    /\ pending' = [c \in Cid |-> IF c = named THEN None ELSE pending[c]]
    /\ active' = IF accepted /\ named # None
                 THEN [c \in Cid |-> IF c \in Entered(r.h, named, r.scid, dcid)
                                     THEN pending[named] ELSE active[c]]
                 ELSE active
    /\ UNCHANGED log

-----------------------------------------------------------------------------
(* Data frames *)

\* A frame on this CID goes to fips_frames, otherwise to all_dynamic.
\* Mutant: every tracked channel counts.
Tracked(cid) == active[cid] # None
IsFips(cid) == active[cid] = "fips"

TrackData(frame, intact) ==
    /\ log' = Append(log, [frame |-> frame, intact |-> intact, fips |-> IsFips(frame.cid)])
    /\ UNCHANGED <<pending, active, ident_to_scid>>

Hits(h) == Cardinality({j \in DOMAIN log : log[j].frame.chan.h = h /\ log[j].frame.fmp})

\* _detect_fips_cids is given tuples whose fourth element is the connection
\* handle, so it returns handles.  Mutant: more hits than the best are asked.
TooManyHits(most) == most + 1
EnoughHits(most) == IF most \div 4 > 1 THEN most \div 4 ELSE 1
Candidates == {h \in Handle : Hits(h) >= EnoughHits(Max({Hits(g) : g \in Handle}))}

\* What extract_fips_l2cap_frames returns for the frames so far.
Extracted ==
    LET fips == {j \in DOMAIN log : log[j].fips} IN
    IF fips # {} THEN fips ELSE {j \in DOMAIN log : log[j].frame.chan.h \in Candidates}

-----------------------------------------------------------------------------
\* One frame, by its CID and code.
Track(frame, intact) ==
    CASE frame.kind = "request" -> TrackRequest(frame.request)
      [] frame.kind = "response" -> TrackResponse(frame.request, frame.dcid, frame.accepted)
      [] frame.kind = "data" -> TrackData(frame, intact)

TrackerInit ==
    /\ pending = [c \in Cid |-> None]
    /\ active = [c \in Cid |-> None]
    /\ ident_to_scid = [i \in Ident |-> None]
    /\ log = <<>>
=============================================================================
