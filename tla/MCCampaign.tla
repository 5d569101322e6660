----------------------------- MODULE MCCampaign -----------------------------
EXTENDS Campaign, TLC

CONSTANTS mac, linux, esp, ble, zigble

MCNode == {mac, linux, esp}
MCFips == {mac, linux}
MCLinks == {{mac, linux}, {linux, esp}}
\* zigble stands for a name that ends in "-ble" and sorts after it.
MCPlan == <<zigble, ble>>
MCNameRank == esp :> 1 @@ linux :> 2 @@ mac :> 3
MCRank == ble :> 1 @@ zigble :> 2
MCSuffix == {<<zigble, ble>>}
MCKnowns == {{mac, linux, esp}, {mac, esp}}
\* A scenario without assertions of its own, and one with one of each kind.
MCChecks == {{}, Check}
Link(peer, no) == [kind |-> "link", peer |-> peer, no |-> no]
Session(peer) == [kind |-> "session", peer |-> peer, no |-> 0]
\* None, one end's, and both ends' with the ways they may differ: no key, keys
\* of another peer, session keys alone, a rekey.
MCKeylogs == {
    <<>>,
    linux :> {Link(esp, 0)},
    mac :> {Session(linux)} @@ linux :> {},
    mac :> {} @@ linux :> {Link(mac, 0)},
    mac :> {Session(linux)} @@ linux :> {Link(mac, 0), Link(mac, 1), Session(mac)}}
\* Both ends of the BLE link may drop it on their own; the handshake of one
\* is seen while the other does not list it yet.  The esp is away only while
\* mac has the BLE link or neither end has it.
MCViews == {s \in Sample :
    /\ s[mac][esp] = "absent" /\ s[linux][mac] # "handshake" /\ s[linux][esp] # "handshake"
    /\ s[mac][linux] = "handshake" => s[linux][mac] = "absent"
    /\ s[linux][esp] = "absent" =>
          s[mac][linux] = "connected" \/ (s[mac][linux] = "absent" /\ s[linux][mac] = "absent")}

\* The assertions of regression-l2cap-dialect.yaml, of a link that comes and
\* goes: its polls are 15 s apart and its within_secs is 45.
OneScenario == <<ble>>
L2capChecks == {{"peer_connected", "max_disconnects", "reconnect_within"}}
OneKeylog == {mac :> {Link(linux, 0)} @@ linux :> {Link(mac, 0)}}
EspViews == {s \in MCViews : s[mac][linux] = "connected" /\ s[linux][mac] = "connected"}
=============================================================================
