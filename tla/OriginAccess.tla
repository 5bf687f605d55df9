--------------------------- MODULE OriginAccess -----------------------------
(***************************************************************************)
(* What nginx answers to a request for the OTA files under each of the      *)
(* configurations the operators of src/ops render, and the cases their      *)
(* private fixtures try before anything is activated.                       *)
(*                                                                         *)
(* A request has a path as it is sent, a method, the address of its socket  *)
(* and the identity it carries; forwarded headers have no say.  Status 200  *)
(* stands for every answer of the upstream (204 in one fixture).            *)
(***************************************************************************)
EXTENDS Integers

\* nginx normalises the path before it compares it: $uri.
ImagePaths == {"/firmware.bin", "/%66irmware.bin", "//firmware.bin", "/x/../firmware.bin"}
ManifestPaths == {"/version.json", "/%76ersion.json"}
Uri(path) == IF path \in ImagePaths THEN "/firmware.bin"
             ELSE IF path \in ManifestPaths THEN "/version.json" ELSE "other"

Reads == {"HEAD", "GET"}
Changing == {"POST", "PUT", "DELETE"}
OtaUris == {"/version.json", "/firmware.bin"}

Request(path, method, peer, user) == [uri |-> Uri(path), method |-> method, peer |-> peer, user |-> user]

\* The addresses: two that every plan allows, the LAN of the NAS that an
\* update may add, the box seen on the public network, and two strangers.
Home == {"127.0.0.1", "tailnet"}
Strangers == {"198.51.100.10", "2001:db8::10"}
Peers == Home \cup {"nas_lan", "field"} \cup Strangers

\* What was sent as identity: none, the OTA account with its password or with
\* another one, or a different account.
Users == {"none", "right", "wrong", "other"}

-----------------------------------------------------------------------------
(* install_ota_origin_guard.render: geo marks the allowed addresses, map    *)
(* rejects the image for the others, whatever the method.                   *)

GuardAnswer(allowed, r) ==
  IF r.uri = "/firmware.bin" /\ r.peer \notin allowed THEN 403 ELSE 200

\* The fixture's cases: path, address, status; each tried with HEAD and GET.
GuardCases(allowed) ==
  {<<p, a, 403>> : p \in {"/firmware.bin"}, a \in Strangers}
    \cup {<<p, "198.51.100.10", 403>> : p \in {"/%66irmware.bin", "//firmware.bin", "/x/../firmware.bin"}}
    \cup {<<p, "198.51.100.10", 200>> :
            p \in {"/version.json", "/gatekeeper_apk/app.apk", "/firmware/gatekeeper.sgkenc"}}
    \cup {<<"/firmware.bin", a, 200>> : a \in allowed}

GuardFixturePasses(allowed) ==
  \A c \in GuardCases(allowed) : \A m \in Reads :
    GuardAnswer(allowed, Request(c[1], m, c[2], "none")) = c[3]

-----------------------------------------------------------------------------
(* authenticated_ota_origin.render: the realm map, and one exact location   *)
(* per OTA file with limit_except and auth_basic.                           *)

\* "~^1: off" for an allowed address, "0:1:1" off for the bootstrap peer in its
\* time, the realm for everybody else.
Realm(allowed, peers, timeValid, r) ==
  IF r.peer \in allowed \/ (r.peer \in peers /\ timeValid) THEN "off" ELSE "SmartBox OTA"

\* limit_except denies before auth_basic asks.
AuthAnswer(realm, users, r) ==
  IF r.uri \notin OtaUris THEN 200
  ELSE IF r.method \notin Reads THEN 403
  ELSE IF realm = "off" \/ r.user \in users THEN 200
  ELSE 401

\* The fixture's cases: path, address, identity, status; with HEAD and GET.
\* A bootstrap peer is given when the window is to be tried, or its expiry.
AuthCases(allowed, peers, expired) ==
  {<<p, a, u, IF u = "right" THEN 200 ELSE 401>> :
     p \in {"/version.json", "/firmware.bin", "/%66irmware.bin", "//firmware.bin", "/x/../firmware.bin"},
     a \in Strangers, u \in {"none", "wrong", "right"}}
    \cup {<<p, a, "none", 200>> : p \in OtaUris, a \in allowed}
    \cup {<<p, "198.51.100.10", "none", 200>> :
            p \in {"/gatekeeper_apk/app.apk", "/firmware/gatekeeper.sgkenc"}}
    \cup {<<p, a, "none", IF expired THEN 401 ELSE 200>> : p \in OtaUris, a \in peers}

\* And the methods that would change something: 403, with the right identity.
AuthFixturePasses(allowed, peers, expired) ==
  LET answer(r) == AuthAnswer(Realm(allowed, peers, ~expired, r), {"right"}, r)
  IN /\ \A c \in AuthCases(allowed, peers, expired) : \A m \in Reads :
          answer(Request(c[1], m, c[2], c[3])) = c[4]
     /\ \A p \in OtaUris : \A m \in Changing : \A a \in {"127.0.0.1", "198.51.100.10"} :
          answer(Request(p, m, a, "right")) = 403

-----------------------------------------------------------------------------
(* ota_diagnostic_fault._render: inside its window the manifest of one peer *)
(* and one account is rewritten to a path that is not there, and the        *)
(* phases of auth and access still run.                                     *)

FaultAnswer(peer, account, open, r) ==
  IF r.uri \notin OtaUris THEN 200
  ELSE IF r.method \notin Reads THEN 403
  ELSE IF r.user \notin {"right", "other"} THEN 401
  ELSE IF r.uri = "/version.json" /\ r.peer = peer /\ r.user = account /\ open THEN 404
  ELSE 200

FaultCases(peer, open) ==
  {<<p, peer, "right", IF open THEN 404 ELSE 200>> : p \in {"/version.json", "/%76ersion.json"}}
    \cup {<<p, peer, u, 401>> : p \in OtaUris, u \in {"wrong"}}
    \cup {<<"/version.json", peer, "none", 401>>, <<"/version.json", peer, "other", 200>>,
          <<"/version.json", "127.0.0.2", "right", 200>>, <<"/firmware.bin", peer, "right", 200>>}
    \cup {<<p, peer, "none", 200>> : p \in {"/gatekeeper_apk/app.apk", "/firmware/gatekeeper.sgkenc"}}

FaultFixturePasses(peer, open) ==
  LET answer(r) == FaultAnswer(peer, "right", open, r)
  IN /\ \A c \in FaultCases(peer, open) : \A m \in Reads :
          answer(Request(c[1], m, c[2], c[3])) = c[4]
     /\ \A p \in OtaUris : \A m \in Changing : answer(Request(p, m, peer, "right")) = 403

-----------------------------------------------------------------------------
(* observe_ota_origin.repair_candidate: the one private LAN of the NAS from *)
(* which the box was refused, if there is exactly one.                      *)

\* A record of the trace: [uri, status, esp32, peer]; a LAN is the set of its
\* addresses.  "several" stands for the error.
RepairCandidate(records, lans, allowed) ==
  LET refused(lan) == \E row \in records :
        /\ row.uri = "/firmware.bin" /\ row.status = 403 /\ row.esp32
        /\ row.peer \notin allowed /\ row.peer \in lan
        /\ \A other \in lans : row.peer \in other => other = lan
      eligible == {lan \in lans : refused(lan)}
  IN CASE eligible = {} -> {}
       [] \E lan \in eligible : eligible = {lan} -> CHOOSE lan \in eligible : TRUE
       [] OTHER -> {"several"}

\* bootstrap_authenticated_ota: the whole image went to a box, and afterwards
\* the bound box asked for the manifest with the bound account.
MatchingTransfer(row) ==
  row.uri = "/firmware.bin" /\ row.method = "GET" /\ row.status = 200 /\ row.whole /\ row.esp32

AuthenticatedCheck(row, peer) ==
  /\ row.peer = peer /\ row.uri = "/version.json" /\ row.method = "GET" /\ row.status = 200
  /\ row.user = "right" /\ row.realm # "off" /\ row.esp32
=============================================================================
