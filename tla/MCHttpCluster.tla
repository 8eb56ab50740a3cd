--------------------------- MODULE MCHttpCluster ---------------------------
(* Three nodes on one HTTP port, as in docker-compose.yml *)
EXTENDS HttpCluster, TLC

CONSTANTS n1, n2, n3

ThreeNodes == {n1, n2, n3}

OnePort == [n \in ThreeNodes |-> 8080]
PeerPort == [n \in ThreeNodes |-> 9081]

(* default-server of the two backends; read_backend's checks are shortened *)
Rises == [write |-> 1, read |-> 1]
Falls == [write |-> 2, read |-> 1]

Req(method, level, key, value) == [method |-> method, level |-> level, key |-> key, value |-> value]

Writes ==
    {Req("PUT", "eventual", 1, 1),
     Req("PUT", "eventual", 1, 1048576 + 1024),
     Req("PUT", "eventual", 1, 1048576 + 1025),
     Req("PUT", "eventual", 512, 1),
     Req("PUT", "eventual", 513, 1),
     Req("DELETE", "eventual", 1, 0),
     Req("DELETE", "eventual", 0, 0)}

Reads ==
    {Req("GET", "linearizable", 1, 0),
     Req("GET", "eventual", 1, 0),
     Req("GET", "eventual", 512, 0),
     Req("GET", "unknown", 1, 0)}

(* A client that writes, within and at the limits, and then reads *)
WriteThenRead == [c \in {"client"} |-> <<Writes, Reads>>]
=============================================================================
