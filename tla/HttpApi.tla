------------------------------ MODULE HttpApi ------------------------------
(***************************************************************************)
(* The HTTP face of one node (d-lmdb-server/src/http): which requests are  *)
(* turned down before and by the DLmdb handle, and what a d_lmdb::Error    *)
(* becomes on the wire.  A key or a value is its length in bytes; a key of *)
(* length 0 stands for every key that ValidKey turns down.                 *)
(***************************************************************************)
EXTENDS Naturals

CONSTANTS
    Nodes,          \* members of the cluster, by host name
    NoNode,         \* stands for "no node"
    HttpPort,       \* per node: the port of [http] listen_address
    RaftPort,       \* per node: the port of [cluster] listen_address
    MaxKeyBytes,    \* max_key_bytes
    MaxValueBytes,  \* max_value_bytes
    LmdbMaxKey,     \* external: the longest key LMDB takes
    AxumBodyLimit   \* external: the longest body axum collects into Bytes

(* rewrite_to_http_address "assumes every node in the cluster serves HTTP   *)
(* on the same port"; every config the repository ships does                *)
ASSUME PortAssumption ==
    /\ HttpPort \in [Nodes -> Nat] /\ RaftPort \in [Nodes -> Nat]
    /\ \A m, n \in Nodes : HttpPort[m] = HttpPort[n]

ASSUME NoNodeAssumption == NoNode \notin Nodes

Levels == {"eventual", "linearizable", "lease", "unknown"}

Request == [method : {"PUT", "GET", "DELETE"}, level : Levels, key : Nat, value : Nat]

IsWrite(op) == op.method \in {"PUT", "DELETE"}

(* ?level= of a read that only the leader answers *)
IsStrong(op) == op.method = "GET" /\ op.level \in {"linearizable", "lease"}

-----------------------------------------------------------------------------
(* Responses *)

NoHint == [host |-> NoNode, port |-> 0]

(* A status, the shape of the body, leader_hint and Retry-After (0: no header) *)
Responses ==
    [status : {0, 200, 204, 400, 404, 413, 500, 503}, body : {"none", "raw", "text", "json"},
     hint : [host : Nodes \cup {NoNode}, port : Nat], retry : Nat]

Response(status, body) == [status |-> status, body |-> body, hint |-> NoHint, retry |-> 0]

(* LOCAL_HTTP_PORT replaces whatever port the address has *)
rewrite_to_http_address(n, address) == [address EXCEPT !.port = HttpPort[n]]

(* LeaderHintDto: the engine's hint is the Raft address of the leader *)
LeaderHint(n, h) ==
    IF h = NoNode THEN NoHint
    ELSE rewrite_to_http_address(n, [host |-> h, port |-> RaftPort[h]])

(* Mutant: rounds down *)
RetryAfterDown(ms) == ms \div 1000

(* Whole seconds, rounded up; 0 milliseconds (or None) is no header at all *)
retry_after_ms_to_secs(ms) == (ms + 999) \div 1000

(* The errors of a DLmdb call, with what NotLeader carries *)
Error(kind) == [kind |-> kind, hint |-> NoNode, ms |-> 0]
NotLeader(h, ms) == [kind |-> "NotLeader", hint |-> h, ms |-> ms]

(* impl From<d_lmdb::Error> for HttpError, on node n *)
FromError(n, err) ==
    CASE err.kind \in {"KeyTooLarge", "ValueTooLarge", "InvalidRequest"} -> Response(400, "json")
      [] err.kind = "NotLeader" ->
            [status |-> 503, body |-> "json", hint |-> LeaderHint(n, err.hint),
             retry |-> retry_after_ms_to_secs(err.ms)]
      [] err.kind \in {"ClusterUnavailable", "ProposeFailed", "RetryRequired", "TermOutdated"} ->
            Response(503, "json")
      [] OTHER -> Response(500, "json")

(* Every error body becomes JSON; the layer is outside the body limit and the handlers *)
normalize_error_body(resp) == IF resp.status < 400 THEN resp ELSE [resp EXCEPT !.body = "json"]

-----------------------------------------------------------------------------
(* Requests that never reach the engine *)

BodyLimit == MaxValueBytes + 1024

(* ValidKey: the key of the path, percent-decoded, is there *)
ValidKey(key) == key > 0

validate_key(key) == key <= MaxKeyBytes

validate_value(value) == value <= MaxValueBytes

(* The answer to a request that is turned down on the way to the engine, by *)
(* RequestBodyLimitLayer, the extractors (ValidKey, then Query or Bytes)    *)
(* or, for a put alone, validate_key and validate_value; Response(0, ..)    *)
(* when it is not.                                                          *)
TurnedDown(n, op) ==
    CASE op.value > BodyLimit -> Response(413, "text")
      [] ~ValidKey(op.key) -> Response(400, "text")
      [] op.method = "GET" /\ op.level = "unknown" -> Response(400, "text")
      [] op.method = "PUT" /\ op.value > AxumBodyLimit -> Response(413, "text")
      [] op.method = "PUT" /\ ~validate_key(op.key) -> FromError(n, Error("KeyTooLarge"))
      [] op.method = "PUT" /\ ~validate_value(op.value) -> FromError(n, Error("ValueTooLarge"))
      [] OTHER -> Response(0, "none")

(* LMDB takes keys of 1 to LmdbMaxKey bytes and refuses every other *)
LmdbTakes(key) == key \in 1 .. LmdbMaxKey

(* GET from the local database: there, not there (404), or an LMDB error *)
ReadLocal(n, op, found) ==
    CASE ~LmdbTakes(op.key) -> FromError(n, Error("Storage"))
      [] found -> Response(200, "raw")
      [] OTHER -> Response(404, "json")
=============================================================================
