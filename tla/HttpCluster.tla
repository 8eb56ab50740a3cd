---------------------------- MODULE HttpCluster ----------------------------
(***************************************************************************)
(* d-lmdb-server on the nodes of a cluster, the load balancer in front of  *)
(* it (compose/haproxy.cfg) and clients that only know the balancer and    *)
(* repeat a request until it is answered for good (compose/smoke-test.sh). *)
(*                                                                         *)
(* External: Raft (d-engine) elects a leader while a majority is up; an    *)
(* old leader may go on believing in itself until it hears of the new one; *)
(* what it had proposed may or may not be inherited.  A write call ends    *)
(* when its entry is applied on the node that proposed it, a strong read   *)
(* when the node was confirmed as leader and has applied what was          *)
(* committed then.  HAProxy counts a server's health checks up and down.   *)
(***************************************************************************)
EXTENDS HttpApi, Sequences, FiniteSets

CONSTANTS
    First,          \* leader when the balancer starts
    Clients,
    Script,         \* per client: for each of its tasks, the requests to choose from
    RetryMs,        \* retry_after_ms the engine gives, 0 for None
    Rise, Fall,     \* per backend: checks until a server is up, and down
    MaxFaults       \* bound: crashes, depositions of a live leader and timeouts

Backends == {"write", "read"}

ASSUME ClusterAssumption ==
    /\ First \in Nodes
    /\ Rise \in [Backends -> Nat \ {0}] /\ Fall \in [Backends -> Nat \ {0}]
    /\ Script \in [Clients -> Seq(SUBSET Request)]
    /\ RetryMs \subseteq Nat /\ MaxFaults \in Nat

VARIABLES
    \* external: Raft
    leader,         \* the leader of the latest term, or NoNode
    log,            \* committed entries
    proposals,      \* entries proposed and neither committed nor lost
    \* per node
    up,             \* the server process runs
    is_leader,      \* DLmdb::is_leader()
    applied,        \* log entries applied
    \* load balancer
    health,         \* per backend and node: HAProxy's check counter
    \* clients
    task,           \* per client: the request it wants answered, or NoTask
    step,           \* per client: tasks begun; with the client, names a task
    call,           \* per client: the attempt in progress
    acked,          \* ghost: tasks answered 204
    faults          \* bound: faults so far

raft == <<leader, log, proposals>>
servers == <<up, is_leader, applied>>
clients == <<task, step, call, acked>>
vars == <<leader, log, proposals, up, is_leader, applied, health, task, step, call, acked, faults>>

-----------------------------------------------------------------------------
NoTask == [method |-> "none"]
NoCall == [pc |-> "idle", node |-> NoNode, index |-> 0, floor |-> 0, ms |-> 0,
           resp |-> Response(0, "none")]

Tag(c) == <<c, step[c]>>

Entries == [tag : Clients \X Nat, method : {"PUT", "DELETE"}, key : Nat]

Calls ==
    [pc : {"idle", "routed", "proposed", "committed", "asked", "confirmed", "failed", "lost", "answered"},
     node : Nodes \cup {NoNode}, index : Nat, floor : Nat, ms : Nat, resp : Responses]

TypeOK ==
    /\ leader \in Nodes \cup {NoNode}
    /\ log \in Seq(Entries)
    /\ proposals \subseteq [entry : Entries, node : Nodes \cup {NoNode}]
    /\ up \in [Nodes -> BOOLEAN] /\ is_leader \in [Nodes -> BOOLEAN]
    /\ applied \in [Nodes -> 0 .. Len(log)]
    /\ health \in [Backends -> [Nodes -> Nat]]
    /\ task \in [Clients -> Request \cup {NoTask}]
    /\ step \in [Clients -> Nat] /\ \A c \in Clients : step[c] <= Len(Script[c])
    /\ call \in [Clients -> Calls]
    /\ \A c \in Clients : call[c].index <= Len(log) /\ call[c].floor <= Len(log)
    /\ acked \subseteq Clients \X Nat
    /\ faults \in 0 .. MaxFaults

Majority == 2 * Cardinality({n \in Nodes : up[n]}) > Cardinality(Nodes)

Fault == faults < MaxFaults /\ faults' = faults + 1

(* Mutant: the other role's check *)
PrimaryOfReplicas(n) == up[n] /\ ~is_leader[n]

(* GET /primary is answered 200 *)
primary_handler(n) == up[n] /\ is_leader[n]

(* GET /status is answered 200 by whoever answers *)
status_handler(n) == up[n]

Healthy(b, n) == IF b = "write" THEN primary_handler(n) ELSE status_handler(n)

(* External: HAProxy's counter of a server that is up and has not failed since *)
Full(b) == Rise[b] + Fall[b] - 1

(* The cluster has formed and the balancer has settled on its leader *)
Init ==
    /\ leader = First /\ log = <<>> /\ proposals = {}
    /\ up = [n \in Nodes |-> TRUE]
    /\ is_leader = [n \in Nodes |-> n = First]
    /\ applied = [n \in Nodes |-> 0]
    /\ health = [b \in Backends |-> [n \in Nodes |-> IF Healthy(b, n) THEN Full(b) ELSE 0]]
    /\ task = [c \in Clients |-> NoTask] /\ step = [c \in Clients |-> 0]
    /\ call = [c \in Clients |-> NoCall]
    /\ acked = {} /\ faults = 0

-----------------------------------------------------------------------------
(* External: Raft *)

(* A node becomes leader; of the open proposals it has inherited any part *)
Elect(n) ==
    /\ up[n] /\ Majority /\ n # leader /\ ~is_leader[n]
    /\ IF leader # NoNode /\ up[leader] THEN Fault ELSE UNCHANGED faults
    /\ leader' = n
    /\ is_leader' = [is_leader EXCEPT ![n] = TRUE]
    /\ \E kept \in SUBSET proposals :
          proposals' = {[p EXCEPT !.node = NoNode] : p \in kept}
    /\ UNCHANGED <<log, up, applied, health, clients>>

(* Calls that wait for Raft on node n *)
Waiting(c, n) == call[c].node = n /\ call[c].pc \in {"proposed", "committed", "asked"}

(* A node that takes itself for the leader hears of the new one: what it has *)
(* proposed is lost and the calls that wait for it fail                      *)
StepDown(n) ==
    /\ is_leader[n] /\ n # leader
    /\ is_leader' = [is_leader EXCEPT ![n] = FALSE]
    /\ proposals' = {p \in proposals : p.node # n}
    /\ call' = [c \in Clients |->
                  IF Waiting(c, n) THEN [call[c] EXCEPT !.pc = "failed"] ELSE call[c]]
    /\ UNCHANGED <<leader, log, up, applied, health, task, step, acked, faults>>

(* What the leader has proposed or inherited is committed *)
Commit(p) ==
    /\ leader # NoNode /\ up[leader] /\ Majority
    /\ p \in proposals /\ p.node \in {leader, NoNode}
    /\ log' = Append(log, p.entry)
    /\ proposals' = proposals \ {p}
    /\ call' = [c \in Clients |->
                  IF call[c].pc = "proposed" /\ call[c].node = p.node /\ Tag(c) = p.entry.tag
                    THEN [call[c] EXCEPT !.pc = "committed", !.index = Len(log) + 1] ELSE call[c]]
    /\ UNCHANGED <<leader, servers, health, task, step, acked, faults>>

(* Mutant: one entry too many *)
ApplyPast(n) ==
    /\ up[n] /\ applied[n] <= Len(log)
    /\ applied' = [applied EXCEPT ![n] = @ + 1]
    /\ UNCHANGED <<raft, up, is_leader, health, clients, faults>>

(* apply_chunk: the next entry; LMDB's refusal of the key fails the chunk for good *)
Apply(n) ==
    /\ up[n] /\ applied[n] < Len(log)
    /\ LmdbTakes(log[applied[n] + 1].key)
    /\ applied' = [applied EXCEPT ![n] = @ + 1]
    /\ UNCHANGED <<raft, up, is_leader, health, clients, faults>>

(* The process dies, and with it the connections it had accepted *)
Crash(n) ==
    /\ up[n] /\ Fault
    /\ up' = [up EXCEPT ![n] = FALSE] /\ is_leader' = [is_leader EXCEPT ![n] = FALSE]
    /\ call' = [c \in Clients |->
                  IF call[c].node = n THEN [NoCall EXCEPT !.pc = "lost", !.node = n] ELSE call[c]]
    /\ UNCHANGED <<raft, applied, health, task, step, acked>>

(* An operator starts the process again (compose has no restart policy): it *)
(* serves HTTP as soon as the handle is open, without wait_ready            *)
Serve(n) ==
    /\ ~up[n]
    /\ up' = [up EXCEPT ![n] = TRUE]
    /\ leader' = IF leader = n THEN NoNode ELSE leader
    /\ UNCHANGED <<log, proposals, is_leader, applied, health, clients, faults>>

-----------------------------------------------------------------------------
(* Load balancer *)

(* External: a success counts up, and at Rise brings the server back for    *)
(* good; a failure of a server in rotation counts down, Fall in a row take  *)
(* it out                                                                   *)
Check(b, n) ==
    LET h == health[b][n]
        new == IF Healthy(b, n) THEN IF h + 1 >= Rise[b] THEN Full(b) ELSE h + 1
               ELSE IF h > Rise[b] THEN h - 1 ELSE 0
    IN  /\ health' = [health EXCEPT ![b][n] = new]
        /\ UNCHANGED <<raft, servers, clients, faults>>

Rotation(b) == {n \in Nodes : health[b][n] >= Rise[b]}

(* is_write or is_strong_read: write_backend *)
Backend(op) == IF IsWrite(op) \/ IsStrong(op) THEN "write" ELSE "read"

-----------------------------------------------------------------------------
(* Clients *)

Begin(c, op) ==
    /\ task[c] = NoTask /\ step[c] < Len(Script[c])
    /\ op \in Script[c][step[c] + 1]
    /\ task' = [task EXCEPT ![c] = op]
    /\ step' = [step EXCEPT ![c] = @ + 1]
    /\ UNCHANGED <<raft, servers, health, call, acked, faults>>

(* The last committed entry of a write some client knows to be done *)
Floor ==
    LET done == {i \in 1 .. Len(log) : log[i].tag \in acked}
    IN  IF done = {} THEN 0 ELSE CHOOSE i \in done : \A j \in done : j <= i

(* An attempt, through the balancer, at any server in rotation; with none    *)
(* the balancer answers 503 itself and the client tries again                *)
Route(c, n) ==
    /\ task[c] # NoTask /\ call[c] = NoCall
    /\ n \in Rotation(Backend(task[c]))
    /\ call' = [call EXCEPT ![c] = [NoCall EXCEPT !.pc = "routed", !.node = n, !.floor = Floor]]
    /\ UNCHANGED <<raft, servers, health, task, step, acked, faults>>

(* The node responds.  ms and pos are ghosts: what the engine said, and the  *)
(* log position the response is about                                        *)
Answer(c, resp, ms, pos) ==
    /\ call' = [call EXCEPT ![c].pc = "answered", ![c].resp = normalize_error_body(resp),
                            ![c].ms = ms, ![c].index = pos]
    /\ UNCHANGED <<raft, servers, health, task, step, acked, faults>>

(* The response reaches the client: it is done, or tries again after a 503 *)
Receive(c) ==
    /\ call[c].pc = "answered"
    /\ task' = [task EXCEPT ![c] = IF call[c].resp.status = 503 THEN @ ELSE NoTask]
    /\ acked' = IF call[c].resp.status = 204 THEN acked \cup {Tag(c)} ELSE acked
    /\ call' = [call EXCEPT ![c] = NoCall]
    /\ UNCHANGED <<raft, servers, health, step, faults>>

(* The connection fails or was lost (502, 503), or the balancer's "timeout   *)
(* server" ends the wait (504): the client tries again                       *)
Abandon(c) ==
    /\ call[c] # NoCall
    /\ IF call[c].pc # "lost" /\ up[call[c].node] THEN Fault ELSE UNCHANGED faults
    /\ call' = [call EXCEPT ![c] = NoCall]
    /\ UNCHANGED <<raft, servers, health, task, step, acked>>

-----------------------------------------------------------------------------
(* Handlers *)

(* The request of client c is before a handler of a running node *)
Handling(c, pc) == call[c].pc = pc /\ up[call[c].node]

Reject(c) ==
    /\ Handling(c, "routed")
    /\ LET resp == TurnedDown(call[c].node, task[c])
       IN  resp.status # 0 /\ Answer(c, resp, 0, 0)

Admitted(c) == Handling(c, "routed") /\ TurnedDown(call[c].node, task[c]).status = 0

(* A write or a strong read on a node that is not leader: the engine's      *)
(* NotLeader with whatever leader it knows                                  *)
Refuse(c, ms) ==
    /\ Admitted(c) /\ (IsWrite(task[c]) \/ IsStrong(task[c]))
    /\ ~is_leader[call[c].node]
    /\ \E h \in {leader, NoNode} :
          Answer(c, FromError(call[c].node, NotLeader(h, ms)), ms, 0)

(* put_handler and delete_handler: db.put / db.delete propose and wait *)
Propose(c) ==
    /\ Admitted(c) /\ IsWrite(task[c]) /\ is_leader[call[c].node]
    /\ proposals' = proposals \cup
          {[entry |-> [tag |-> Tag(c), method |-> task[c].method, key |-> task[c].key],
            node |-> call[c].node]}
    /\ call' = [call EXCEPT ![c].pc = "proposed"]
    /\ UNCHANGED <<leader, log, servers, health, task, step, acked, faults>>

(* Mutant: the handler does not wait for the result *)
WriteDoneEarly(c) ==
    /\ call[c].pc \in {"proposed", "committed"} /\ up[call[c].node]
    /\ Answer(c, Response(204, "none"), 0, call[c].index)

(* The entry is applied here: 204 *)
WriteDone(c) ==
    /\ Handling(c, "committed") /\ applied[call[c].node] >= call[c].index
    /\ Answer(c, Response(204, "none"), 0, call[c].index)

(* The last entry about a key among the first pos *)
Found(key, pos) ==
    LET about == {i \in 1 .. pos : log[i].key = key}
    IN  about # {} /\ log[CHOOSE i \in about : \A j \in about : j <= i].method = "PUT"

ReadHere(c) ==
    LET n == call[c].node
    IN  Answer(c, ReadLocal(n, task[c], Found(task[c].key, applied[n])), 0, applied[n])

(* get_handler, ConsistencyLevel::Eventual: db.get *)
ReadEventual(c) ==
    /\ Admitted(c) /\ task[c].method = "GET" /\ ~IsStrong(task[c])
    /\ ReadHere(c)

(* Mutant: db.get whatever the level *)
ReadStrongLocally(c) ==
    /\ Admitted(c) /\ IsStrong(task[c]) /\ is_leader[call[c].node]
    /\ ReadHere(c)

(* get_handler, Linearizable and Lease: db.get_linearizable / db.get_lease *)
ReadStrong(c) ==
    /\ Admitted(c) /\ IsStrong(task[c]) /\ is_leader[call[c].node]
    /\ call' = [call EXCEPT ![c].pc = "asked"]
    /\ UNCHANGED <<raft, servers, health, task, step, acked, faults>>

(* External: ReadIndex, or a valid lease: the node is leader, this much is committed *)
Confirm(c) ==
    /\ Handling(c, "asked") /\ call[c].node = leader /\ Majority
    /\ call' = [call EXCEPT ![c].pc = "confirmed", ![c].index = Len(log)]
    /\ UNCHANGED <<raft, servers, health, task, step, acked, faults>>

ReadDone(c) ==
    /\ Handling(c, "confirmed") /\ applied[call[c].node] >= call[c].index
    /\ ReadHere(c)

(* External: the engine gives up on a call: the node has stepped down *)
(* (TermOutdated) or cannot reach a majority (ClusterUnavailable)     *)
GiveUp(c) ==
    /\ call[c] # NoCall /\ up[call[c].node]
    /\ \/ call[c].pc = "failed" /\ Answer(c, FromError(call[c].node, Error("TermOutdated")), 0, 0)
       \/ /\ Waiting(c, call[c].node) /\ (call[c].node # leader \/ ~Majority)
          /\ Answer(c, FromError(call[c].node, Error("ClusterUnavailable")), 0, 0)

-----------------------------------------------------------------------------
Engine(c) == Confirm(c) \/ GiveUp(c)

Handler(c) ==
    \/ Reject(c) \/ Propose(c) \/ WriteDone(c)
    \/ \E ms \in RetryMs : Refuse(c, ms)
    \/ ReadEventual(c) \/ ReadStrong(c) \/ ReadDone(c)

Client(c) == Receive(c) \/ \E n \in Nodes : Route(c, n)

Next ==
    \/ \E n \in Nodes : Elect(n) \/ StepDown(n) \/ Apply(n) \/ Crash(n) \/ Serve(n)
    \/ \E p \in proposals : Commit(p)
    \/ \E b \in Backends, n \in Nodes : Check(b, n)
    \/ \E c \in Clients : \E i \in DOMAIN Script[c] : \E op \in Script[c][i] : Begin(c, op)
    \/ \E c \in Clients : Client(c) \/ Abandon(c) \/ Handler(c) \/ Engine(c)

Spec == Init /\ [][Next]_vars

(* Handlers and the engine of a running node make progress, checks are made *)
(* every two seconds, an open request is repeated, a leader is elected when *)
(* there is none that runs, and its entries are committed and applied.      *)
(* Nothing restarts a node, and no client has to ask for anything.          *)
Fairness ==
    /\ WF_vars(\E n \in Nodes : Elect(n) /\ faults' = faults)
    /\ WF_vars(\E p \in proposals : Commit(p))
    /\ \A n \in Nodes : WF_vars(StepDown(n)) /\ WF_vars(Apply(n))
    /\ \A n \in Nodes, b \in Backends : WF_vars(Check(b, n))
    /\ \A c \in Clients : WF_vars(Client(c)) /\ WF_vars(Handler(c) \/ Engine(c))
                            /\ WF_vars(Abandon(c) /\ faults' = faults)

LiveSpec == Spec /\ Fairness

-----------------------------------------------------------------------------
(* Properties *)

(* Some committed entry is the one a task asked for *)
Committed(tag) == \E i \in 1 .. Len(log) : log[i].tag = tag

(* An acknowledged write (204 from put_handler or delete_handler) is in the *)
(* committed log for good, whichever leader acknowledged it and whatever    *)
(* happened to that leader since.                                           *)
AckedCommitted == \A tag \in acked : Committed(tag)

(* A strong read that is answered through the balancer reflects every write *)
(* that was acknowledged to anyone before it was sent, although the         *)
(* balancer may hold a deposed leader, or two leaders, in rotation ("always *)
(* current", ConsistencyLevel).                                             *)
StrongReadsFresh ==
    \A c \in Clients : IsStrong(task[c]) /\ call[c].resp.status \in {200, 404}
        => call[c].index >= call[c].floor

(* A response can be acted on, for an error of which the engine said ms *)
Actionable(resp, ms) ==
    /\ resp.status >= 400 => resp.body = "json"
    /\ resp.hint # NoHint => resp.hint.host \in Nodes /\ resp.hint.port = HttpPort[resp.hint.host]
    /\ resp.retry * 1000 \in ms .. ms + 999

(* An error can be acted on, whichever layer made it (body limit,           *)
(* extractors, handlers): its body is JSON ("callers can always parse the   *)
(* body", normalize_error_body); a leader it names is named by the address  *)
(* its HTTP server listens on; Retry-After is never shorter than what the   *)
(* engine asked for, never a full second longer, and never 0 in words.      *)
ErrorsActionable == \A c \in Clients : Actionable(call[c].resp, call[c].ms)

(* An entry that no node can apply has been committed *)
Blocked == \E i \in 1 .. Len(log) : ~LmdbTakes(log[i].key)

(* A client that keeps asking the balancer is answered for good, through    *)
(* any crash of a minority, deposed leaders and timeouts ("LB automatically *)
(* re-routed to the new leader", smoke-test.sh); unless a key that LMDB     *)
(* refuses has got into the log, past validate_key or without it.           *)
RequestsAnswered == \A c \in Clients : task[c] # NoTask ~> task[c] = NoTask \/ Blocked

(* The same without that exception, for keys the configuration accepts      *)
(* ("Maximum accepted key size in bytes. Default: 512.", config.rs).        *)
AcceptedKeysServed ==
    \A c \in Clients : task[c] # NoTask /\ task[c].key <= MaxKeyBytes ~> task[c] = NoTask
-----------------------------------------------------------------------------
(* The inductive invariant *)

(* A call is of an open task and at a node, and has no response before its answer *)
CallOK(c) ==
    /\ call[c] # NoCall => task[c] # NoTask /\ call[c].node \in Nodes
    /\ call[c].pc # "answered" => call[c].resp = Response(0, "none") /\ call[c].ms = 0

(* A write is on its way to a 204 only with its entry committed *)
WriteOK(c) == call[c].pc = "committed" \/ call[c].resp.status = 204 => Committed(Tag(c))

(* A strong read was confirmed, and is answered, at a position not below its floor *)
ReadOK(c) ==
    call[c].pc = "confirmed" \/ (IsStrong(task[c]) /\ call[c].resp.status \in {200, 404})
        => call[c].index >= call[c].floor

(* Calls, responses and acknowledgements account for the committed log.     *)
HttpInv ==
    /\ TypeOK /\ AckedCommitted /\ ErrorsActionable
    /\ \A c \in Clients : CallOK(c) /\ WriteOK(c) /\ ReadOK(c)
=============================================================================
