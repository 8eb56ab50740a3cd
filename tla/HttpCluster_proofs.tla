------------------------- MODULE HttpCluster_proofs -------------------------
(***************************************************************************)
(* Proofs about HttpCluster, for any number of nodes and clients, any      *)
(* scripts, limits, balancer settings and faults.                          *)
(***************************************************************************)
EXTENDS HttpCluster, WellFoundedInduction, TLAPS

(* A response with no hint and no Retry-After, once its body is normalised *)
LEMMA PlainResponse ==
    ASSUME NEW status \in {0, 200, 204, 400, 404, 413, 500, 503},
           NEW body \in {"none", "raw", "text", "json"}
    PROVE  LET resp == normalize_error_body(Response(status, body))
           IN  /\ resp \in Responses /\ resp.status = status
               /\ Actionable(resp, 0)
<1> DEFINE raw == [status |-> status, body |-> body, hint |-> NoHint, retry |-> 0]
           resp == normalize_error_body(Response(status, body))
<1>1. NoHint \in [host : Nodes \cup {NoNode}, port : Nat]
    BY DEF NoHint
<1>2. resp = IF status < 400 THEN raw ELSE [raw EXCEPT !.body = "json"]
    BY DEF normalize_error_body, Response
<1>3. /\ resp \in Responses /\ resp.status = status /\ resp.hint = NoHint /\ resp.retry = 0
      /\ status >= 400 => resp.body = "json"
  <2>1. CASE status < 400
    <3>1. resp = raw
      BY <1>2, <2>1
    <3> QED
      BY <1>1, <2>1, <3>1 DEF Responses
  <2>2. CASE ~ (status < 400)
    <3>1. resp = [status |-> status, body |-> "json", hint |-> NoHint, retry |-> 0]
      BY <1>2, <2>2
    <3> QED
      BY <1>1, <3>1 DEF Responses
  <2> QED
    BY <2>1, <2>2
<1> HIDE DEF resp
<1>4. Actionable(resp, 0)
    BY <1>3 DEF Actionable
<1> QED
    BY <1>3, <1>4 DEF resp

(* retry_after_ms_to_secs rounds up to whole seconds *)
LEMMA RetryRoundsUp ==
    ASSUME NEW ms \in Nat
    PROVE  /\ retry_after_ms_to_secs(ms) \in Nat
           /\ retry_after_ms_to_secs(ms) * 1000 \in ms .. ms + 999
BY DEF retry_after_ms_to_secs

(* The response to NotLeader, on any node *)
LEMMA NotLeaderResponse ==
    ASSUME NEW n \in Nodes, NEW h \in Nodes \cup {NoNode}, NEW ms \in Nat
    PROVE  LET resp == normalize_error_body(FromError(n, NotLeader(h, ms)))
           IN  /\ resp \in Responses /\ resp.status = 503
               /\ Actionable(resp, ms)
<1> DEFINE hint == LeaderHint(n, h)
           retry == retry_after_ms_to_secs(ms)
           resp == normalize_error_body(FromError(n, NotLeader(h, ms)))
<1>1. FromError(n, NotLeader(h, ms)) = [status |-> 503, body |-> "json", hint |-> hint, retry |-> retry]
    BY DEF FromError, NotLeader
<1>2. retry \in Nat /\ retry * 1000 \in ms .. ms + 999
    BY RetryRoundsUp
<1>3. /\ hint \in [host : Nodes \cup {NoNode}, port : Nat]
      /\ hint # NoHint => hint.host \in Nodes /\ hint.port = HttpPort[hint.host]
  <2>1. CASE h = NoNode
    BY <2>1 DEF LeaderHint, NoHint
  <2>2. CASE h # NoNode
    <3>1. h \in Nodes
      BY <2>2
    <3>2. hint = [host |-> h, port |-> HttpPort[n]]
      BY <2>2 DEF LeaderHint, rewrite_to_http_address
    <3>3. HttpPort[n] \in Nat /\ HttpPort[n] = HttpPort[h]
      BY <3>1, PortAssumption
    <3> QED
      BY <3>1, <3>2, <3>3
  <2> QED
    BY <2>1, <2>2
<1> HIDE DEF hint, retry
<1>4. resp = [status |-> 503, body |-> "json", hint |-> hint, retry |-> retry]
    BY <1>1 DEF normalize_error_body
<1>5. resp \in Responses /\ resp.status = 503 /\ resp.hint = hint /\ resp.retry = retry /\ resp.body = "json"
    BY <1>2, <1>3, <1>4 DEF Responses
<1> HIDE DEF resp
<1>6. Actionable(resp, ms)
    BY <1>2, <1>3, <1>5 DEF Actionable
<1> QED
    BY <1>5, <1>6 DEF resp

(* The errors that carry nothing *)
LEMMA OtherErrors ==
    ASSUME NEW n
    PROVE  /\ FromError(n, Error("KeyTooLarge")) = Response(400, "json")
           /\ FromError(n, Error("ValueTooLarge")) = Response(400, "json")
           /\ FromError(n, Error("TermOutdated")) = Response(503, "json")
           /\ FromError(n, Error("ClusterUnavailable")) = Response(503, "json")
           /\ FromError(n, Error("Storage")) = Response(500, "json")
BY DEF FromError, Error

(* The answers to what never reaches the engine *)
LEMMA TurnedDownAnswers ==
    ASSUME NEW n, NEW op
    PROVE  TurnedDown(n, op) \in {Response(413, "text"), Response(400, "text"),
                                  Response(400, "json"), Response(0, "none")}
BY OtherErrors DEF TurnedDown

(* The answers of a read on the local database *)
LEMMA ReadLocalAnswers ==
    ASSUME NEW n, NEW op, NEW found \in BOOLEAN
    PROVE  ReadLocal(n, op, found) \in {Response(500, "json"), Response(200, "raw"), Response(404, "json")}
BY OtherErrors DEF ReadLocal
-----------------------------------------------------------------------------
(* Frames: what a step leaves alone stays right *)

(* What the invariant says of one client's call *)
Sound(c) == CallOK(c) /\ WriteOK(c) /\ ReadOK(c) /\ Actionable(call[c].resp, call[c].ms)

LEMMA InvParts == HttpInv <=> TypeOK /\ AckedCommitted /\ \A c \in Clients : Sound(c)
BY DEF HttpInv, ErrorsActionable, Sound

(* The log only grows, so what is committed stays committed *)
LEMMA CommittedStays ==
    ASSUME log \in Seq(Entries), NEW tag, Committed(tag),
           log' = log \/ \E e \in Entries : log' = Append(log, e)
    PROVE  Committed(tag)'
<1>1. PICK i \in 1 .. Len(log) : log[i].tag = tag
    BY DEF Committed
<1>2. i \in 1 .. Len(log') /\ log'[i] = log[i]
  <2>1. CASE log' = log
    BY <2>1
  <2>2. CASE \E e \in Entries : log' = Append(log, e)
    <3>1. PICK e \in Entries : log' = Append(log, e)
      BY <2>2
    <3>2. Len(log') = Len(log) + 1 /\ Len(log) \in Nat
      BY <3>1
    <3>3. log'[i] = log[i]
      BY <3>1
    <3> QED
      BY <3>2, <3>3
  <2> QED
    BY <2>1, <2>2
<1>3. log'[i].tag = tag
    BY <1>1, <1>2
<1> QED
    BY <1>2, <1>3 DEF Committed

(* A client none of whose variables change *)
LEMMA SoundKept ==
    ASSUME log \in Seq(Entries), NEW c \in Clients, Sound(c),
           log' = log \/ \E e \in Entries : log' = Append(log, e),
           task'[c] = task[c], step'[c] = step[c], call'[c] = call[c]
    PROVE  Sound(c)'
<1>1. PICK tag : tag = <<c, step[c]>>
    OBVIOUS
<1>2. Tag(c)' = tag /\ Tag(c) = tag
    BY <1>1 DEF Tag
<1>3. Committed(tag) => Committed(tag)'
    BY CommittedStays
<1>4. WriteOK(c)'
    BY <1>2, <1>3 DEF Sound, WriteOK
<1> QED
    BY <1>4 DEF Sound, CallOK, ReadOK, Actionable

(* A client with no call in progress *)
LEMMA NoCallParts ==
    /\ NoCall \in Calls /\ NoCall.pc = "idle" /\ NoCall.index = 0 /\ NoCall.floor = 0
    /\ NoCall.ms = 0 /\ NoCall.resp = Response(0, "none")
    /\ Response(0, "none") \in Responses /\ Response(0, "none").status = 0
    /\ Response(0, "none").hint = NoHint /\ Response(0, "none").retry = 0
<1>1. NoHint \in [host : Nodes \cup {NoNode}, port : Nat]
    BY DEF NoHint
<1>2. Response(0, "none") \in Responses
    BY <1>1 DEF Response, Responses
<1> QED
    BY <1>2 DEF NoCall, Calls, Response

(* A client without a call *)
LEMMA SoundIdle ==
    ASSUME NEW c \in Clients, call'[c] = NoCall
    PROVE  Sound(c)'
BY NoCallParts DEF Sound, CallOK, WriteOK, ReadOK, Actionable

(* A step that no client takes part in *)
LEMMA ClientFrame ==
    ASSUME HttpInv, TypeOK', UNCHANGED <<log, clients>>
    PROVE  HttpInv'
<1>1. log \in Seq(Entries) /\ AckedCommitted /\ \A c \in Clients : Sound(c)
    BY InvParts DEF TypeOK
<1>2. log' = log /\ task' = task /\ step' = step /\ call' = call /\ acked' = acked
    BY DEF clients
<1>3. \A c \in Clients : Sound(c)'
    BY <1>1, <1>2, SoundKept
<1>4. AckedCommitted'
    BY <1>1, <1>2 DEF AckedCommitted, Committed
<1>5. TypeOK' /\ AckedCommitted' /\ (\A c \in Clients : Sound(c)')
    BY <1>3, <1>4
<1> QED
    BY <1>5 DEF HttpInv, ErrorsActionable, Sound

(* A step of one client's call *)
LEMMA OneCall ==
    ASSUME HttpInv, TypeOK', NEW c \in Clients, UNCHANGED <<log, task, step, acked>>,
           \A d \in Clients \ {c} : call'[d] = call[d],
           Sound(c)'
    PROVE  HttpInv'
<1>1. log \in Seq(Entries) /\ AckedCommitted /\ \A d \in Clients : Sound(d)
    BY InvParts DEF TypeOK
<1>2. \A d \in Clients : Sound(d)'
  <2> TAKE d \in Clients
  <2>1. CASE d = c
    BY <2>1
  <2>2. CASE d # c
    BY <1>1, <2>2, SoundKept
  <2> QED
    BY <2>1, <2>2
<1>3. AckedCommitted'
    BY <1>1 DEF AckedCommitted, Committed
<1> QED
    BY <1>2, <1>3 DEF HttpInv, ErrorsActionable, Sound

(* The type of a state in which only calls changed *)
LEMMA CallType ==
    ASSUME TypeOK, call' \in [Clients -> Calls],
           \A d \in Clients : call'[d].index <= Len(log) /\ call'[d].floor <= Len(log),
           UNCHANGED <<raft, servers, health, task, step, acked>>, faults' \in 0 .. MaxFaults
    PROVE  TypeOK'
BY DEF TypeOK, raft, servers
-----------------------------------------------------------------------------
(* Each step preserves HttpInv: Raft, nodes and the balancer *)

LEMMA HttpInitOK == Init => HttpInv
<1> SUFFICES ASSUME Init PROVE HttpInv
    OBVIOUS
<1>1. NoCall \in Calls /\ NoCall.index = 0 /\ NoCall.floor = 0
    BY NoCallParts
<1>2. log = <<>> /\ Len(log) = 0 /\ acked = {} /\ \A c \in Clients : call[c] = NoCall
    BY DEF Init
<1>3. TypeOK
  <2>1. \A b \in Backends : Full(b) \in Nat
    BY ClusterAssumption DEF Full
  <2>2. health \in [Backends -> [Nodes -> Nat]]
    BY <2>1 DEF Init
  <2>3. up \in [Nodes -> BOOLEAN] /\ is_leader \in [Nodes -> BOOLEAN]
    BY DEF Init
  <2>4. applied \in [Nodes -> 0 .. Len(log)]
    BY <1>2 DEF Init
  <2>5. task \in [Clients -> Request \cup {NoTask}] /\ call \in [Clients -> Calls]
    BY <1>1 DEF Init
  <2>6. step \in [Clients -> Nat] /\ \A c \in Clients : step[c] <= Len(Script[c])
    BY ClusterAssumption DEF Init
  <2>7. \A c \in Clients : call[c].index <= Len(log) /\ call[c].floor <= Len(log)
    BY <1>1, <1>2
  <2>8. /\ leader \in Nodes \cup {NoNode} /\ log \in Seq(Entries) /\ faults \in 0 .. MaxFaults
        /\ proposals \subseteq [entry : Entries, node : Nodes \cup {NoNode}]
        /\ acked \subseteq Clients \X Nat
    BY ClusterAssumption DEF Init
  <2> QED
    BY <2>2, <2>3, <2>4, <2>5, <2>6, <2>7, <2>8 DEF TypeOK
<1>4. ASSUME NEW c \in Clients PROVE Sound(c)
  <2>1. call[c] = NoCall
    BY <1>2
  <2> QED
    BY <2>1, NoCallParts DEF Sound, CallOK, WriteOK, ReadOK, Actionable
<1> QED
    BY <1>2, <1>3, <1>4, InvParts DEF AckedCommitted

LEMMA ElectStep == ASSUME HttpInv, NEW n \in Nodes, Elect(n) PROVE HttpInv'
<1>1. TypeOK
    BY DEF HttpInv
<1>2. PICK kept \in SUBSET proposals : proposals' = {[p EXCEPT !.node = NoNode] : p \in kept}
    BY DEF Elect
<1>3. proposals' \subseteq [entry : Entries, node : Nodes \cup {NoNode}]
  <2>1. ASSUME NEW p \in [entry : Entries, node : Nodes \cup {NoNode}]
        PROVE  [p EXCEPT !.node = NoNode] \in [entry : Entries, node : Nodes \cup {NoNode}]
    OBVIOUS
  <2>2. kept \subseteq [entry : Entries, node : Nodes \cup {NoNode}]
    BY <1>1 DEF TypeOK
  <2> QED
    BY <1>2, <2>1, <2>2
<1>4. faults' \in 0 .. MaxFaults
    BY <1>1, ClusterAssumption DEF TypeOK, Elect, Fault
<1>5. leader' = n /\ is_leader' \in [Nodes -> BOOLEAN] /\ UNCHANGED <<log, up, applied, health, clients>>
    BY <1>1 DEF TypeOK, Elect
<1>6. TypeOK'
    BY <1>1, <1>3, <1>4, <1>5 DEF TypeOK, clients
<1> QED
    BY <1>5, <1>6, ClientFrame

LEMMA ApplyStep == ASSUME HttpInv, NEW n \in Nodes, Apply(n) PROVE HttpInv'
<1>1. TypeOK /\ Len(log) \in Nat
    BY DEF HttpInv, TypeOK
<1>2. /\ applied' = [applied EXCEPT ![n] = @ + 1] /\ applied[n] < Len(log)
      /\ UNCHANGED <<raft, up, is_leader, health, clients, faults>>
    BY DEF Apply
<1>3. applied[n] + 1 \in 0 .. Len(log)
    BY <1>1, <1>2 DEF TypeOK
<1>4. applied' \in [Nodes -> 0 .. Len(log)]
    BY <1>1, <1>2, <1>3 DEF TypeOK
<1>5. TypeOK'
    BY <1>1, <1>2, <1>4 DEF TypeOK, raft, clients
<1> QED
    BY <1>2, <1>5, ClientFrame DEF raft

LEMMA ServeStep == ASSUME HttpInv, NEW n \in Nodes, Serve(n) PROVE HttpInv'
<1>1. TypeOK
    BY DEF HttpInv
<1>2. TypeOK'
    BY <1>1 DEF TypeOK, Serve, clients
<1> QED
    BY <1>2, ClientFrame DEF Serve

LEMMA CheckStep == ASSUME HttpInv, NEW b \in Backends, NEW n \in Nodes, Check(b, n) PROVE HttpInv'
<1> DEFINE h == health[b][n]
           new == IF Healthy(b, n) THEN IF h + 1 >= Rise[b] THEN Full(b) ELSE h + 1
                  ELSE IF h > Rise[b] THEN h - 1 ELSE 0
<1>1. TypeOK
    BY DEF HttpInv
<1>2. health' = [health EXCEPT ![b][n] = new] /\ UNCHANGED <<raft, servers, clients, faults>>
    BY DEF Check
<1>3. h \in Nat /\ Rise[b] \in Nat \ {0} /\ Fall[b] \in Nat \ {0} /\ Full(b) = Rise[b] + Fall[b] - 1
    BY <1>1, ClusterAssumption DEF TypeOK, Full
<1>4. new \in Nat
    BY <1>3
<1> HIDE DEF new
<1>5. health' \in [Backends -> [Nodes -> Nat]]
    BY <1>1, <1>2, <1>4 DEF TypeOK
<1>6. TypeOK'
    BY <1>1, <1>2, <1>5 DEF TypeOK, raft, servers, clients
<1> QED
    BY <1>2, <1>6, ClientFrame DEF raft

LEMMA StepDownStep == ASSUME HttpInv, NEW n \in Nodes, StepDown(n) PROVE HttpInv'
<1>1. /\ TypeOK /\ AckedCommitted /\ log \in Seq(Entries) /\ call \in [Clients -> Calls]
      /\ \A c \in Clients : Sound(c)
    BY InvParts DEF TypeOK
<1>2. /\ is_leader' = [is_leader EXCEPT ![n] = FALSE] /\ proposals' \subseteq proposals
      /\ call' = [c \in Clients |->
                    IF Waiting(c, n) THEN [call[c] EXCEPT !.pc = "failed"] ELSE call[c]]
      /\ UNCHANGED <<leader, log, up, applied, health, task, step, acked, faults>>
    BY DEF StepDown
<1>3. ASSUME NEW c \in Clients, Waiting(c, n)
      PROVE  /\ call'[c] \in Calls /\ call'[c].pc = "failed" /\ call'[c].node = call[c].node
             /\ call'[c].index = call[c].index /\ call'[c].floor = call[c].floor
             /\ call'[c].resp = call[c].resp /\ call'[c].ms = call[c].ms
             /\ call[c] # NoCall /\ call[c].pc # "answered"
  <2>1. call[c] \in Calls /\ call'[c] = [call[c] EXCEPT !.pc = "failed"]
    BY <1>1, <1>2, <1>3
  <2>2. call[c].pc \in {"proposed", "committed", "asked"}
    BY <1>3 DEF Waiting
  <2> QED
    BY <2>1, <2>2 DEF Calls, NoCall
<1>4. ASSUME NEW c \in Clients, ~ Waiting(c, n) PROVE call'[c] = call[c]
    BY <1>2, <1>4
<1>5. TypeOK'
  <2>1. call' \in [Clients -> Calls]
    BY <1>1, <1>2, <1>3, <1>4
  <2>2. \A c \in Clients : call'[c].index <= Len(log) /\ call'[c].floor <= Len(log)
    BY <1>1, <1>3, <1>4 DEF TypeOK
  <2>3. is_leader' \in [Nodes -> BOOLEAN]
    BY <1>1, <1>2 DEF TypeOK
  <2> QED
    BY <1>1, <1>2, <2>1, <2>2, <2>3 DEF TypeOK
<1>6. ASSUME NEW c \in Clients PROVE Sound(c)'
  <2>1. CASE ~ Waiting(c, n)
    BY <1>1, <1>2, <1>4, <2>1, SoundKept
  <2>2. CASE Waiting(c, n)
    <3>1. call[c].resp = Response(0, "none") /\ call[c].ms = 0
      BY <1>1, <1>3, <2>2 DEF Sound, CallOK
    <3>2. Response(0, "none").status = 0
      BY DEF Response
    <3> QED
      BY <1>1, <1>2, <1>3, <2>2, <3>1, <3>2 DEF Sound, CallOK, WriteOK, ReadOK, Actionable
  <2> QED
    BY <2>1, <2>2
<1>7. AckedCommitted'
    BY <1>1, <1>2 DEF AckedCommitted, Committed
<1> QED
    BY <1>5, <1>6, <1>7 DEF HttpInv, ErrorsActionable, Sound

LEMMA CommitStep == ASSUME HttpInv, NEW p \in proposals, Commit(p) PROVE HttpInv'
<1>1. /\ TypeOK /\ AckedCommitted /\ log \in Seq(Entries) /\ call \in [Clients -> Calls]
      /\ \A c \in Clients : Sound(c)
    BY InvParts DEF TypeOK
<1> DEFINE Mine(c) == call[c].pc = "proposed" /\ call[c].node = p.node /\ Tag(c) = p.entry.tag
           e == p.entry
<1>2. /\ log' = Append(log, e) /\ proposals' \subseteq proposals
      /\ call' = [c \in Clients |-> IF Mine(c)
                    THEN [call[c] EXCEPT !.pc = "committed", !.index = Len(log) + 1] ELSE call[c]]
      /\ UNCHANGED <<leader, up, is_leader, applied, health, task, step, acked, faults>>
    BY DEF Commit, servers
<1>3. e \in Entries
    BY <1>1 DEF TypeOK
<1> HIDE DEF e
<1>4. /\ log' \in Seq(Entries) /\ Len(log) \in Nat /\ Len(log') = Len(log) + 1
      /\ log'[Len(log) + 1] = e
  <2>1. log \in Seq(Entries) /\ log' = Append(log, e)
    BY <1>1, <1>2
  <2> QED
    BY <1>3, <2>1
<1>5. ASSUME NEW c \in Clients, Mine(c)
      PROVE  /\ call'[c] \in Calls /\ call'[c].pc = "committed" /\ call'[c].node = call[c].node
             /\ call'[c].index = Len(log) + 1 /\ call'[c].floor = call[c].floor
             /\ call'[c].resp = call[c].resp /\ call'[c].ms = call[c].ms
             /\ call[c] # NoCall /\ call[c].pc # "answered"
  <2>1. call[c] \in Calls /\ call'[c] = [call[c] EXCEPT !.pc = "committed", !.index = Len(log) + 1]
    BY <1>1, <1>2, <1>5
  <2>2. call[c].pc = "proposed" /\ Len(log) + 1 \in Nat
    BY <1>4, <1>5
  <2> HIDE DEF Mine
  <2>3. call[c].pc # NoCall.pc
    BY <2>2 DEF NoCall
  <2> QED
    BY <2>1, <2>2, <2>3 DEF Calls
<1>6. ASSUME NEW c \in Clients, ~ Mine(c) PROVE call'[c] = call[c]
    BY <1>2, <1>6
<1>7. TypeOK'
  <2>1. call' \in [Clients -> Calls]
    BY <1>1, <1>2, <1>5, <1>6
  <2>2. ASSUME NEW c \in Clients PROVE call'[c].index <= Len(log') /\ call'[c].floor <= Len(log')
    <3>1. /\ call[c].index <= Len(log) /\ call[c].floor <= Len(log)
          /\ call[c].index \in Nat /\ call[c].floor \in Nat
      BY <1>1 DEF TypeOK, Calls
    <3> QED
      BY <1>4, <1>5, <1>6, <3>1
  <2>3. applied' \in [Nodes -> 0 .. Len(log')]
    <3>1. applied \in [Nodes -> 0 .. Len(log)] /\ applied' = applied
      BY <1>1, <1>2 DEF TypeOK
    <3> QED
      BY <1>4, <3>1
  <2> QED
    BY <1>1, <1>2, <1>4, <2>1, <2>2, <2>3 DEF TypeOK
<1>8. ASSUME NEW c \in Clients PROVE Sound(c)'
  <2>1. CASE ~ Mine(c)
    BY <1>1, <1>2, <1>3, <1>6, <2>1, SoundKept
  <2>2. CASE Mine(c)
    <3>1. call[c].resp = Response(0, "none") /\ call[c].ms = 0
      BY <1>1, <1>5, <2>2 DEF Sound, CallOK
    <3>2. Response(0, "none").status = 0
      BY DEF Response
    <3>3. Committed(Tag(c))'
      <4>1. e.tag = Tag(c)'
        BY <1>2, <2>2 DEF e, Tag
      <4>2. Len(log) + 1 \in 1 .. Len(log')
        BY <1>4
      <4> QED
        BY <1>4, <4>1, <4>2 DEF Committed
    <3>4. CallOK(c)'
      BY <1>1, <1>2, <1>5, <2>2, <3>1 DEF Sound, CallOK
    <3>5. ReadOK(c)' /\ WriteOK(c)'
      BY <1>5, <2>2, <3>1, <3>2, <3>3 DEF ReadOK, WriteOK
    <3> QED
      BY <1>1, <1>5, <2>2, <3>4, <3>5 DEF Sound, Actionable
  <2> QED
    BY <2>1, <2>2
<1>9. AckedCommitted'
  <2> SUFFICES ASSUME NEW tag \in acked PROVE Committed(tag)'
    BY <1>2 DEF AckedCommitted
  <2>1. Committed(tag)
    BY <1>1 DEF AckedCommitted
  <2> QED
    BY <1>1, <1>2, <1>3, <2>1, CommittedStays
<1> QED
    BY <1>7, <1>8, <1>9 DEF HttpInv, ErrorsActionable, Sound

LEMMA CrashStep == ASSUME HttpInv, NEW n \in Nodes, Crash(n) PROVE HttpInv'
<1>1. /\ TypeOK /\ AckedCommitted /\ log \in Seq(Entries) /\ call \in [Clients -> Calls]
      /\ \A c \in Clients : Sound(c)
    BY InvParts DEF TypeOK
<1> DEFINE Lost == [NoCall EXCEPT !.pc = "lost", !.node = n]
<1>2. /\ up' = [up EXCEPT ![n] = FALSE] /\ is_leader' = [is_leader EXCEPT ![n] = FALSE]
      /\ call' = [c \in Clients |-> IF call[c].node = n THEN Lost ELSE call[c]]
      /\ UNCHANGED <<leader, log, proposals, applied, health, task, step, acked>>
    BY DEF Crash, raft
<1>3. /\ Lost \in Calls /\ Lost.pc = "lost" /\ Lost.node = n /\ Lost.index = 0 /\ Lost.floor = 0
      /\ Lost.ms = 0 /\ Lost.resp = Response(0, "none")
  <2>2. Response(0, "none") \in Responses
    BY NoCallParts
  <2> QED
    BY <2>2 DEF NoCall, Calls
<1>4. faults' \in 0 .. MaxFaults
    BY <1>1, ClusterAssumption DEF TypeOK, Crash, Fault
<1> HIDE DEF Lost
<1>5. TypeOK'
  <2>1. call' \in [Clients -> Calls]
    BY <1>1, <1>2, <1>3
  <2>2. ASSUME NEW c \in Clients PROVE call'[c].index <= Len(log) /\ call'[c].floor <= Len(log)
    BY <1>1, <1>2, <1>3 DEF TypeOK
  <2>3. up' \in [Nodes -> BOOLEAN] /\ is_leader' \in [Nodes -> BOOLEAN]
    BY <1>1, <1>2 DEF TypeOK
  <2> QED
    BY <1>1, <1>2, <1>4, <2>1, <2>2, <2>3 DEF TypeOK
<1>6. ASSUME NEW c \in Clients PROVE Sound(c)'
  <2>1. CASE call[c].node # n
    <3>1. call'[c] = call[c]
      BY <1>2, <2>1
    <3> QED
      BY <1>1, <1>2, <3>1, SoundKept
  <2>2. CASE call[c].node = n
    <3>1. call'[c] = Lost
      BY <1>2, <2>2
    <3>2. call[c] # NoCall
      BY <2>2, NoNodeAssumption DEF NoCall
    <3>3. task'[c] # NoTask
      BY <1>1, <1>2, <3>2 DEF Sound, CallOK
    <3>4. Response(0, "none").status = 0 /\ Response(0, "none").hint = NoHint /\ Response(0, "none").retry = 0
      BY DEF Response
    <3>5. Actionable(call'[c].resp, call'[c].ms)
      BY <1>3, <3>1, <3>4 DEF Actionable
    <3>6. CallOK(c)' /\ WriteOK(c)' /\ ReadOK(c)'
      BY <1>3, <3>1, <3>3, <3>4 DEF CallOK, WriteOK, ReadOK
    <3> QED
      BY <3>5, <3>6 DEF Sound, Actionable
  <2> QED
    BY <2>1, <2>2
<1>7. AckedCommitted'
    BY <1>1, <1>2 DEF AckedCommitted, Committed
<1> QED
    BY <1>5, <1>6, <1>7 DEF HttpInv, ErrorsActionable, Sound
-----------------------------------------------------------------------------
(* Clients *)

LEMMA BeginStep ==
    ASSUME HttpInv, NEW c \in Clients, NEW op, Begin(c, op)
    PROVE  HttpInv'
<1>1. /\ TypeOK /\ AckedCommitted /\ log \in Seq(Entries) /\ call \in [Clients -> Calls]
      /\ \A d \in Clients : Sound(d)
    BY InvParts DEF TypeOK
<1>2. /\ task[c] = NoTask /\ step[c] < Len(Script[c]) /\ op \in Script[c][step[c] + 1]
      /\ task' = [task EXCEPT ![c] = op] /\ step' = [step EXCEPT ![c] = @ + 1]
      /\ UNCHANGED <<raft, servers, health, call, acked, faults>>
    BY DEF Begin
<1>3. call[c] = NoCall
    BY <1>1, <1>2 DEF Sound, CallOK
<1>4. step[c] \in Nat /\ Len(Script[c]) \in Nat /\ op \in Request
  <2>1. Script[c] \in Seq(SUBSET Request) /\ step[c] \in Nat
    BY <1>1, ClusterAssumption DEF TypeOK
  <2>2. step[c] + 1 \in 1 .. Len(Script[c])
    BY <1>2, <2>1
  <2>3. Script[c][step[c] + 1] \in SUBSET Request
    BY <2>1, <2>2
  <2> QED
    BY <1>2, <2>1, <2>3
<1>5. TypeOK'
  <2>1. task' \in [Clients -> Request \cup {NoTask}]
    BY <1>1, <1>2, <1>4 DEF TypeOK
  <2>2. step' \in [Clients -> Nat] /\ \A d \in Clients : step'[d] <= Len(Script[d])
    BY <1>1, <1>2, <1>4 DEF TypeOK
  <2> QED
    BY <1>1, <1>2, <2>1, <2>2 DEF TypeOK, raft, servers
<1>6. ASSUME NEW d \in Clients PROVE Sound(d)'
  <2>1. CASE d = c
    BY <1>2, <1>3, <2>1, SoundIdle
  <2>2. CASE d # c
    <3>1. task'[d] = task[d] /\ step'[d] = step[d] /\ call'[d] = call[d] /\ log' = log
      BY <1>1, <1>2, <2>2 DEF TypeOK, raft
    <3> QED
      BY <1>1, <3>1, SoundKept
  <2> QED
    BY <2>1, <2>2
<1>7. AckedCommitted'
    BY <1>1, <1>2 DEF AckedCommitted, Committed, raft
<1> QED
    BY <1>5, <1>6, <1>7 DEF HttpInv, ErrorsActionable, Sound

LEMMA ReceiveStep == ASSUME HttpInv, NEW c \in Clients, Receive(c) PROVE HttpInv'
<1>1. /\ TypeOK /\ AckedCommitted /\ log \in Seq(Entries) /\ call \in [Clients -> Calls]
      /\ \A d \in Clients : Sound(d)
    BY InvParts DEF TypeOK
<1>2. /\ task' = [task EXCEPT ![c] = IF call[c].resp.status = 503 THEN @ ELSE NoTask]
      /\ acked' = IF call[c].resp.status = 204 THEN acked \cup {Tag(c)} ELSE acked
      /\ call' = [call EXCEPT ![c] = NoCall]
      /\ UNCHANGED <<raft, servers, health, step, faults>>
    BY DEF Receive
<1>3. NoCall \in Calls /\ NoCall.index = 0 /\ NoCall.floor = 0
    BY NoCallParts
<1>4. TypeOK'
  <2>1. task' \in [Clients -> Request \cup {NoTask}]
    BY <1>1, <1>2 DEF TypeOK
  <2>2. acked' \subseteq Clients \X Nat
    BY <1>1, <1>2 DEF TypeOK, Tag
  <2>3. call' \in [Clients -> Calls] /\ call'[c] = NoCall /\ \A d \in Clients \ {c} : call'[d] = call[d]
    BY <1>1, <1>2, <1>3
  <2>4. ASSUME NEW d \in Clients PROVE call'[d].index <= Len(log) /\ call'[d].floor <= Len(log)
    <3>1. CASE d = c
      BY <1>1, <1>3, <2>3, <3>1
    <3>2. CASE d # c
      BY <1>1, <2>3, <3>2 DEF TypeOK
    <3> QED
      BY <3>1, <3>2
  <2> QED
    BY <1>1, <1>2, <2>1, <2>2, <2>3, <2>4 DEF TypeOK, raft, servers
<1>5. ASSUME NEW d \in Clients PROVE Sound(d)'
  <2>1. CASE d = c
    BY <1>1, <1>2, <2>1, SoundIdle
  <2>2. CASE d # c
    <3>1. task'[d] = task[d] /\ step'[d] = step[d] /\ call'[d] = call[d] /\ log' = log
      BY <1>1, <1>2, <2>2 DEF TypeOK, raft
    <3> QED
      BY <1>1, <3>1, SoundKept
  <2> QED
    BY <2>1, <2>2
<1>6. AckedCommitted'
  <2>1. log' = log /\ \A tag \in acked' : Committed(tag)
    BY <1>1, <1>2 DEF AckedCommitted, Sound, WriteOK, raft
  <2> QED
    BY <2>1 DEF AckedCommitted, Committed
<1> QED
    BY <1>4, <1>5, <1>6 DEF HttpInv, ErrorsActionable, Sound

(* A set of positions of a log that is not empty has a greatest member *)
LEMMA GreatestPosition ==
    ASSUME NEW m \in Nat, NEW S \in SUBSET (1 .. m), S # {}
    PROVE  \E i \in S : \A j \in S : j <= i
<1> DEFINE T == {m - i : i \in S}
           R == OpToRel(<, Nat)
<1>1. T \subseteq Nat /\ T # {}
  <2>1. \A i \in S : i \in 1 .. m
    OBVIOUS
  <2>2. \A i \in S : m - i \in Nat
    BY <2>1
  <2>3. PICK i \in S : TRUE
    OBVIOUS
  <2>4. m - i \in T
    BY <2>3
  <2> QED
    BY <2>2, <2>4
<1>2. PICK x \in T : \A y \in T : ~ (<<y, x>> \in R)
  <2> HIDE DEF T, R
  <2>1. IsWellFoundedOn(R, Nat)
    BY NatLessThanWellFounded DEF R
  <2> QED
    BY <1>1, <2>1, WFMin
<1>3. \A y \in T : ~ (y < x)
    BY <1>1, <1>2 DEF OpToRel
<1>4. PICK i \in S : x = m - i
    BY DEF T
<1>5. \A j \in S : m - j \in T
    OBVIOUS
<1>6. \A j \in S : j <= i
  <2> HIDE DEF T
  <2> QED
    BY <1>3, <1>4, <1>5
<1> QED
    BY <1>6

(* The floor of a new call is a position of the log *)
LEMMA FloorInLog == ASSUME log \in Seq(Entries) PROVE Floor \in 0 .. Len(log)
<1> DEFINE done == {i \in 1 .. Len(log) : log[i].tag \in acked}
<1>1. Floor = IF done = {} THEN 0 ELSE CHOOSE i \in done : \A j \in done : j <= i
    BY DEF Floor
<1>2. done \in SUBSET (1 .. Len(log)) /\ Len(log) \in Nat
    OBVIOUS
<1> HIDE DEF done
<1>3. CASE done = {}
    BY <1>1, <1>2, <1>3
<1>4. CASE done # {}
  <2>1. \E i \in done : \A j \in done : j <= i
    BY <1>2, <1>4, GreatestPosition
  <2>2. (CHOOSE i \in done : \A j \in done : j <= i) \in done
    BY <2>1, Zenon
  <2>3. Floor \in done
    BY <1>1, <1>4, <2>2, Zenon
  <2> DEFINE f == Floor
  <2>4. f \in 1 .. Len(log)
    BY <1>2, <2>3
  <2> HIDE DEF f
  <2>5. f \in 0 .. Len(log)
    BY <1>2, <2>4
  <2> QED
    BY <2>5 DEF f
<1> QED
    BY <1>3, <1>4

(* One client's call changes, to one the invariant allows *)
LEMMA CallChanges ==
    ASSUME HttpInv, NEW c \in Clients, NEW k \in Calls,
           call' = [call EXCEPT ![c] = k],
           k.index <= Len(log), k.floor <= Len(log),
           task[c] # NoTask, k.node \in Nodes,
           k.pc # "answered" => k.resp = Response(0, "none") /\ k.ms = 0,
           k.pc = "committed" \/ k.resp.status = 204 => Committed(Tag(c)),
           k.pc = "confirmed" \/ (IsStrong(task[c]) /\ k.resp.status \in {200, 404}) => k.index >= k.floor,
           Actionable(k.resp, k.ms),
           proposals' \subseteq [entry : Entries, node : Nodes \cup {NoNode}],
           UNCHANGED <<leader, log, servers, health, task, step, acked, faults>>
    PROVE  HttpInv'
<1>1. TypeOK /\ call \in [Clients -> Calls]
    BY DEF HttpInv, TypeOK
<1>2. call' \in [Clients -> Calls] /\ call'[c] = k /\ \A d \in Clients \ {c} : call'[d] = call[d]
    BY <1>1
<1>3. TypeOK'
  <2>1. ASSUME NEW d \in Clients PROVE call'[d].index <= Len(log) /\ call'[d].floor <= Len(log)
    <3>1. CASE d = c
      BY <1>2, <3>1
    <3>2. CASE d # c
      BY <1>1, <1>2, <3>2 DEF TypeOK
    <3> QED
      BY <3>1, <3>2
  <2> QED
    BY <1>1, <1>2, <2>1 DEF TypeOK, servers
<1>4. Sound(c)'
  <2>1. Committed(Tag(c)) => Committed(Tag(c))'
    BY DEF Committed, Tag
  <2>2. CallOK(c)' /\ WriteOK(c)' /\ ReadOK(c)'
    BY <1>2, <2>1 DEF CallOK, WriteOK, ReadOK
  <2>3. Actionable(call[c].resp, call[c].ms)'
    BY <1>2 DEF Actionable
  <2> QED
    BY <2>2, <2>3 DEF Sound
<1> QED
    BY <1>2, <1>3, <1>4, OneCall

LEMMA RouteStep ==
    ASSUME HttpInv, NEW c \in Clients, NEW n \in Nodes, Route(c, n)
    PROVE  HttpInv'
<1>1. TypeOK /\ log \in Seq(Entries) /\ Len(log) \in Nat
    BY DEF HttpInv, TypeOK
<1> DEFINE f == Floor
<1>2. f \in 0 .. Len(log)
    BY <1>1, FloorInLog
<1>3. PICK k : k = [NoCall EXCEPT !.pc = "routed", !.node = n, !.floor = f]
    OBVIOUS
<1>4. /\ task[c] # NoTask /\ call' = [call EXCEPT ![c] = k]
      /\ UNCHANGED <<raft, servers, health, task, step, acked, faults>>
    BY <1>3 DEF Route
<1> HIDE DEF f
<1>5. f \in Nat /\ f <= Len(log)
    BY <1>1, <1>2
<1>6. /\ k \in Calls /\ k.pc = "routed" /\ k.node = n /\ k.index = 0 /\ k.floor = f /\ k.ms = 0
      /\ k.resp = Response(0, "none")
  <2>1. Response(0, "none") \in Responses
    BY NoCallParts
  <2> QED
    BY <1>3, <1>5, <2>1 DEF NoCall, Calls
<1>7. Actionable(k.resp, k.ms) /\ k.resp.status = 0
    BY <1>6, NoCallParts DEF Actionable
<1>8. k.index <= Len(log) /\ k.floor <= Len(log)
    BY <1>1, <1>5, <1>6
<1>9. /\ proposals' \subseteq [entry : Entries, node : Nodes \cup {NoNode}]
      /\ UNCHANGED <<leader, log, servers, health, task, step, acked, faults>>
    BY <1>1, <1>4 DEF TypeOK, raft
<1>10. /\ k.node \in Nodes
       /\ k.pc # "answered" => k.resp = Response(0, "none") /\ k.ms = 0
       /\ k.pc = "committed" \/ k.resp.status = 204 => Committed(Tag(c))
       /\ k.pc = "confirmed" \/ (IsStrong(task[c]) /\ k.resp.status \in {200, 404}) => k.index >= k.floor
    BY <1>6, <1>7
<1>11. k \in Calls /\ task[c] # NoTask /\ call' = [call EXCEPT ![c] = k] /\ Actionable(k.resp, k.ms)
    BY <1>4, <1>6, <1>7
<1> QED
    BY <1>8, <1>9, <1>10, <1>11, CallChanges, Zenon

LEMMA AbandonStep == ASSUME HttpInv, NEW c \in Clients, Abandon(c) PROVE HttpInv'
<1>1. TypeOK /\ call \in [Clients -> Calls] /\ Len(log) \in Nat
    BY DEF HttpInv, TypeOK
<1>2. call' = [call EXCEPT ![c] = NoCall] /\ UNCHANGED <<raft, servers, health, task, step, acked>>
    BY DEF Abandon
<1>3. call' \in [Clients -> Calls] /\ call'[c] = NoCall /\ \A d \in Clients \ {c} : call'[d] = call[d]
    BY <1>1, <1>2, NoCallParts
<1>4. TypeOK'
  <2>1. ASSUME NEW d \in Clients PROVE call'[d].index <= Len(log) /\ call'[d].floor <= Len(log)
    <3>1. CASE d = c
      BY <1>1, <1>3, <3>1, NoCallParts
    <3>2. CASE d # c
      BY <1>1, <1>3, <3>2 DEF TypeOK
    <3> QED
      BY <3>1, <3>2
  <2>2. faults' \in 0 .. MaxFaults
    BY <1>1, ClusterAssumption DEF TypeOK, Abandon, Fault
  <2> QED
    BY <1>1, <1>2, <1>3, <2>1, <2>2, CallType
<1>5. Sound(c)'
    BY <1>3, SoundIdle
<1>6. UNCHANGED <<log, task, step, acked>>
    BY <1>2 DEF raft
<1> QED
    BY <1>3, <1>4, <1>5, <1>6, OneCall
-----------------------------------------------------------------------------
(* Handlers *)

(* A request before a handler: its call, its node and its task are there *)
LEMMA HandlingParts ==
    ASSUME HttpInv, NEW c \in Clients, NEW pc, call[c].pc = pc, pc # "idle"
    PROVE  /\ call[c] \in Calls /\ call[c].node \in Nodes
           /\ task[c] # NoTask /\ task[c] \in Request
           /\ call[c].index <= Len(log) /\ call[c].floor <= Len(log)
           /\ log \in Seq(Entries) /\ Len(log) \in Nat
           /\ pc # "answered" => call[c].resp = Response(0, "none") /\ call[c].ms = 0
<1>1. call[c] # NoCall
    BY NoCallParts
<1>2. task[c] # NoTask /\ call[c].node \in Nodes
    BY <1>1 DEF HttpInv, CallOK
<1> QED
    BY <1>2 DEF HttpInv, TypeOK, CallOK

(* The node responds *)
LEMMA AnswerStep ==
    ASSUME HttpInv, NEW c \in Clients, NEW resp, NEW ms \in Nat, NEW pos \in 0 .. Len(log),
           call[c].pc # "idle",
           normalize_error_body(resp) \in Responses,
           Actionable(normalize_error_body(resp), ms),
           normalize_error_body(resp).status = 204 => Committed(Tag(c)),
           IsStrong(task[c]) /\ normalize_error_body(resp).status \in {200, 404} => pos >= call[c].floor,
           Answer(c, resp, ms, pos)
    PROVE  HttpInv'
<1> DEFINE r == normalize_error_body(resp)
<1>1. /\ call[c] \in Calls /\ call[c].node \in Nodes /\ task[c] # NoTask
      /\ call[c].floor <= Len(log) /\ Len(log) \in Nat
    BY HandlingParts
<1>2. /\ call' = [call EXCEPT ![c].pc = "answered", ![c].resp = r, ![c].ms = ms, ![c].index = pos]
      /\ UNCHANGED <<raft, servers, health, task, step, acked, faults>>
    BY DEF Answer
<1>3. r \in Responses /\ Actionable(r, ms) /\ (r.status = 204 => Committed(Tag(c)))
      /\ (IsStrong(task[c]) /\ r.status \in {200, 404} => pos >= call[c].floor)
    OBVIOUS
<1> HIDE DEF r
<1>4. PICK k : k = [call[c] EXCEPT !.pc = "answered", !.resp = r, !.ms = ms, !.index = pos]
    OBVIOUS
<1>5. call' = [call EXCEPT ![c] = k]
  <2>1. call \in [Clients -> Calls]
    BY DEF HttpInv, TypeOK
  <2> QED
    BY <1>2, <1>4, <2>1
<1>6. /\ k \in Calls /\ k.pc = "answered" /\ k.node = call[c].node /\ k.index = pos
      /\ k.floor = call[c].floor /\ k.ms = ms /\ k.resp = r
  <2>1. pos \in Nat /\ r \in Responses /\ call[c] \in Calls
    BY <1>1, <1>3
  <2> QED
    BY <1>4, <2>1 DEF Calls
<1>7. k.index <= Len(log) /\ k.floor <= Len(log)
    BY <1>1, <1>6
<1>8. /\ proposals' \subseteq [entry : Entries, node : Nodes \cup {NoNode}]
      /\ UNCHANGED <<leader, log, servers, health, task, step, acked, faults>>
    BY <1>2 DEF HttpInv, TypeOK, raft
<1>9. /\ k.node \in Nodes
      /\ k.pc # "answered" => k.resp = Response(0, "none") /\ k.ms = 0
      /\ k.pc = "committed" \/ k.resp.status = 204 => Committed(Tag(c))
      /\ k.pc = "confirmed" \/ (IsStrong(task[c]) /\ k.resp.status \in {200, 404}) => k.index >= k.floor
    BY <1>1, <1>3, <1>6
<1>10. k \in Calls /\ task[c] # NoTask /\ Actionable(k.resp, k.ms)
    BY <1>1, <1>3, <1>6
<1> QED
    BY <1>5, <1>7, <1>8, <1>9, <1>10, CallChanges, Zenon

LEMMA RejectStep == ASSUME HttpInv, NEW c \in Clients, Reject(c) PROVE HttpInv'
<1> DEFINE n == call[c].node
<1>1. PICK resp : resp = TurnedDown(n, task[c])
    OBVIOUS
<1>2. call[c].pc = "routed" /\ resp.status # 0 /\ Answer(c, resp, 0, 0)
    BY <1>1 DEF Reject, Handling
<1>3. Len(log) \in Nat
    BY <1>2, HandlingParts
<1>4. resp \in {Response(413, "text"), Response(400, "text"), Response(400, "json"), Response(0, "none")}
    BY <1>1, TurnedDownAnswers
<1>5. /\ normalize_error_body(resp) \in Responses
      /\ normalize_error_body(resp).status \in {0, 400, 413}
      /\ Actionable(normalize_error_body(resp), 0)
    BY <1>4, PlainResponse
<1> QED
    BY <1>2, <1>3, <1>5, AnswerStep

LEMMA RefuseStep ==
    ASSUME HttpInv, NEW c \in Clients, NEW ms \in RetryMs, Refuse(c, ms)
    PROVE  HttpInv'
<1>1. PICK h \in {leader, NoNode} : Answer(c, FromError(call[c].node, NotLeader(h, ms)), ms, 0)
    BY DEF Refuse
<1>2. call[c].pc = "routed"
    BY DEF Refuse, Admitted, Handling
<1>3. call[c].node \in Nodes /\ Len(log) \in Nat
    BY <1>2, HandlingParts
<1>4. h \in Nodes \cup {NoNode} /\ ms \in Nat
    BY ClusterAssumption DEF HttpInv, TypeOK
<1>5. PICK n \in Nodes : n = call[c].node
    BY <1>3
<1>6. PICK resp : resp = FromError(n, NotLeader(h, ms))
    OBVIOUS
<1>7. /\ normalize_error_body(resp) \in Responses /\ normalize_error_body(resp).status = 503
      /\ Actionable(normalize_error_body(resp), ms)
  <2>1. LET r == normalize_error_body(FromError(n, NotLeader(h, ms)))
        IN  r \in Responses /\ r.status = 503 /\ Actionable(r, ms)
    BY <1>4, NotLeaderResponse
  <2> QED
    BY <1>6, <2>1
<1>8. Answer(c, resp, ms, 0) /\ 0 \in 0 .. Len(log) /\ call[c].pc # "idle"
    BY <1>1, <1>2, <1>3, <1>6, <1>5
<1> QED
    BY <1>4, <1>7, <1>8, AnswerStep

LEMMA WriteDoneStep == ASSUME HttpInv, NEW c \in Clients, WriteDone(c) PROVE HttpInv'
<1>1. call[c].pc = "committed" /\ Answer(c, Response(204, "none"), 0, call[c].index)
    BY DEF WriteDone, Handling
<1>2. call[c].index \in 0 .. Len(log)
  <2>1. call[c] \in Calls /\ call[c].index <= Len(log) /\ Len(log) \in Nat
    BY <1>1, HandlingParts
  <2> QED
    BY <2>1 DEF Calls
<1>3. Committed(Tag(c))
    BY <1>1 DEF HttpInv, WriteOK
<1>4. /\ normalize_error_body(Response(204, "none")) \in Responses
      /\ normalize_error_body(Response(204, "none")).status = 204
      /\ Actionable(normalize_error_body(Response(204, "none")), 0)
    BY PlainResponse
<1> QED
    BY <1>1, <1>2, <1>3, <1>4, AnswerStep

(* A read of the local database, strong only from a position not below the floor *)
LEMMA ReadHereStep ==
    ASSUME HttpInv, NEW c \in Clients, call[c].pc \in {"routed", "confirmed"}, ReadHere(c),
           IsStrong(task[c]) => applied[call[c].node] >= call[c].floor
    PROVE  HttpInv'
<1>1. PICK n \in Nodes : n = call[c].node
    BY HandlingParts
<1>2. PICK resp : resp = ReadLocal(n, task[c], Found(task[c].key, applied[n]))
    OBVIOUS
<1>3. Answer(c, resp, 0, applied[n])
    BY <1>1, <1>2 DEF ReadHere
<1>4. applied[n] \in 0 .. Len(log)
    BY DEF HttpInv, TypeOK
<1>5. Found(task[c].key, applied[n]) \in BOOLEAN
    BY DEF Found
<1>6. resp \in {Response(500, "json"), Response(200, "raw"), Response(404, "json")}
    BY <1>2, <1>5, ReadLocalAnswers
<1>7. /\ normalize_error_body(resp) \in Responses
      /\ normalize_error_body(resp).status \in {200, 404, 500}
      /\ Actionable(normalize_error_body(resp), 0)
    BY <1>6, PlainResponse
<1> QED
    BY <1>1, <1>3, <1>4, <1>7, AnswerStep

LEMMA ReadEventualStep == ASSUME HttpInv, NEW c \in Clients, ReadEventual(c) PROVE HttpInv'
BY ReadHereStep DEF ReadEventual, Admitted, Handling

LEMMA ReadDoneStep == ASSUME HttpInv, NEW c \in Clients, ReadDone(c) PROVE HttpInv'
<1>1. call[c].pc = "confirmed" /\ applied[call[c].node] >= call[c].index /\ ReadHere(c)
    BY DEF ReadDone, Handling
<1>2. call[c] \in Calls /\ call[c].node \in Nodes /\ Len(log) \in Nat
    BY <1>1, HandlingParts
<1>3. applied[call[c].node] \in Nat /\ call[c].index \in Nat /\ call[c].floor \in Nat
    BY <1>2 DEF HttpInv, TypeOK, Calls
<1>4. call[c].index >= call[c].floor
    BY <1>1 DEF HttpInv, ReadOK
<1>5. applied[call[c].node] >= call[c].floor
    BY <1>1, <1>3, <1>4
<1> QED
    BY <1>1, <1>5, ReadHereStep

LEMMA GiveUpStep == ASSUME HttpInv, NEW c \in Clients, GiveUp(c) PROVE HttpInv'
<1>1. PICK n : n = call[c].node
    OBVIOUS
<1>2. /\ call[c].pc # "idle"
      /\ \/ Answer(c, FromError(n, Error("TermOutdated")), 0, 0)
         \/ Answer(c, FromError(n, Error("ClusterUnavailable")), 0, 0)
    BY <1>1 DEF GiveUp, Waiting
<1>3. Answer(c, Response(503, "json"), 0, 0)
    BY <1>2, OtherErrors
<1>4. Len(log) \in Nat
    BY <1>2, HandlingParts
<1>5. /\ normalize_error_body(Response(503, "json")) \in Responses
      /\ normalize_error_body(Response(503, "json")).status = 503
      /\ Actionable(normalize_error_body(Response(503, "json")), 0)
    BY PlainResponse
<1> QED
    BY <1>2, <1>3, <1>4, <1>5, AnswerStep

(* A call moves on without an answer *)
LEMMA CallMoves ==
    ASSUME HttpInv, NEW c \in Clients, NEW pc \in {"proposed", "asked", "confirmed"}, NEW pos \in 0 .. Len(log),
           call[c].pc \in {"routed", "asked"},
           call' = [call EXCEPT ![c] = [call[c] EXCEPT !.pc = pc, !.index = pos]],
           pc = "confirmed" => pos >= call[c].floor,
           proposals' \subseteq [entry : Entries, node : Nodes \cup {NoNode}],
           UNCHANGED <<leader, log, servers, health, task, step, acked, faults>>
    PROVE  HttpInv'
<1>1. /\ call[c] \in Calls /\ call[c].node \in Nodes /\ task[c] # NoTask
      /\ call[c].floor <= Len(log) /\ Len(log) \in Nat
      /\ call[c].resp = Response(0, "none") /\ call[c].ms = 0
    BY HandlingParts
<1>2. PICK k : k = [call[c] EXCEPT !.pc = pc, !.index = pos]
    OBVIOUS
<1>3. /\ k \in Calls /\ k.pc = pc /\ k.node = call[c].node /\ k.index = pos
      /\ k.floor = call[c].floor /\ k.ms = 0 /\ k.resp = Response(0, "none")
  <2>1. pos \in Nat
    BY <1>1
  <2> QED
    BY <1>1, <1>2, <2>1 DEF Calls
<1>4. k.index <= Len(log) /\ k.floor <= Len(log)
    BY <1>1, <1>3
<1>5. Actionable(k.resp, k.ms) /\ k.resp.status = 0
  <2>1. k.resp.status = 0 /\ k.resp.hint = NoHint /\ k.resp.retry = 0 /\ k.ms = 0
    BY <1>3, NoCallParts
  <2> QED
    BY <2>1 DEF Actionable
<1>6. /\ k.node \in Nodes
      /\ k.pc # "answered" => k.resp = Response(0, "none") /\ k.ms = 0
      /\ k.pc = "committed" \/ k.resp.status = 204 => Committed(Tag(c))
      /\ k.pc = "confirmed" \/ (IsStrong(task[c]) /\ k.resp.status \in {200, 404}) => k.index >= k.floor
    BY <1>1, <1>3, <1>5
<1>7. k \in Calls /\ task[c] # NoTask /\ call' = [call EXCEPT ![c] = k]
    BY <1>1, <1>2, <1>3
<1>8. UNCHANGED <<leader, log, servers, health, task, step, acked, faults>>
    OBVIOUS
<1>9. proposals' \subseteq [entry : Entries, node : Nodes \cup {NoNode}] /\ Actionable(k.resp, k.ms)
    BY <1>5
<1> QED
    BY <1>4, <1>6, <1>7, <1>8, <1>9, CallChanges

LEMMA ProposeStep == ASSUME HttpInv, NEW c \in Clients, Propose(c) PROVE HttpInv'
<1> DEFINE entry == [tag |-> Tag(c), method |-> task[c].method, key |-> task[c].key]
           p == [entry |-> entry, node |-> call[c].node]
<1>1. /\ call[c].pc = "routed" /\ IsWrite(task[c]) /\ proposals' = proposals \cup {p}
      /\ call' = [call EXCEPT ![c].pc = "proposed"]
      /\ UNCHANGED <<leader, log, servers, health, task, step, acked, faults>>
    BY DEF Propose, Admitted, Handling
<1>2. /\ call[c] \in Calls /\ call[c].node \in Nodes /\ task[c] \in Request
      /\ call[c].index <= Len(log) /\ Len(log) \in Nat
    BY <1>1, HandlingParts
<1>3. entry \in Entries
  <2>1. step[c] \in Nat /\ Tag(c) = <<c, step[c]>>
    BY DEF HttpInv, TypeOK, Tag
  <2>2. task[c].key \in Nat /\ task[c].method \in {"PUT", "DELETE"}
    BY <1>1, <1>2 DEF Request, IsWrite
  <2> QED
    BY <2>1, <2>2 DEF Entries
<1> HIDE DEF entry
<1>4. proposals' \subseteq [entry : Entries, node : Nodes \cup {NoNode}]
    BY <1>1, <1>2, <1>3 DEF HttpInv, TypeOK
<1>5. PICK pos \in 0 .. Len(log) : pos = call[c].index
    BY <1>2 DEF Calls
<1>6. call' = [call EXCEPT ![c] = [call[c] EXCEPT !.pc = "proposed", !.index = pos]]
  <2>1. call \in [Clients -> Calls]
    BY DEF HttpInv, TypeOK
  <2>2. [call[c] EXCEPT !.pc = "proposed", !.index = pos] = [call[c] EXCEPT !.pc = "proposed"]
    BY <1>2, <1>5 DEF Calls
  <2> QED
    BY <1>1, <2>1, <2>2
<1> QED
    BY <1>1, <1>4, <1>6, CallMoves

LEMMA ReadStrongStep == ASSUME HttpInv, NEW c \in Clients, ReadStrong(c) PROVE HttpInv'
<1>1. /\ call[c].pc = "routed" /\ call' = [call EXCEPT ![c].pc = "asked"]
      /\ UNCHANGED <<raft, servers, health, task, step, acked, faults>>
    BY DEF ReadStrong, Admitted, Handling
<1>2. call[c] \in Calls /\ call[c].index <= Len(log) /\ Len(log) \in Nat
    BY <1>1, HandlingParts
<1>3. PICK pos \in 0 .. Len(log) : pos = call[c].index
    BY <1>2 DEF Calls
<1>4. call' = [call EXCEPT ![c] = [call[c] EXCEPT !.pc = "asked", !.index = pos]]
  <2>1. call \in [Clients -> Calls]
    BY DEF HttpInv, TypeOK
  <2>2. [call[c] EXCEPT !.pc = "asked", !.index = pos] = [call[c] EXCEPT !.pc = "asked"]
    BY <1>2, <1>3 DEF Calls
  <2> QED
    BY <1>1, <2>1, <2>2
<1>5. /\ proposals' \subseteq [entry : Entries, node : Nodes \cup {NoNode}]
      /\ UNCHANGED <<leader, log, servers, health, task, step, acked, faults>>
    BY <1>1 DEF HttpInv, TypeOK, raft
<1> QED
    BY <1>1, <1>4, <1>5, CallMoves

LEMMA ConfirmStep == ASSUME HttpInv, NEW c \in Clients, Confirm(c) PROVE HttpInv'
<1>1. /\ call[c].pc = "asked" /\ call' = [call EXCEPT ![c].pc = "confirmed", ![c].index = Len(log)]
      /\ UNCHANGED <<raft, servers, health, task, step, acked, faults>>
    BY DEF Confirm, Handling
<1>2. call[c] \in Calls /\ call[c].floor <= Len(log) /\ Len(log) \in Nat
    BY <1>1, HandlingParts
<1>3. PICK pos \in 0 .. Len(log) : pos = Len(log) /\ pos >= call[c].floor
    BY <1>2 DEF Calls
<1>4. call' = [call EXCEPT ![c] = [call[c] EXCEPT !.pc = "confirmed", !.index = pos]]
  <2>1. call \in [Clients -> Calls]
    BY DEF HttpInv, TypeOK
  <2> QED
    BY <1>1, <1>3, <2>1
<1>5. /\ proposals' \subseteq [entry : Entries, node : Nodes \cup {NoNode}]
      /\ UNCHANGED <<leader, log, servers, health, task, step, acked, faults>>
    BY <1>1 DEF HttpInv, TypeOK, raft
<1> QED
    BY <1>1, <1>3, <1>4, <1>5, CallMoves
-----------------------------------------------------------------------------
(* HttpInv is inductive *)
LEMMA HttpNextInv == HttpInv /\ [Next]_vars => HttpInv'
<1> SUFFICES ASSUME HttpInv, [Next]_vars PROVE HttpInv'
    OBVIOUS
<1>1. ASSUME NEW n \in Nodes, Elect(n) \/ StepDown(n) \/ Apply(n) \/ Crash(n) \/ Serve(n) PROVE HttpInv'
    BY <1>1, ElectStep, StepDownStep, ApplyStep, CrashStep, ServeStep
<1>2. ASSUME NEW p \in proposals, Commit(p) PROVE HttpInv'
    BY <1>2, CommitStep
<1>3. ASSUME NEW b \in Backends, NEW n \in Nodes, Check(b, n) PROVE HttpInv'
    BY <1>3, CheckStep
<1>4. ASSUME NEW c \in Clients, NEW op, Begin(c, op) PROVE HttpInv'
    BY <1>4, BeginStep
<1>5. ASSUME NEW c \in Clients, Client(c) \/ Abandon(c) PROVE HttpInv'
    BY <1>5, ReceiveStep, RouteStep, AbandonStep DEF Client
<1>6. ASSUME NEW c \in Clients, Handler(c) PROVE HttpInv'
    BY <1>6, RejectStep, ProposeStep, WriteDoneStep, RefuseStep, ReadEventualStep, ReadStrongStep,
       ReadDoneStep DEF Handler
<1>7. ASSUME NEW c \in Clients, Engine(c) PROVE HttpInv'
    BY <1>7, ConfirmStep, GiveUpStep DEF Engine
<1>8. CASE UNCHANGED vars
  <2>1. TypeOK'
    BY <1>8 DEF HttpInv, TypeOK, vars
  <2> QED
    BY <1>8, <2>1, ClientFrame DEF vars, clients
<1> QED
    BY <1>1, <1>2, <1>3, <1>4, <1>5, <1>6, <1>7, <1>8 DEF Next

(* Through elections, depositions, crashes, timeouts and retries, calls,    *)
(* responses and acknowledgements account for the committed log.            *)
THEOREM HttpInvariance == Spec => []HttpInv
<1>1. Init => HttpInv
    BY HttpInitOK
<1>2. HttpInv /\ [Next]_vars => HttpInv'
    BY HttpNextInv
<1> QED
    BY <1>1, <1>2, PTL DEF Spec

(* Nodes, balancer and clients stay of their types.                         *)
THEOREM TypeCorrect == Spec => []TypeOK
<1>1. HttpInv => TypeOK
    BY DEF HttpInv
<1> QED
    BY <1>1, HttpInvariance, PTL

(* A write answered 204 by put_handler or delete_handler is committed.      *)
THEOREM AckedWritesCommitted == Spec => []AckedCommitted
<1>1. HttpInv => AckedCommitted
    BY DEF HttpInv
<1> QED
    BY <1>1, HttpInvariance, PTL

(* A strong read through the balancer reflects what was acknowledged before *)
(* it was sent (get_handler, Linearizable and Lease).                       *)
THEOREM StrongReadsCurrent == Spec => []StrongReadsFresh
<1>1. HttpInv => StrongReadsFresh
    BY DEF HttpInv, ReadOK, StrongReadsFresh
<1> QED
    BY <1>1, HttpInvariance, PTL

(* Every error response has a JSON body, the HTTP address of a leader it    *)
(* names and a Retry-After that is not too short (HttpError,                *)
(* normalize_error_body).                                                   *)
THEOREM ErrorResponsesActionable == Spec => []ErrorsActionable
<1>1. HttpInv => ErrorsActionable
    BY DEF HttpInv
<1> QED
    BY <1>1, HttpInvariance, PTL
=============================================================================
