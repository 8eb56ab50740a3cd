------------------------------ MODULE KeyScan ------------------------------
(***************************************************************************)
(* The range reads of LmdbStateMachine (state_machine.rs) as the scans of  *)
(* DLmdb (db.rs) use them, and a client that pages through a prefix.       *)
(*                                                                         *)
(* A scan iterates over one read transaction, key by key, while the        *)
(* database changes and the clock runs: decode_for_scan reads the clock    *)
(* for every entry.  Keys are byte strings over 0..MaxByte; MaxByte stands *)
(* for 0xFF.  The revision of a ScanResult is left out.                    *)
(***************************************************************************)
EXTENDS Integers, SequencesExt

CONSTANTS
    MaxByte,        \* the greatest byte
    Keys,           \* keys that are ever stored
    Bounds,         \* byte strings callers pass as start, end, prefix, after
    Limits,         \* limits callers pass: Some(limit)
    MaxUsize,       \* usize::MAX: the cap for limit = None
    MaxWrites       \* bound: writes that are applied while clients scan

ASSUME ScanAssumption ==
    /\ MaxByte \in Nat /\ MaxUsize \in Nat /\ MaxWrites \in Nat
    /\ Limits \subseteq 0 .. MaxUsize
    /\ IsFiniteSet(Keys) /\ Keys \subseteq Seq(0 .. MaxByte) \ {<<>>}
    /\ Bounds \subseteq Seq(0 .. MaxByte)

VARIABLES
    db,         \* keys to "raw", "ttl" (a value whose expiry is `late`) or "none"
    late,       \* the clock has passed the expiry of the "ttl" values
    scan,       \* the scan in progress
    pages,      \* the keys of the pages so far, of a client that pages through a prefix
    since,      \* ghost: keys not written since the first page, with the request of that page
    writes      \* bound: writes so far

vars == <<db, late, scan, pages, since, writes>>

-----------------------------------------------------------------------------
(* LMDB's key order *)
Less(a, b) ==
    \E n \in 0 .. Len(b) - 1 :
        /\ n <= Len(a) /\ SubSeq(a, 1, n) = SubSeq(b, 1, n)
        /\ n = Len(a) \/ a[n + 1] < b[n + 1]

NoEnd == <<-1>>     \* end: None
NoAfter == <<-1>>   \* after: None

(* Mutant: the last byte is incremented as it is, and wraps *)
NextPrefixWraps(prefix) ==
    IF prefix = <<>> THEN NoEnd ELSE [prefix EXCEPT ![Len(prefix)] = (@ + 1) % (MaxByte + 1)]

(* next_prefix: bytes 0xFF at the end are dropped, the last other one is incremented *)
NextPrefix(prefix) ==
    LET low == {i \in DOMAIN prefix : prefix[i] < MaxByte}
        last == CHOOSE i \in low : \A j \in low : j <= i
    IN  IF low = {} THEN NoEnd
        ELSE [SubSeq(prefix, 1, last) EXCEPT ![last] = @ + 1]

(* decode_for_scan: an entry is kept, at this time *)
Kept(v, lateNow) == v = "raw" \/ (v = "ttl" /\ ~ lateNow)

Caps == Limits \cup {MaxUsize}

(* A request: kind, the two bounds as the caller gave them, the cap *)
Request == [kind : {"all", "range", "prefix", "rev"}, lo : Bounds \cup {<<>>},
            hi : Bounds \cup Keys \cup {NoEnd, NoAfter}, cap : Caps]

NoScan == [pc |-> "idle"]
NoPages == [keys |-> {}, req |-> [kind |-> "none"]]

Contents == [Keys -> {"raw", "ttl", "none"}]

Scans == [pc : {"loop", "done"}, req : Request, snap : Contents, todo : SUBSET Keys,
          out : Seq(Keys), late : BOOLEAN]

TypeOK ==
    /\ db \in Contents
    /\ late \in BOOLEAN
    /\ scan \in Scans \cup {NoScan}
    /\ pages \in Seq(Keys)
    /\ since \in [keys : SUBSET Keys, req : Request] \cup {NoPages}
    /\ writes \in 0 .. MaxWrites

Init ==
    /\ db \in Contents /\ late = FALSE
    /\ scan = NoScan /\ pages = <<>> /\ since = NoPages /\ writes = 0

-----------------------------------------------------------------------------
(* Stored keys of the read transaction at or above (above, if strict) a key *)
From(lo, strict) ==
    {k \in Keys : db[k] # "none" /\ (Less(lo, k) \/ (~ strict /\ lo = k))}

(* Keys below the end *)
Until(S, end) == IF end = NoEnd THEN S ELSE {k \in S : Less(k, end)}

(* read_txn and range; an empty start or prefix matches nothing (empty_key_guard) *)
Open(req, range) ==
    scan' = [pc |-> IF req.kind # "all" /\ req.lo = <<>> THEN "done" ELSE "loop",
             req |-> req, snap |-> db, todo |-> range, out |-> <<>>, late |-> late]

(* A call that is not a page of a client's loop *)
Single(req, range) ==
    /\ scan = NoScan /\ since = NoPages
    /\ Open(req, range)
    /\ UNCHANGED <<db, late, pages, since, writes>>

ScanAll(cap) ==
    LET req == [kind |-> "all", lo |-> <<>>, hi |-> NoEnd, cap |-> cap]
    IN  Single(req, From(<<>>, FALSE))

ScanRange(start, end, cap) ==
    LET req == [kind |-> "range", lo |-> start, hi |-> end, cap |-> cap]
    IN  Single(req, Until(From(start, FALSE), end))

ScanRangeRev(start, end, cap) ==
    LET req == [kind |-> "rev", lo |-> start, hi |-> end, cap |-> cap]
    IN  Single(req, Until(From(start, FALSE), end))

(* Mutant: the continuation key is included *)
PrefixRangeInclusive(prefix, after) ==
    Until(IF after = NoAfter THEN From(prefix, FALSE) ELSE From(after, FALSE), NextPrefix(prefix))

(* scan_prefix_bounded: the range *)
PrefixRange(prefix, after) ==
    Until(IF after = NoAfter THEN From(prefix, FALSE) ELSE From(after, TRUE), NextPrefix(prefix))

(* scan_prefix, the first page *)
ScanPrefix(prefix, after, cap) ==
    LET req == [kind |-> "prefix", lo |-> prefix, hi |-> after, cap |-> cap]
    IN  /\ scan = NoScan /\ since = NoPages
        /\ Open(req, PrefixRange(prefix, after))
        /\ since' = [keys |-> Keys, req |-> req]
        /\ UNCHANGED <<db, late, pages, writes>>

(* Mutant: the page starts at the successor of the last key *)
NextPageSuccessor ==
    LET req == [since.req EXCEPT !.hi = Append(Last(pages), 0)]
    IN  /\ scan = NoScan /\ since # NoPages
        /\ Open(req, PrefixRange(req.lo, req.hi))
        /\ UNCHANGED <<db, late, pages, since, writes>>

(* "pass the last key from the previous page to continue scanning" *)
NextPage ==
    LET req == [since.req EXCEPT !.hi = Last(pages)]
    IN  /\ scan = NoScan /\ since # NoPages
        /\ Open(req, PrefixRange(req.lo, req.hi))
        /\ UNCHANGED <<db, late, pages, since, writes>>

Looping == scan # NoScan /\ scan.pc = "loop"

(* The cursor moves on: the least key that is left *)
Cursor == CHOOSE k \in scan.todo : \A j \in scan.todo : j = k \/ Less(k, j)

(* scan_range_core: one round of the loop; what is dropped does not count *)
Visit ==
    /\ Looping /\ scan.req.kind # "rev"
    /\ Len(scan.out) < scan.req.cap /\ scan.todo # {}
    /\ scan' = [scan EXCEPT !.out = IF Kept(scan.snap[Cursor], late) THEN Append(@, Cursor) ELSE @,
                            !.todo = @ \ {Cursor}]
    /\ UNCHANGED <<db, late, pages, since, writes>>

(* Mutant: the window lets go of its newest key *)
VisitRevPopsNewest ==
    /\ Looping /\ scan.req.kind = "rev" /\ scan.todo # {}
    /\ LET window == IF Len(scan.out) >= scan.req.cap /\ scan.out # <<>> THEN Front(scan.out) ELSE scan.out
       IN  scan' = [scan EXCEPT !.out = IF Kept(scan.snap[Cursor], late)
                                          THEN Append(window, Cursor) ELSE @,
                                !.todo = @ \ {Cursor}]
    /\ UNCHANGED <<db, late, pages, since, writes>>

(* scan_range_rev: one round; the window keeps the last `cap` keys, oldest first *)
VisitRev ==
    /\ Looping /\ scan.req.kind = "rev" /\ scan.todo # {}
    /\ LET window == IF Len(scan.out) >= scan.req.cap /\ scan.out # <<>> THEN Tail(scan.out) ELSE scan.out
       IN  scan' = [scan EXCEPT !.out = IF Kept(scan.snap[Cursor], late)
                                          THEN Append(window, Cursor) ELSE @,
                                !.todo = @ \ {Cursor}]
    /\ UNCHANGED <<db, late, pages, since, writes>>

(* The loop ends: limit reached, or no key left; the window is reversed *)
Finish ==
    /\ Looping
    /\ scan.todo = {} \/ (scan.req.kind # "rev" /\ Len(scan.out) >= scan.req.cap)
    /\ scan' = [scan EXCEPT !.pc = "done", !.out = IF scan.req.kind = "rev" THEN Reverse(@) ELSE @]
    /\ UNCHANGED <<db, late, pages, since, writes>>

(* A full page that is not empty "may be truncated": the client goes on *)
MayBeTruncated == scan.out # <<>> /\ Len(scan.out) = scan.req.cap

(* The caller takes the result *)
Take ==
    /\ scan # NoScan /\ scan.pc = "done"
    /\ scan' = NoScan
    /\ IF since # NoPages /\ MayBeTruncated
         THEN pages' = pages \o scan.out /\ UNCHANGED since
         ELSE pages' = <<>> /\ since' = NoPages
    /\ UNCHANGED <<db, late, writes>>

(* apply_chunk, or a reader that reaps, changes a key.  A call on its own   *)
(* sees one transaction, on contents Init chose: only pages see a change.  *)
Write(k, v) ==
    /\ since # NoPages /\ writes < MaxWrites /\ writes' = writes + 1
    /\ db[k] # v /\ db' = [db EXCEPT ![k] = v]
    /\ since' = [since EXCEPT !.keys = @ \ {k}]
    /\ UNCHANGED <<late, scan, pages>>

(* The expiry passes *)
Expire == ~ late /\ late' = TRUE /\ UNCHANGED <<db, scan, pages, since, writes>>

Start(cap) ==
    \/ ScanAll(cap)
    \/ \E lo \in Bounds, hi \in Bounds : ScanRange(lo, hi, cap) \/ ScanRangeRev(lo, hi, cap)
    \/ \E prefix \in Bounds, after \in (Bounds \ {<<>>}) \cup {NoAfter} : ScanPrefix(prefix, after, cap)

Next ==
    \/ \E cap \in Caps : Start(cap)
    \/ NextPage
    \/ Visit \/ VisitRev \/ Finish \/ Take
    \/ \E k \in Keys, v \in {"raw", "ttl", "none"} : Write(k, v)
    \/ Expire

Spec == Init /\ [][Next]_vars

-----------------------------------------------------------------------------
(* Properties *)

(* What a request asks for, in the words of its documentation *)
Asked(req, k) ==
    CASE req.kind = "all" -> TRUE
      [] req.kind \in {"range", "rev"} -> ~ Less(k, req.lo) /\ Less(k, req.hi)
      [] req.kind = "prefix" -> IsPrefix(req.lo, k) /\ (req.hi = NoAfter \/ Less(req.hi, k))

(* An empty start or prefix matches nothing, and a continuation key is not *)
(* below its prefix; only then is the answer compared with the request.    *)
Proper(req) ==
    /\ req.kind = "all" \/ req.lo # <<>>
    /\ req.kind = "prefix" /\ req.hi # NoAfter => ~ Less(req.hi, req.lo)

Ordered(out, rev) ==
    \A i, j \in DOMAIN out : i < j => IF rev THEN Less(out[j], out[i]) ELSE Less(out[i], out[j])

Returned == {scan.out[i] : i \in DOMAIN scan.out}

(* A scan that is done returned, in order, only keys it was asked for that *)
(* had not expired when it began; and of those that have not expired by    *)
(* now it left one out only when it is full and all it returned come       *)
(* first, whatever was written and expired meanwhile.                      *)
ScanCorrect ==
    scan # NoScan /\ scan.pc = "done" /\ Proper(scan.req) =>
        LET asked == {k \in Keys : Asked(scan.req, k)}
            sure == {k \in asked : Kept(scan.snap[k], late)}
        IN  /\ Ordered(scan.out, scan.req.kind = "rev")
            /\ Returned \subseteq {k \in asked : Kept(scan.snap[k], scan.late)}
            /\ scan.req.cap > 0 => Len(scan.out) <= scan.req.cap
            /\ \A k \in sure \ Returned :
                  /\ Len(scan.out) >= scan.req.cap
                  /\ \A r \in Returned : IF scan.req.kind = "rev" THEN Less(k, r) ELSE Less(r, k)

(* A client that pages through a prefix, each page after the last key of   *)
(* the page before, has at its last page (one that is not full) every key  *)
(* of the prefix that nobody wrote meanwhile and that has not expired, and *)
(* no key twice.                                                           *)
PagesComplete ==
    scan # NoScan /\ scan.pc = "done" /\ since # NoPages /\ Proper(since.req)
        /\ Len(scan.out) < scan.req.cap
    => LET all == pages \o scan.out
       IN  /\ Ordered(all, FALSE)
           /\ \A k \in since.keys :
                 Asked(since.req, k) /\ Kept(db[k], late) => \E i \in DOMAIN all : all[i] = k

(* "returns at most `limit` entries" (scan_range_rev and the other scans). *)
AtMostLimit ==
    scan # NoScan /\ scan.pc = "done" => Len(scan.out) <= scan.req.cap
-----------------------------------------------------------------------------
(* The inductive invariant *)

(* The keys a scan is about: asked for, and stored in its transaction *)
InRange == {k \in Keys : scan.snap[k] # "none" /\ Asked(scan.req, k)}

(* The cursor goes through the range in order.  Visited keys that have not  *)
(* expired are in the result, unless the window has let go of them          *)
LoopOK ==
    /\ scan.todo \subseteq InRange
    /\ \A k \in InRange \ scan.todo, j \in scan.todo : Less(k, j)
    /\ Ordered(scan.out, FALSE)
    /\ Returned \subseteq {k \in InRange \ scan.todo : Kept(scan.snap[k], scan.late)}
    /\ scan.req.cap > 0 \/ scan.req.kind # "rev" => Len(scan.out) <= scan.req.cap
    /\ \A k \in (InRange \ scan.todo) \ Returned : Kept(scan.snap[k], late) =>
          /\ scan.req.kind = "rev" /\ Len(scan.out) >= scan.req.cap
          /\ \A r \in Returned : Less(k, r)

(* The request of the page after these *)
PageReq == IF pages = <<>> THEN since.req ELSE [since.req EXCEPT !.hi = Last(pages)]

(* Pages so far are in order and hold every key that was not written, up to *)
(* the last key, which is where the next page begins                        *)
PagesOK ==
    /\ since = NoPages => pages = <<>>
    /\ since # NoPages =>
          /\ since.req.kind = "prefix"
          /\ scan = NoScan => pages # <<>>
          /\ scan # NoScan => scan.req = PageReq /\ \A k \in since.keys : scan.snap[k] = db[k]
          /\ Proper(since.req) =>
                /\ Ordered(pages, FALSE)
                /\ \A i \in DOMAIN pages : Asked(since.req, pages[i])
                /\ \A k \in since.keys : Asked(since.req, k) /\ Kept(db[k], late)
                      => pages = <<>> \/ Less(Last(pages), k) \/ \E i \in DOMAIN pages : pages[i] = k

(* Scans in progress, their results and a client's pages account for each   *)
(* other.                                                                   *)
ScanInv ==
    /\ TypeOK /\ ScanCorrect /\ PagesOK
    /\ scan # NoScan => (scan.late => late)
    /\ Looping /\ Proper(scan.req) => LoopOK
=============================================================================
