---------------------------- MODULE Feeds_proofs ----------------------------
(***************************************************************************)
(* Proofs about what the router learns from outside.  CidrFeed: a cache    *)
(* comes whole from its list's own source, for any number of lists,        *)
(* origins, concurrent refreshes and edits.  Health: the ring buffer of an *)
(* endpoint holds its last results in order and the endpoint is shown down *)
(* only after a full streak of failures.  ListFailover: a table leaves its *)
(* tunnel reluctantly.  Subscription: imports do not pile up.              *)
(***************************************************************************)
EXTENDS Subscription, CidrFeed, Health, ListFailover, FiniteSetTheorems, TLAPS

ListRec == [there : BOOLEAN, source : Seq(Origins), cache : SUBSET Entries, enabled : BOOLEAN]
Refresh == [todo : SUBSET (Lists \X ListRec), cur : ListRec, at : Seq(Origins), got : SUBSET Entries,
            id : Lists \cup {NoList}]
Froms(c) == {e.from : e \in c}

(* Every request works on the copies it read. *)
CidrTypeOK ==
    /\ list \in [Lists -> ListRec]
    /\ body \in [Origins -> {Unreachable} \cup SUBSET (Entries \cup {Noise})]
    /\ req \in [Requests -> Refresh]
    /\ edits \in Nat /\ moves \in 0 .. MaxFeedMoves
    /\ raced \in [Lists -> BOOLEAN] /\ thin \subseteq Origins

(* What an origin may answer. *)
Answers ==
    \A o \in Origins :
        \/ body[o] = Unreachable
        \/ body[o] = {Noise} /\ o \in thin
        \/ \E v \in 0 .. MaxFeedMoves : body[o] = Body(o, v)

(* A refresh has what the origins it asked gave, and the list it read is   *)
(* still the one stored unless an edit was seen to race with it.           *)
Gathers(r) ==
    req[r].id # NoList =>
        /\ Froms(req[r].got) \subseteq Range(req[r].cur.source)
        /\ Range(req[r].at) \subseteq Range(req[r].cur.source)
        /\ Range(req[r].cur.source) \subseteq Range(req[r].at) \cup Froms(req[r].got) \cup thin
        /\ ~raced[req[r].id] => list[req[r].id].source = req[r].cur.source
Snapshots(r) == \A p \in req[r].todo : ~raced[p[1]] => list[p[1]].source = p[2].source

CidrInv ==
    /\ CidrTypeOK /\ Answers
    /\ \A r \in Requests : Gathers(r) /\ Snapshots(r)
    /\ \A l \in Lists : ~list[l].there => list[l].cache = {}
    /\ CacheIsWhole

LEMMA GoneRec == Gone \in ListRec /\ Gone.source = NoSource /\ Gone.cache = {} /\ ~Gone.there
  BY DEF Gone, ListRec, NoSource

(* The members of a sequence are its head and the members of its tail. *)
LEMMA RangeHeadTail ==
    ASSUME NEW S, NEW q \in Seq(S), q # <<>>
    PROVE  Range(q) = {Head(q)} \cup Range(Tail(q)) /\ Tail(q) \in Seq(S) /\ Head(q) \in S
<1>1. Len(q) \in Nat /\ Len(q) > 0 /\ DOMAIN q = 1 .. Len(q) /\ Head(q) = q[1]
  OBVIOUS
<1>2. Len(Tail(q)) = Len(q) - 1 /\ \A i \in 1 .. Len(q) - 1 : Tail(q)[i] = q[i + 1]
  BY <1>1
<1>3. DOMAIN Tail(q) = 1 .. Len(q) - 1
  BY <1>2
<1>4. ASSUME NEW x \in Range(q) PROVE x \in {Head(q)} \cup Range(Tail(q))
  <2>1. PICK i \in 1 .. Len(q) : x = q[i]
    BY <1>1, <1>4 DEF Range
  <2>2. CASE i = 1
    BY <1>1, <2>1, <2>2
  <2>3. CASE i # 1
    <3>1. i - 1 \in 1 .. Len(q) - 1 /\ Tail(q)[i - 1] = x
      BY <1>1, <1>2, <2>1, <2>3
    <3>. QED
      BY <1>3, <3>1 DEF Range
  <2>. QED
    BY <2>2, <2>3
<1>5. ASSUME NEW x \in Range(Tail(q)) PROVE x \in Range(q)
  <2>1. PICK i \in 1 .. Len(q) - 1 : x = Tail(q)[i]
    BY <1>3, <1>5 DEF Range
  <2>2. i + 1 \in 1 .. Len(q) /\ q[i + 1] = x
    BY <1>1, <1>2, <2>1
  <2>. QED
    BY <1>1, <2>2 DEF Range
<1>6. Head(q) \in Range(q)
  BY <1>1 DEF Range
<1>. QED
  BY <1>4, <1>5, <1>6

LEMMA RangeEmpty == Range(NoSource) = {} /\ Froms({}) = {}
  BY DEF Range, NoSource, Froms

LEMMA BodyTyped ==
    \A o \in Origins, v \in 0 .. MaxFeedMoves : Body(o, v) \in SUBSET (Entries \cup {Noise})
  BY DEF Body, Entries

LEMMA CidrInitInv == CidrInit => CidrInv
<1>. SUFFICES ASSUME CidrInit PROVE CidrInv
  OBVIOUS
<1>1. Resting \in Refresh
  BY GoneRec DEF Resting, Refresh, NoSource
<1>2. CidrTypeOK
  <2>1. 0 \in 0 .. MaxFeedMoves
    BY CidrAssumption
  <2>2. body \in [Origins -> {Unreachable} \cup SUBSET (Entries \cup {Noise})]
    BY <2>1, BodyTyped DEF CidrInit
  <2>. QED
    BY <1>1, <2>1, <2>2, GoneRec DEF CidrInit, CidrTypeOK
<1>3. Answers
  BY CidrAssumption DEF CidrInit, Answers
<1>4. \A r \in Requests : req[r].id = NoList /\ req[r].todo = {}
  BY DEF CidrInit, Resting
<1>5. \A l \in Lists : list[l].cache = {}
  BY GoneRec DEF CidrInit
<1>. QED
  BY <1>2, <1>3, <1>4, <1>5 DEF CidrInv, Gathers, Snapshots, CacheIsWhole

(* A step of one request that leaves the lists and the origins alone. *)
LEMMA OneRequest ==
    ASSUME CidrInv, NEW r \in Requests, NEW q \in Refresh, req' = [req EXCEPT ![r] = q],
           UNCHANGED <<list, body, edits, moves, raced, thin>>,
           Gathers(r)', Snapshots(r)'
    PROVE  CidrInv'
<1>1. req'[r] = q /\ \A s \in Requests : s # r => req'[s] = req[s]
  BY DEF CidrInv, CidrTypeOK
<1>2. CidrTypeOK'
  BY DEF CidrInv, CidrTypeOK
<1>3. \A s \in Requests : Gathers(s)' /\ Snapshots(s)'
  BY <1>1 DEF CidrInv, Gathers, Snapshots
<1>. QED
  BY <1>2, <1>3 DEF CidrInv, Answers, CacheIsWhole

(* refreshAll: the snapshot it takes is what is stored. *)
LEMMA StartRefreshStep == ASSUME CidrInv, NEW r \in Requests, StartRefresh(r) PROVE CidrInv'
<1>. DEFINE q == [req[r] EXCEPT !.todo = Wanted]
<1>1. Wanted \in SUBSET (Lists \X ListRec) /\ \A p \in Wanted : p[2] = list[p[1]]
  BY DEF Wanted, CidrInv, CidrTypeOK
<1>2. q \in Refresh /\ q.todo = Wanted /\ q.id = NoList
  <2>1. req[r] \in Refresh
    BY DEF CidrInv, CidrTypeOK
  <2>2. req[r].id = NoList
    BY DEF StartRefresh, Resting
  <2>. QED
    BY <1>1, <2>1, <2>2 DEF Refresh
<1>3. req' = [req EXCEPT ![r] = q] /\ UNCHANGED <<list, body, edits, moves, raced, thin>>
  BY DEF StartRefresh
<1>. HIDE DEF q
<1>4. req'[r] = q
  BY <1>3 DEF CidrInv, CidrTypeOK
<1>5. Gathers(r)' /\ Snapshots(r)'
  BY <1>1, <1>2, <1>3, <1>4 DEF Gathers, Snapshots
<1>. QED
  BY <1>2, <1>3, <1>5, OneRequest

LEMMA StartListStep == ASSUME CidrInv, NEW r \in Requests, StartList(r) PROVE CidrInv'
<1>1. PICK p \in req[r].todo :
        req' = [req EXCEPT ![r] = [todo |-> req[r].todo \ {p}, cur |-> p[2], at |-> p[2].source,
                                   got |-> {}, id |-> p[1]]]
  BY DEF StartList
<1>. DEFINE q == [todo |-> req[r].todo \ {p}, cur |-> p[2], at |-> p[2].source, got |-> {}, id |-> p[1]]
<1>2. req[r] \in Refresh /\ p[1] \in Lists /\ p[2] \in ListRec /\ Snapshots(r)
  BY DEF CidrInv, CidrTypeOK, Refresh
<1>3. /\ q \in Refresh /\ q.todo \subseteq req[r].todo /\ q.cur = p[2] /\ q.at = p[2].source
      /\ q.got = {} /\ q.id = p[1]
  BY <1>2 DEF Refresh, ListRec
<1>4. req' = [req EXCEPT ![r] = q] /\ UNCHANGED <<list, body, edits, moves, raced, thin>>
  BY <1>1 DEF StartList
<1>. HIDE DEF q
<1>5. req'[r] = q
  BY <1>4 DEF CidrInv, CidrTypeOK
<1>6. Gathers(r)'
  BY <1>2, <1>3, <1>4, <1>5, RangeEmpty DEF Gathers, Snapshots
<1>7. Snapshots(r)'
  BY <1>2, <1>3, <1>4, <1>5 DEF Snapshots
<1>. QED
  BY <1>3, <1>4, <1>6, <1>7, OneRequest

(* A request that is done with its list. *)
LEMMA NextListOK ==
    ASSUME CidrInv, NEW r \in Requests
    PROVE  /\ NextList(req[r]) \in Refresh /\ NextList(req[r]).id = NoList
           /\ NextList(req[r]).todo = req[r].todo
<1>1. req[r] \in Refresh
  BY DEF CidrInv, CidrTypeOK
<1>. DEFINE a == [req[r] EXCEPT !.cur = Gone, !.at = NoSource]
<1>2. a \in Refresh /\ a.todo = req[r].todo
  <2>1. NoSource \in Seq(Origins) /\ Gone \in ListRec
    BY GoneRec DEF NoSource
  <2>. QED
    BY <1>1, <2>1 DEF Refresh
<1>3. NextList(req[r]) = [a EXCEPT !.got = {}, !.id = NoList]
  BY DEF NextList
<1>. HIDE DEF a
<1>. QED
  BY <1>2, <1>3 DEF Refresh

(* One GET: an address of the origin, or an origin that had none. *)
LEMMA GetStep == ASSUME CidrInv, NEW r \in Requests, Get(r) PROVE CidrInv'
<1>. DEFINE q == req[r]
            o == Head(q.at)
            b == body[o]
<1>1. /\ q \in Refresh /\ Gathers(r) /\ Snapshots(r) /\ q.id # NoList /\ q.at # <<>>
      /\ q.at \in Seq(Origins) /\ q.got \in SUBSET Entries
      /\ UNCHANGED <<list, body, edits, moves, raced, thin>>
  BY DEF Get, CidrInv, CidrTypeOK, Refresh, NoSource
<1>2. o \in Origins /\ Range(q.at) = {o} \cup Range(Tail(q.at)) /\ Tail(q.at) \in Seq(Origins)
  BY <1>1, RangeHeadTail
<1>3. CASE b = Unreachable
  <2>1. req' = [req EXCEPT ![r] = NextList(q)]
    BY <1>3 DEF Get, OnDown
  <2>2. req'[r] = NextList(q)
    BY <2>1 DEF CidrInv, CidrTypeOK
  <2>3. Gathers(r)' /\ Snapshots(r)'
    BY <1>1, <2>2, NextListOK DEF Gathers, Snapshots
  <2>. QED
    BY <1>1, <2>1, <2>3, NextListOK, OneRequest
<1>4. CASE b # Unreachable
  <2>. DEFINE n == [q EXCEPT !.at = Tail(q.at), !.got = q.got \cup Parse(b)]
  <2>1. Parse(b) \in SUBSET Entries /\ Froms(Parse(b)) \subseteq {o} /\ o \in Froms(Parse(b)) \cup thin
    <3>1. CASE b = {Noise} /\ o \in thin
      BY <3>1 DEF Parse, Froms
    <3>2. ASSUME NEW v \in 0 .. MaxFeedMoves, b = Body(o, v)
          PROVE  Parse(b) \in SUBSET Entries /\ Froms(Parse(b)) \subseteq {o} /\ o \in Froms(Parse(b)) \cup thin
      <4>. DEFINE e == [from |-> o, ver |-> v]
      <4>1. e \in Entries /\ e.from = o /\ e # Noise
        BY <1>2, CidrAssumption DEF Entries
      <4>. HIDE DEF e
      <4>2. Parse(b) = {e}
        BY <3>2, <4>1 DEF Parse, Body, e
      <4>. QED
        BY <4>1, <4>2 DEF Froms
    <3>. QED
      BY <1>2, <1>4, <3>1, <3>2 DEF CidrInv, Answers
  <2>2. req' = [req EXCEPT ![r] = n]
    BY <1>4 DEF Get
  <2>3. /\ n \in Refresh /\ n.at = Tail(q.at) /\ n.got = q.got \cup Parse(b) /\ n.cur = q.cur
        /\ n.id = q.id /\ n.todo = q.todo
    BY <1>1, <1>2, <2>1 DEF Refresh
  <2>. HIDE DEF n
  <2>4. req'[r] = n
    BY <2>2 DEF CidrInv, CidrTypeOK
  <2>5. Froms(n.got) = Froms(q.got) \cup Froms(Parse(b))
    BY <2>3 DEF Froms
  <2>6. Gathers(r)'
    BY <1>1, <1>2, <2>1, <2>3, <2>4, <2>5 DEF Gathers
  <2>7. Snapshots(r)'
    BY <1>1, <2>3, <2>4 DEF Snapshots
  <2>. QED
    BY <1>1, <2>2, <2>3, <2>6, <2>7, OneRequest
<1>. QED
  BY <1>3, <1>4

(* The end of refreshOne: what was gathered for the source that is stored. *)
LEMMA StoreStep == ASSUME CidrInv, NEW r \in Requests, Store(r) PROVE CidrInv'
<1>. DEFINE q == req[r]
            k == q.id
<1>1. /\ q \in Refresh /\ Gathers(r) /\ k \in Lists /\ k # NoList /\ q.at = NoSource
      /\ q.got \in SUBSET Entries
      /\ UNCHANGED <<body, edits, moves, raced, thin>>
      /\ req' = [req EXCEPT ![r] = NextList(q)]
  BY DEF Store, CidrInv, CidrTypeOK, Refresh
<1>2. list' = list \/ (list[k].there /\ list' = [list EXCEPT ![k].cache = q.got])
  BY DEF Store
<1>3. /\ list' \in [Lists -> ListRec]
      /\ \A l \in Lists : list'[l].source = list[l].source /\ list'[l].there = list[l].there
      /\ \A l \in Lists : list'[l].cache = list[l].cache \/ (l = k /\ list[k].there /\ list'[l].cache = q.got)
  <2>1. CASE list' = list
    BY <2>1 DEF CidrInv, CidrTypeOK
  <2>2. CASE list[k].there /\ list' = [list EXCEPT ![k].cache = q.got]
    <3>. DEFINE y == [list[k] EXCEPT !.cache = q.got]
    <3>1. /\ y \in ListRec /\ y.source = list[k].source /\ y.there = list[k].there /\ y.cache = q.got
      BY <1>1 DEF CidrInv, CidrTypeOK, ListRec
    <3>2. list' = [list EXCEPT ![k] = y]
      BY <2>2
    <3>. HIDE DEF y
    <3>. QED
      BY <1>1, <2>2, <3>1, <3>2 DEF CidrInv, CidrTypeOK
  <2>. QED
    BY <1>2, <2>1, <2>2
<1>4. CidrTypeOK' /\ Answers'
  BY <1>1, <1>3, NextListOK DEF CidrInv, CidrTypeOK, Answers
<1>5. \A s \in Requests : Gathers(s)' /\ Snapshots(s)'
  <2>1. req'[r] = NextList(q) /\ \A s \in Requests : s # r => req'[s] = req[s]
    BY <1>1 DEF CidrInv, CidrTypeOK
  <2>2. ASSUME NEW s \in Requests PROVE Snapshots(s)'
    <3>1. req'[s].todo = req[s].todo /\ Snapshots(s) /\ req[s].todo \subseteq Lists \X ListRec
      BY <2>1, NextListOK DEF CidrInv, CidrTypeOK, Refresh
    <3>. QED
      BY <1>1, <1>3, <3>1 DEF Snapshots
  <2>3. ASSUME NEW s \in Requests, s # r PROVE Gathers(s)'
    <3>1. req'[s] = req[s] /\ Gathers(s) /\ req[s].id \in Lists \cup {NoList}
      BY <2>1, <2>3 DEF CidrInv, CidrTypeOK, Refresh
    <3>. QED
      BY <1>1, <1>3, <3>1 DEF Gathers
  <2>4. Gathers(r)'
    BY <2>1, NextListOK DEF Gathers
  <2>. QED
    BY <2>2, <2>3, <2>4
<1>6. \A l \in Lists : ~list'[l].there => list'[l].cache = {}
  BY <1>3 DEF CidrInv
<1>7. CacheIsWhole'
  <2>1. ASSUME NEW l \in Lists, list'[l].cache # {}, ~raced[l]
        PROVE  /\ Froms(list'[l].cache) \subseteq Range(list'[l].source)
               /\ Range(list'[l].source) \subseteq Froms(list'[l].cache) \cup thin
    <3>1. CASE list'[l].cache = list[l].cache
      BY <1>3, <2>1, <3>1 DEF CidrInv, CacheIsWhole, Froms
    <3>2. CASE l = k /\ list'[l].cache = q.got
      BY <1>1, <1>3, <2>1, <3>2, RangeEmpty DEF Gathers
    <3>. QED
      BY <1>3, <3>1, <3>2
  <2>. QED
    BY <1>1, <2>1 DEF CacheIsWhole, Froms
<1>. QED
  BY <1>4, <1>5, <1>6, <1>7 DEF CidrInv

(* An edit of a list: a refresh of it under way is marked as raced. *)
LEMMA EditStep ==
    ASSUME CidrInv, NEW l \in Lists, Edited(l), NEW y \in ListRec, list' = [list EXCEPT ![l] = y],
           UNCHANGED <<body, req, moves, thin>>,
           ~y.there => y.cache = {},
           y.cache # {} => y.cache = list[l].cache /\ y.source = list[l].source
    PROVE  CidrInv'
<1>1. /\ list'[l] = y /\ \A k \in Lists : k # l => list'[k] = list[k]
      /\ list' \in [Lists -> ListRec]
  BY DEF CidrInv, CidrTypeOK
<1>2. edits' \in Nat /\ raced' = [raced EXCEPT ![l] = raced[l] \/ Refreshing(l)]
  BY DEF Edited, CidrInv, CidrTypeOK
<1>3. /\ raced' \in [Lists -> BOOLEAN] /\ raced'[l] = (raced[l] \/ Refreshing(l))
      /\ \A k \in Lists : k # l => raced'[k] = raced[k]
  <2>1. (raced[l] \/ Refreshing(l)) \in BOOLEAN
    OBVIOUS
  <2>. QED
    BY <1>2, <2>1 DEF CidrInv, CidrTypeOK
<1>4. CidrTypeOK' /\ Answers'
  BY <1>1, <1>2, <1>3 DEF CidrInv, CidrTypeOK, Answers
<1>5. ASSUME NEW r \in Requests PROVE Gathers(r)' /\ Snapshots(r)'
  <2>1. Gathers(r) /\ Snapshots(r) /\ req[r] \in Refresh /\ req' = req
    BY <1>5 DEF CidrInv, CidrTypeOK
  <2>2. req[r].id = l => raced'[l]
    BY <1>3 DEF Refreshing
  <2>3. \A p \in req[r].todo : p[1] = l => raced'[l]
    BY <1>3 DEF Refreshing
  <2>4. Gathers(r)'
    BY <1>1, <1>3, <2>1, <2>2 DEF Gathers, Refresh
  <2>5. Snapshots(r)'
    BY <1>1, <1>3, <2>1, <2>3 DEF Snapshots, Refresh
  <2>. QED
    BY <2>4, <2>5
<1>6. \A k \in Lists : ~list'[k].there => list'[k].cache = {}
  BY <1>1 DEF CidrInv
<1>7. CacheIsWhole'
  <2>1. \A k \in Lists : list'[k].cache # {} => list'[k].cache = list[k].cache /\ list'[k].source = list[k].source
    BY <1>1
  <2>2. \A k \in Lists : ~raced'[k] => ~raced[k]
    BY <1>3
  <2>. QED
    BY <2>1, <2>2 DEF CidrInv, CacheIsWhole
<1>. QED
  BY <1>4, <1>5, <1>6, <1>7 DEF CidrInv

LEMMA UpsertStep ==
    ASSUME CidrInv, NEW l \in Lists, NEW src \in Sources, NEW on_ \in BOOLEAN, NEW c,
           UpsertRoutingList(l, src, on_, c)
    PROVE  CidrInv'
<1>. DEFINE kept == IF list[l].there THEN KeptCache(list[l], src, c) ELSE c
            y == [there |-> TRUE, source |-> src, enabled |-> on_, cache |-> kept]
<1>1. Edited(l) /\ c \in {{}, list[l].cache} /\ list' = [list EXCEPT ![l] = y] /\ UNCHANGED <<body, req, moves, thin>>
  BY DEF UpsertRoutingList
<1>2. list[l] \in ListRec /\ (~list[l].there => list[l].cache = {}) /\ src \in Seq(Origins)
  BY CidrAssumption DEF CidrInv, CidrTypeOK
<1>3. kept = {} \/ (kept = list[l].cache /\ src = list[l].source)
  BY <1>1, <1>2 DEF KeptCache
<1>4. y \in ListRec /\ y.there /\ y.source = src /\ y.cache = kept
  BY <1>2, <1>3 DEF ListRec
<1>. HIDE DEF y, kept
<1>. QED
  BY <1>1, <1>3, <1>4, EditStep

LEMMA DeleteStep == ASSUME CidrInv, NEW l \in Lists, DeleteRoutingList(l) PROVE CidrInv'
<1>1. Edited(l) /\ list' = [list EXCEPT ![l] = Gone] /\ UNCHANGED <<body, req, moves, thin>>
  BY DEF DeleteRoutingList
<1>. QED
  BY <1>1, GoneRec, EditStep

(* The network. *)
LEMMA FeedMovesStep == ASSUME CidrInv, NEW o \in Origins, FeedMoves(o) PROVE CidrInv'
<1>1. PICK b \in {Unreachable, {Noise}, Body(o, moves + 1)} :
        /\ body' = [body EXCEPT ![o] = b]
        /\ thin' = IF b = {Noise} THEN thin \cup {o} ELSE thin
  BY DEF FeedMoves
<1>2. moves' = moves + 1 /\ moves < MaxFeedMoves /\ UNCHANGED <<list, req, edits, raced>>
  BY DEF FeedMoves
<1>3. moves' \in 0 .. MaxFeedMoves /\ thin \subseteq thin' /\ thin' \subseteq Origins
  BY <1>1, <1>2, CidrAssumption DEF CidrInv, CidrTypeOK
<1>4. CidrTypeOK'
  <2>1. b \in {Unreachable} \cup SUBSET (Entries \cup {Noise})
    BY <1>2, <1>3, BodyTyped
  <2>2. body' \in [Origins -> {Unreachable} \cup SUBSET (Entries \cup {Noise})]
    BY <1>1, <2>1 DEF CidrInv, CidrTypeOK
  <2>. QED
    BY <1>2, <1>3, <2>2 DEF CidrInv, CidrTypeOK
<1>5. Answers'
  <2>1. ASSUME NEW p \in Origins
        PROVE  \/ body'[p] = Unreachable
               \/ body'[p] = {Noise} /\ p \in thin'
               \/ \E v \in 0 .. MaxFeedMoves : body'[p] = Body(p, v)
    <3>1. CASE p # o
      <4>1. body'[p] = body[p]
        BY <1>1, <3>1 DEF CidrInv, CidrTypeOK
      <4>. QED
        BY <1>3, <4>1 DEF CidrInv, Answers
    <3>2. CASE p = o
      <4>1. body'[p] = b
        BY <1>1, <3>2 DEF CidrInv, CidrTypeOK
      <4>. QED
        BY <1>1, <1>2, <1>3, <3>2, <4>1
    <3>. QED
      BY <3>1, <3>2
  <2>. QED
    BY <2>1 DEF Answers
<1>6. \A r \in Requests : Gathers(r)' /\ Snapshots(r)'
  BY <1>2, <1>3 DEF CidrInv, Gathers, Snapshots
<1>7. CacheIsWhole'
  BY <1>2, <1>3 DEF CidrInv, CacheIsWhole
<1>. QED
  BY <1>2, <1>4, <1>5, <1>6, <1>7 DEF CidrInv

LEMMA CidrStep == CidrInv /\ [CidrNext]_cidrVars => CidrInv'
<1>. SUFFICES ASSUME CidrInv, [CidrNext]_cidrVars PROVE CidrInv'
  OBVIOUS
<1>1. CASE UNCHANGED cidrVars
  BY <1>1 DEF cidrVars, CidrInv, CidrTypeOK, Answers, Gathers, Snapshots, CacheIsWhole
<1>. QED
  BY <1>1, StartRefreshStep, StartListStep, GetStep, StoreStep, UpsertStep, DeleteStep, FeedMovesStep
     DEF CidrNext

(* refreshOne and the store's rules for the cache: a carve-out is never    *)
(* shrunk to a part of its source nor filled from another, whatever        *)
(* refreshes run at once and whichever origins fail between two GETs.      *)
THEOREM CacheStaysWhole == CidrSpec => []CacheIsWhole
<1>1. CidrInv => CacheIsWhole
  BY DEF CidrInv
<1>. QED
  BY <1>1, CidrInitInv, CidrStep, PTL DEF CidrSpec
-----------------------------------------------------------------------------
(* Health: the ring buffer of a statistic.                                 *)
Ring == 0 .. healthWindow - 1
Results == {"alive", "down"}
Stat == [state : {"unknown", "alive", "down"}, consecFail : Nat, recent : [Ring -> Results \cup {Nothing}],
         recentN : 0 .. healthWindow, recentPos : Ring]

HealthTypeOK ==
    /\ flight \in [Endpoints \X Probers -> {Nothing, Asked, "unknown", "alive", "down"}]
    /\ stats \in [Endpoints -> Stat]
    /\ lately \in [Endpoints -> Seq(Results)]

(* Where the ring keeps the i-th oldest result: once it is full, the oldest *)
(* is at the write position.                                               *)
Slot(s, i) ==
    IF s.recentN < healthWindow THEN i - 1
    ELSE IF s.recentPos + i - 1 < healthWindow THEN s.recentPos + i - 1
    ELSE s.recentPos + i - 1 - healthWindow

Window(s, h) ==
    /\ Len(h) = s.recentN
    /\ s.recentN < healthWindow => s.recentPos = s.recentN
    /\ \A i \in 1 .. s.recentN : h[i] = s.recent[Slot(s, i)]

(* The streak is one of failures; it is full when the endpoint is down.    *)
Streak(s, h) ==
    /\ s.consecFail <= flapThreshold
    /\ s.state = "down" => s.consecFail = flapThreshold
    /\ \A i \in 0 .. s.consecFail - 1 : i < Len(h) /\ h[Len(h) - i] = "down"

HealthInv == HealthTypeOK /\ \A e \in Endpoints : Window(stats[e], lately[e]) /\ Streak(stats[e], lately[e])

(* % on the indexes the ring uses. *)
LEMMA Wraps ==
    ASSUME NEW x \in Nat, x < 2 * healthWindow
    PROVE  x % healthWindow = IF x < healthWindow THEN x ELSE x - healthWindow
  BY HealthAssumption, SMTT(30)

LEMMA WindowConstants ==
    healthWindow \in Nat /\ healthWindow > 0 /\ flapThreshold \in Nat /\ flapThreshold > 0 /\ flapThreshold <= healthWindow
  BY HealthAssumption

(* pushSample *)
LEMMA PushOK ==
    ASSUME NEW s \in Stat, NEW r \in Results
    PROVE  /\ pushSample(s, r) \in Stat
           /\ pushSample(s, r).state = s.state /\ pushSample(s, r).consecFail = s.consecFail
           /\ pushSample(s, r).recentN = (IF s.recentN < healthWindow THEN s.recentN + 1 ELSE s.recentN)
           /\ pushSample(s, r).recentPos = (IF s.recentPos + 1 < healthWindow THEN s.recentPos + 1 ELSE 0)
           /\ pushSample(s, r).recent = [s.recent EXCEPT ![s.recentPos] = r]
<1>. DEFINE p == (s.recentPos + 1) % healthWindow
            n == IF s.recentN < healthWindow THEN s.recentN + 1 ELSE s.recentN
            f == [s.recent EXCEPT ![s.recentPos] = r]
<1>1. s.recentPos \in Nat /\ s.recentPos < healthWindow /\ s.recentN \in 0 .. healthWindow
  BY WindowConstants DEF Stat, Ring
<1>2. p = IF s.recentPos + 1 < healthWindow THEN s.recentPos + 1 ELSE 0
  <2>. DEFINE x == s.recentPos + 1
  <2>1. x \in Nat /\ x < 2 * healthWindow /\ x <= healthWindow
    BY <1>1, WindowConstants
  <2>2. p = x % healthWindow
    OBVIOUS
  <2>. HIDE DEF x, p
  <2>3. x % healthWindow = IF x < healthWindow THEN x ELSE x - healthWindow
    BY <2>1, Wraps
  <2>4. p = IF x < healthWindow THEN x ELSE 0
    BY <2>1, <2>2, <2>3, WindowConstants
  <2>. QED
    BY <2>4 DEF x
<1>3. p \in Ring
  BY <1>1, <1>2, WindowConstants DEF Ring
<1>4. n \in 0 .. healthWindow
  BY <1>1, WindowConstants
<1>5. f \in [Ring -> Results \cup {Nothing}]
  BY DEF Stat
<1>6. pushSample(s, r) = [s EXCEPT !.recent = f, !.recentPos = p, !.recentN = n]
  BY DEF pushSample, Stat
<1>. HIDE DEF p, n, f
<1>7. /\ pushSample(s, r) \in Stat
      /\ pushSample(s, r).state = s.state /\ pushSample(s, r).consecFail = s.consecFail
      /\ pushSample(s, r).recentN = n /\ pushSample(s, r).recentPos = p /\ pushSample(s, r).recent = f
  BY <1>3, <1>4, <1>5, <1>6 DEF Stat
<1>. QED
  BY <1>2, <1>7 DEF n, f

(* The last results, after one more. *)
Noted(h, r) == IF Len(h) = healthWindow THEN Append(Tail(h), r) ELSE Append(h, r)

LEMMA NotedOK ==
    ASSUME NEW h \in Seq(Results), NEW r \in Results, Len(h) <= healthWindow
    PROVE  /\ Noted(h, r) \in Seq(Results)
           /\ Len(Noted(h, r)) = (IF Len(h) < healthWindow THEN Len(h) + 1 ELSE healthWindow)
           /\ Noted(h, r)[Len(Noted(h, r))] = r
           /\ Len(h) < healthWindow => \A i \in 1 .. Len(h) : Noted(h, r)[i] = h[i]
           /\ Len(h) = healthWindow => \A i \in 1 .. healthWindow - 1 : Noted(h, r)[i] = h[i + 1]
<1>1. CASE Len(h) < healthWindow
  <2>1. Noted(h, r) = Append(h, r)
    BY <1>1, WindowConstants DEF Noted
  <2>. QED
    BY <1>1, <2>1, WindowConstants
<1>2. CASE Len(h) = healthWindow
  <2>1. Noted(h, r) = Append(Tail(h), r)
    BY <1>2 DEF Noted
  <2>2. /\ Tail(h) \in Seq(Results) /\ Len(Tail(h)) = healthWindow - 1
        /\ \A i \in 1 .. healthWindow - 1 : Tail(h)[i] = h[i + 1]
    BY <1>2, WindowConstants
  <2>. HIDE DEF Results
  <2>3. /\ Append(Tail(h), r) \in Seq(Results) /\ Len(Append(Tail(h), r)) = healthWindow
        /\ Append(Tail(h), r)[healthWindow] = r
        /\ \A i \in 1 .. healthWindow - 1 : Append(Tail(h), r)[i] = Tail(h)[i]
    BY <2>2, WindowConstants
  <2>. QED
    BY <1>2, <2>1, <2>2, <2>3, WindowConstants
<1>. QED
  BY <1>1, <1>2, WindowConstants

(* The window moves on by one result. *)
LEMMA PushWindow ==
    ASSUME NEW s \in Stat, NEW h \in Seq(Results), NEW r \in Results, Window(s, h)
    PROVE  Window(pushSample(s, r), Noted(h, r))
<1>. DEFINE t == pushSample(s, r)
            g == Noted(h, r)
            N == s.recentN
            P == s.recentPos
            f == s.recent
<1>1. /\ N \in Nat /\ N <= healthWindow /\ P \in Nat /\ P < healthWindow /\ P \in Ring
      /\ f \in [Ring -> Results \cup {Nothing}]
  BY WindowConstants DEF Stat, Ring
<1>2. Len(h) = N /\ (N < healthWindow => P = N) /\ \A i \in 1 .. N : h[i] = f[Slot(s, i)]
  BY DEF Window
<1>3. /\ t.recentN = (IF N < healthWindow THEN N + 1 ELSE N)
      /\ t.recentPos = (IF P + 1 < healthWindow THEN P + 1 ELSE 0)
      /\ t.recent = [f EXCEPT ![P] = r]
  BY PushOK
<1>4. /\ Len(g) = (IF N < healthWindow THEN N + 1 ELSE healthWindow) /\ g[Len(g)] = r
      /\ N < healthWindow => \A i \in 1 .. N : g[i] = h[i]
      /\ N = healthWindow => \A i \in 1 .. healthWindow - 1 : g[i] = h[i + 1]
  BY <1>1, <1>2, NotedOK
<1>5. t.recent[P] = r /\ \A x \in Ring : x # P => t.recent[x] = f[x]
  BY <1>1, <1>3
<1>. HIDE DEF t, g
<1>6. Len(g) = t.recentN
  BY <1>1, <1>3, <1>4, WindowConstants
<1>7. t.recentN < healthWindow => t.recentPos = t.recentN
  BY <1>1, <1>2, <1>3, WindowConstants
<1>8. ASSUME NEW i \in 1 .. t.recentN
      PROVE  g[i] = t.recent[Slot(t, i)]
  <2>1. CASE N < healthWindow
    <3>1. Slot(t, i) = i - 1 /\ i \in 1 .. N + 1
      BY <1>1, <1>2, <1>3, <2>1, WindowConstants DEF Slot
    <3>2. CASE i = N + 1
      BY <1>1, <1>2, <1>4, <1>5, <2>1, <3>1, <3>2, WindowConstants
    <3>3. CASE i \in 1 .. N
      <4>1. g[i] = f[Slot(s, i)]
        BY <1>2, <1>4, <2>1, <3>3
      <4>2. Slot(s, i) = i - 1 /\ i - 1 \in Ring /\ i - 1 # P
        BY <1>1, <1>2, <2>1, <3>3, WindowConstants DEF Slot, Ring
      <4>. QED
        BY <1>5, <3>1, <4>1, <4>2
    <3>. QED
      BY <1>1, <3>1, <3>2, <3>3
  <2>2. CASE N = healthWindow
    <3>1. t.recentN = healthWindow /\ i \in 1 .. healthWindow
      BY <1>3, <2>2, WindowConstants
    <3>2. CASE i = healthWindow
      <4>1. Slot(t, i) = P
        BY <1>1, <1>3, <3>1, <3>2, WindowConstants DEF Slot
      <4>. QED
        BY <1>4, <1>5, <2>2, <3>2, <4>1, WindowConstants
    <3>3. CASE i \in 1 .. healthWindow - 1
      <4>1. g[i] = h[i + 1] /\ i + 1 \in 1 .. N
        BY <1>4, <2>2, <3>3, WindowConstants
      <4>2. h[i + 1] = f[Slot(s, i + 1)]
        BY <1>2, <4>1
      <4>3. Slot(t, i) = Slot(s, i + 1) /\ Slot(t, i) \in Ring /\ Slot(t, i) # P
        <5>. DEFINE q == IF P + i < healthWindow THEN P + i ELSE P + i - healthWindow
        <5>1. Slot(s, i + 1) = q
          BY <1>1, <2>2, <3>3, WindowConstants DEF Slot
        <5>2. ASSUME P + 1 < healthWindow
              PROVE  Slot(t, i) = q
          <6>1. t.recentPos = P + 1
            BY <1>3, <5>2
          <6>. QED
            BY <1>1, <3>1, <3>3, <6>1, WindowConstants DEF Slot
        <5>3. ASSUME P + 1 = healthWindow
              PROVE  Slot(t, i) = q
          <6>1. t.recentPos = 0
            BY <1>3, <5>3, WindowConstants
          <6>. QED
            BY <1>1, <3>1, <3>3, <5>3, <6>1, WindowConstants DEF Slot
        <5>4. Slot(t, i) = q
          BY <1>1, <5>2, <5>3, WindowConstants
        <5>5. q \in Ring /\ q # P
          BY <1>1, <3>3, WindowConstants DEF Ring
        <5>. QED
          BY <5>1, <5>4, <5>5
      <4>. QED
        BY <1>5, <4>1, <4>2, <4>3
    <3>. QED
      BY <3>1, <3>2, <3>3, WindowConstants
  <2>. QED
    BY <1>1, <2>1, <2>2, WindowConstants
<1>. QED
  BY <1>6, <1>7, <1>8 DEF Window, t, g

(* The end of the last results, after one more. *)
LEMMA NotedEnd ==
    ASSUME NEW h \in Seq(Results), NEW r \in Results, Len(h) <= healthWindow,
           NEW i \in 1 .. healthWindow - 1, i - 1 < Len(h)
    PROVE  i < Len(Noted(h, r)) /\ Noted(h, r)[Len(Noted(h, r)) - i] = h[Len(h) - (i - 1)]
<1>. DEFINE g == Noted(h, r)
<1>1. /\ Len(g) = (IF Len(h) < healthWindow THEN Len(h) + 1 ELSE healthWindow)
      /\ Len(h) < healthWindow => \A j \in 1 .. Len(h) : g[j] = h[j]
      /\ Len(h) = healthWindow => \A j \in 1 .. healthWindow - 1 : g[j] = h[j + 1]
  BY NotedOK
<1>2. Len(h) \in Nat
  OBVIOUS
<1>. HIDE DEF g
<1>3. CASE Len(h) < healthWindow
  <2>1. Len(g) - i = Len(h) - (i - 1) /\ Len(g) - i \in 1 .. Len(h) /\ i < Len(g)
    BY <1>1, <1>2, <1>3, WindowConstants
  <2>. QED
    BY <1>1, <1>3, <2>1 DEF g
<1>4. CASE Len(h) = healthWindow
  <2>1. Len(g) - i + 1 = Len(h) - (i - 1) /\ Len(g) - i \in 1 .. healthWindow - 1 /\ i < Len(g)
    BY <1>1, <1>2, <1>4, WindowConstants
  <2>. QED
    BY <1>1, <1>4, <2>1 DEF g
<1>. QED
  BY <1>2, <1>3, <1>4, WindowConstants

(* counted and commit, on a result that says something. *)
LEMMA RecordOK ==
    ASSUME NEW s \in Stat, NEW h \in Seq(Results), NEW r \in Results, Window(s, h), Streak(s, h)
    PROVE  /\ commit(counted(s, r), r) \in Stat /\ Noted(h, r) \in Seq(Results)
           /\ Window(commit(counted(s, r), r), Noted(h, r)) /\ Streak(commit(counted(s, r), r), Noted(h, r))
<1>. DEFINE t == pushSample(s, r)
            c == IF r = "alive" THEN 0 ELSE IF s.consecFail < flapThreshold THEN s.consecFail + 1 ELSE s.consecFail
            q == IF r = "down" /\ c < flapThreshold THEN s.state ELSE r
            u == commit(counted(s, r), r)
            g == Noted(h, r)
<1>1. t \in Stat /\ t.state = s.state /\ t.consecFail = s.consecFail
  BY PushOK
<1>2. Window(t, g)
  BY PushWindow
<1>3. s.consecFail \in Nat /\ s.consecFail <= flapThreshold /\ c \in Nat /\ c <= flapThreshold
  BY WindowConstants DEF Stat, Streak
<1>4. Len(h) = s.recentN /\ Len(h) <= healthWindow
  BY WindowConstants DEF Window, Stat
<1>5. g \in Seq(Results) /\ g[Len(g)] = r /\ Len(g) > 0 /\ Len(g) \in Nat
  BY <1>4, NotedOK, WindowConstants
<1>6. u \in Stat /\ u.state = q /\ u.consecFail = c /\ u.recent = t.recent /\ u.recentN = t.recentN /\ u.recentPos = t.recentPos
  <2>1. counted(s, r) = [t EXCEPT !.consecFail = c]
    BY <1>1, <1>3 DEF counted, Results, Stat
  <2>. HIDE DEF t, c
  <2>. DEFINE v == [t EXCEPT !.consecFail = c]
  <2>3. /\ v \in Stat /\ v.consecFail = c /\ v.state = s.state /\ v.recent = t.recent /\ v.recentN = t.recentN
        /\ v.recentPos = t.recentPos
    BY <1>1, <1>3 DEF Stat
  <2>4. u = commit(v, r)
    BY <2>1
  <2>. HIDE DEF v, u
  <2>. QED
    BY <2>3, <2>4 DEF commit, Stat, Results
<1>. HIDE DEF u, g, t
<1>7. Window(u, g)
  BY <1>2, <1>6 DEF Window, Slot
<1>8. Streak(u, g)
  <2>1. u.state = "down" => c = flapThreshold
    BY <1>3, <1>6, WindowConstants DEF Streak, Results, Stat
  <2>2. ASSUME NEW i \in 0 .. c - 1
        PROVE  i < Len(g) /\ g[Len(g) - i] = "down"
    <3>1. r = "down" /\ c <= s.consecFail + 1
      BY <1>3, WindowConstants DEF Results
    <3>2. CASE i = 0
      BY <1>5, <3>1, <3>2
    <3>3. CASE i # 0
      <4>1. i \in 1 .. healthWindow - 1 /\ i - 1 \in 0 .. s.consecFail - 1
        BY <1>3, <3>1, <3>3, WindowConstants
      <4>2. i - 1 < Len(h) /\ h[Len(h) - (i - 1)] = "down"
        BY <4>1 DEF Streak
      <4>3. i < Len(g) /\ g[Len(g) - i] = h[Len(h) - (i - 1)]
        BY <1>4, <4>1, <4>2, NotedEnd DEF g
      <4>. QED
        BY <4>2, <4>3
    <3>. QED
      BY <3>2, <3>3
  <2>. QED
    BY <1>3, <1>6, <2>1, <2>2 DEF Streak
<1>. QED
  BY <1>5, <1>6, <1>7, <1>8 DEF u, g

(* No answer leaves the window as it is. *)
LEMMA UnknownOK ==
    ASSUME NEW s \in Stat, NEW h \in Seq(Results), Window(s, h), Streak(s, h)
    PROVE  LET u == commit(counted(s, "unknown"), "unknown")
           IN u \in Stat /\ Window(u, h) /\ Streak(u, h)
<1>. DEFINE u == [s EXCEPT !.state = "unknown"]
<1>1. commit(counted(s, "unknown"), "unknown") = u
  BY DEF commit, counted
<1>2. /\ u \in Stat /\ u.state = "unknown" /\ u.consecFail = s.consecFail
      /\ u.recent = s.recent /\ u.recentN = s.recentN /\ u.recentPos = s.recentPos
  BY DEF Stat
<1>. HIDE DEF u
<1>3. Window(u, h)
  BY <1>2 DEF Window, Slot
<1>4. Streak(u, h)
  BY <1>2 DEF Streak
<1>. QED
  BY <1>1, <1>2, <1>3, <1>4

LEMMA HealthInitInv == HealthInit => HealthInv
<1>. SUFFICES ASSUME HealthInit
     PROVE  HealthInv
  OBVIOUS
<1>1. /\ NoStat \in Stat /\ NoStat.state = "unknown" /\ NoStat.consecFail = 0
      /\ NoStat.recentN = 0 /\ NoStat.recentPos = 0
  BY WindowConstants DEF NoStat, Stat, Ring
<1>2. << >> \in Seq(Results) /\ Len(<< >>) = 0
  OBVIOUS
<1>3. HealthTypeOK
  BY <1>1, <1>2 DEF HealthInit, HealthTypeOK
<1>4. ASSUME NEW e \in Endpoints
      PROVE  Window(stats[e], lately[e]) /\ Streak(stats[e], lately[e])
  <2>1. stats[e] = NoStat /\ lately[e] = << >>
    BY DEF HealthInit
  <2>. QED
    BY <1>1, <1>2, <2>1, WindowConstants DEF Window, Streak
<1>. QED
  BY <1>3, <1>4 DEF HealthInv

LEMMA RecordStep ==
    ASSUME HealthInv, NEW e \in Endpoints, NEW p \in Probers, Record(e, p)
    PROVE  HealthInv'
<1>. DEFINE r == flight[<<e, p>>]
<1>1. r \in Results \cup {"unknown"}
  BY DEF HealthInv, HealthTypeOK, Record, Results
<1>2. /\ stats \in [Endpoints -> Stat] /\ lately \in [Endpoints -> Seq(Results)]
      /\ \A x \in Endpoints : Window(stats[x], lately[x]) /\ Streak(stats[x], lately[x])
  BY DEF HealthInv, HealthTypeOK
<1>. DEFINE u == commit(counted(stats[e], r), r)
            g == IF r = "unknown" THEN lately[e] ELSE Noted(lately[e], r)
<1>3. stats' = [stats EXCEPT ![e] = u] /\ lately' = [lately EXCEPT ![e] = g]
  BY <1>2 DEF Record, record, Noted
<1>4. flight' \in [Endpoints \X Probers -> {Nothing, Asked, "unknown", "alive", "down"}]
  BY DEF HealthInv, HealthTypeOK, Record
<1>5. u \in Stat /\ g \in Seq(Results) /\ Window(u, g) /\ Streak(u, g)
  <2>1. stats[e] \in Stat /\ lately[e] \in Seq(Results) /\ Window(stats[e], lately[e]) /\ Streak(stats[e], lately[e])
    BY <1>2
  <2>. HIDE DEF r
  <2>2. CASE r = "unknown"
    BY <2>1, <2>2, UnknownOK
  <2>3. CASE r \in Results
    <3>1. r # "unknown"
      BY <2>3 DEF Results
    <3>. QED
      BY <2>1, <2>3, <3>1, RecordOK
  <2>. QED
    BY <1>1, <2>2, <2>3
<1>. HIDE DEF u, g
<1>6. stats' \in [Endpoints -> Stat] /\ lately' \in [Endpoints -> Seq(Results)]
  BY <1>2, <1>3, <1>5
<1>7. ASSUME NEW x \in Endpoints
      PROVE  Window(stats[x], lately[x])' /\ Streak(stats[x], lately[x])'
  <2>1. CASE x = e
    <3>1. stats'[x] = u /\ lately'[x] = g
      BY <1>2, <1>3, <2>1
    <3>. QED
      BY <1>5, <3>1 DEF Window, Streak, Slot
  <2>2. CASE x # e
    <3>1. stats'[x] = stats[x] /\ lately'[x] = lately[x]
      BY <1>2, <1>3, <2>2
    <3>. QED
      BY <1>2, <3>1 DEF Window, Streak, Slot
  <2>. QED
    BY <2>1, <2>2
<1>. QED
  BY <1>4, <1>6, <1>7 DEF HealthInv, HealthTypeOK

(* Every other step leaves what was recorded alone. *)
LEMMA OtherStep ==
    ASSUME HealthInv, UNCHANGED <<stats, lately>>,
           flight' \in [Endpoints \X Probers -> {Nothing, Asked, "unknown", "alive", "down"}]
    PROVE  HealthInv'
  BY DEF HealthInv, HealthTypeOK, Window, Streak, Slot

LEMMA HealthStep == HealthInv /\ [HealthNext]_healthVars => HealthInv'
<1>. SUFFICES ASSUME HealthInv, [HealthNext]_healthVars
     PROVE  HealthInv'
  OBVIOUS
<1>. DEFINE Held == {Nothing, Asked, "unknown", "alive", "down"}
<1>0. flight \in [Endpoints \X Probers -> Held]
  BY DEF HealthInv, HealthTypeOK
<1>1. CASE ProbeAll
  BY <1>0, <1>1, OtherStep DEF ProbeAll
<1>2. CASE ProbedAll
  BY <1>0, <1>2, OtherStep DEF ProbedAll
<1>3. ASSUME NEW e \in Endpoints, NEW p \in Probers, Answer(e, p)
      PROVE  HealthInv'
  <2>1. probe(e) \in Held
    BY DEF probe
  <2>2. flight' \in [Endpoints \X Probers -> Held]
    BY <1>0, <1>3, <2>1 DEF Answer
  <2>. QED
    BY <1>3, <2>2, OtherStep DEF Answer
<1>4. ASSUME NEW e \in Endpoints, ProbeOne(e)
      PROVE  HealthInv'
  <2>1. flight' \in [Endpoints \X Probers -> Held]
    BY <1>0, <1>4 DEF ProbeOne
  <2>. QED
    BY <1>4, <2>1, OtherStep DEF ProbeOne
<1>5. ASSUME NEW e \in Endpoints, Toggle(e)
      PROVE  HealthInv'
  BY <1>0, <1>5, OtherStep DEF Toggle
<1>6. CASE Network
  BY <1>0, <1>6, OtherStep DEF Network
<1>7. CASE UNCHANGED healthVars
  BY <1>0, <1>7, OtherStep DEF healthVars
<1>8. "tick" \in Probers /\ "one" \in Probers
  BY DEF Probers
<1>. QED
  BY <1>1, <1>2, <1>3, <1>4, <1>5, <1>6, <1>7, <1>8, RecordStep DEF HealthNext, TickStep, OneStep

(* Where HealthHonest looks is the slot. *)
LEMMA SlotOf ==
    ASSUME NEW s \in Stat, s.recentN < healthWindow => s.recentPos = s.recentN, NEW i \in 1 .. s.recentN
    PROVE  (s.recentPos + healthWindow - s.recentN + i - 1) % healthWindow = Slot(s, i)
<1>. DEFINE x == s.recentPos + healthWindow - s.recentN + i - 1
<1>1. /\ s.recentN \in Nat /\ s.recentN <= healthWindow /\ s.recentPos \in Nat /\ s.recentPos < healthWindow
      /\ i \in Nat /\ i >= 1 /\ i <= s.recentN
  BY WindowConstants DEF Stat, Ring
<1>2. x \in Nat /\ x < 2 * healthWindow
  BY <1>1, WindowConstants
<1>3. Slot(s, i) = IF x < healthWindow THEN x ELSE x - healthWindow
  BY <1>1, WindowConstants DEF Slot
<1>. HIDE DEF x
<1>4. x % healthWindow = IF x < healthWindow THEN x ELSE x - healthWindow
  BY <1>2, Wraps
<1>. QED
  BY <1>3, <1>4 DEF x

LEMMA HealthIsHonest == HealthInv => HealthHonest
<1>. SUFFICES ASSUME HealthInv, NEW e \in Endpoints
     PROVE  LET s == stats[e]
                h == lately[e]
            IN /\ h = [i \in 1 .. s.recentN |-> s.recent[(s.recentPos + healthWindow - s.recentN + i - 1) % healthWindow]]
               /\ s.state = "down" => \A i \in 0 .. flapThreshold - 1 : i < Len(h) /\ h[Len(h) - i] = "down"
  BY DEF HealthHonest
<1>. DEFINE s == stats[e]
            h == lately[e]
<1>1. s \in Stat /\ h \in Seq(Results) /\ Window(s, h) /\ Streak(s, h)
  BY DEF HealthInv, HealthTypeOK
<1>. HIDE DEF s, h
<1>2. Len(h) = s.recentN /\ \A i \in 1 .. s.recentN : h[i] = s.recent[Slot(s, i)]
  BY <1>1 DEF Window
<1>3. \A i \in 1 .. s.recentN : (s.recentPos + healthWindow - s.recentN + i - 1) % healthWindow = Slot(s, i)
  BY <1>1, SlotOf DEF Window
<1>4. h = [i \in 1 .. s.recentN |-> h[i]]
  BY <1>1, <1>2
<1>5. [i \in 1 .. s.recentN |-> h[i]]
      = [i \in 1 .. s.recentN |-> s.recent[(s.recentPos + healthWindow - s.recentN + i - 1) % healthWindow]]
  BY <1>2, <1>3, Zenon
<1>6. s.state = "down" => \A i \in 0 .. flapThreshold - 1 : i < Len(h) /\ h[Len(h) - i] = "down"
  BY <1>1 DEF Streak
<1>. QED
  BY <1>4, <1>5, <1>6 DEF s, h

(* The dashboard is honest for any window, threshold and number of          *)
(* endpoints, whatever order the probes of the ticker and of the API        *)
(* answer in.                                                               *)
THEOREM DashboardHonest == HealthSpec => []HealthHonest
  BY HealthInitInv, HealthStep, HealthIsHonest, PTL DEF HealthSpec
-----------------------------------------------------------------------------
(* ListFailover: groups whose way out over the WAN, or into the void, comes *)
(* after their tunnels.                                                    *)
TerminalsLast ==
    \A g \in Layouts : \A t \in DOMAIN g :
        LET ms == ResolveEgressMembers(g[t])
        IN /\ ms \in Seq(Tunnels \cup {WAN, BLOCK})
           /\ \A i, j \in DOMAIN ms : ms[i] \in {WAN, BLOCK} /\ ms[j] \in Tunnels => j < i

Routes == Tunnels \cup {WAN, BLOCK, NoRoute}

FailTypeOK ==
    /\ groups \in Layouts
    /\ tunnel \in [Tunnels -> {"gone", "dead", "stale", "live"}]
    /\ moved \subseteq Tunnels /\ adv \subseteq Tunnels
    /\ table \in [DOMAIN groups -> Routes]
    /\ st \in [DOMAIN groups -> 0 .. Hysteresis] /\ alldown \in [DOMAIN groups -> 0 .. Hysteresis]
    /\ run \in [pc : {"off", "elect", "install"}, t : Nat, pick : Routes]
    /\ run.pc # "off" => run.t \in DOMAIN groups
    /\ kills \in Nat

(* The cron and the hook put a table on its own tunnels only. *)
OnMember == \A t \in Tables : table[t] \in Tunnels => table[t] \in TunnelsOf(t)

(* What the cron is about to install: never instead of a tunnel with        *)
(* traffic, be it there now or put there by the hook meanwhile.            *)
Picking ==
    run.pc = "install" =>
        /\ run.pick \in Range(Members(run.t)) /\ run.pick \in Tunnels \cup {WAN, BLOCK}
        /\ table[run.t] \in adv => run.pick = table[run.t]
        /\ Seed(run.t) \in adv => run.pick = Seed(run.t)
        /\ run.pick \in {WAN, BLOCK} /\ kills = 0 => alldown[run.t] >= Hysteresis

(* The counter in /tmp counts runs that heard nothing, until it is reset.  *)
Counting ==
    kills = 0 => \A t \in Tables :
        st[t] <= alldown[t] \/ (run.pc = "install" /\ run.t = t /\ run.pick \in Tunnels)

FailInv == FailTypeOK /\ OnMember /\ Picking /\ Counting

(* A set of numbers has a least one. *)
LEMMA Least ==
    ASSUME NEW T, T \subseteq Nat, T # {}
    PROVE  \E x \in T : \A y \in T : x <= y
<1>. DEFINE R == OpToRel(<, Nat)
<1>1. IsWellFoundedOn(R, Nat)
  BY NatLessThanWellFounded
<1>2. \A x, y \in Nat : y < x => <<y, x>> \in R
  BY Zenon DEF OpToRel
<1>. HIDE DEF R
<1>3. PICK x \in T : \A y \in T : ~(<<y, x>> \in R)
  BY <1>1, WFMin
<1>4. \A y \in T : ~(y < x)
  BY <1>2, <1>3
<1>. QED
  BY <1>4

LEMMA FirstInOK ==
    ASSUME NEW V, NEW ms \in Seq(V), NEW S
    PROVE  /\ (\A i \in DOMAIN ms : ms[i] \notin S) => FirstIn(ms, S) = NoRoute
           /\ (\E i \in DOMAIN ms : ms[i] \in S) =>
                 \E k \in DOMAIN ms : /\ FirstIn(ms, S) = ms[k] /\ ms[k] \in S
                                     /\ \A j \in DOMAIN ms : ms[j] \in S => k <= j
<1>. DEFINE here == {i \in DOMAIN ms : ms[i] \in S}
<1>1. ASSUME here # {}
      PROVE  Min(here) \in here /\ \A j \in here : Min(here) <= j
  <2>1. here \subseteq Nat
    OBVIOUS
  <2>. HIDE DEF here
  <2>2. \E x \in here : \A y \in here : x <= y
    BY <1>1, <2>1, Least
  <2>. QED
    BY <2>2, Zenon DEF Min
<1>2. CASE here = {}
  BY <1>2 DEF FirstIn
<1>3. CASE here # {}
  <2>1. FirstIn(ms, S) = ms[Min(here)]
    BY <1>3 DEF FirstIn
  <2>. QED
    BY <1>1, <1>3, <2>1
<1>. QED
  BY <1>2, <1>3

(* Where the loop over the members stops, when the terminals come last. *)
LEMMA ElectedOK ==
    ASSUME TerminalsLast, groups \in Layouts, NEW t \in DOMAIN groups, NEW A \in SUBSET Tunnels
    PROVE  /\ Elected(t, A) = NoRoute \/ (Elected(t, A) \in Range(Members(t)) /\ Elected(t, A) \in A \cup {WAN, BLOCK})
           /\ Elected(t, A) \notin Tunnels => TunnelsOf(t) \cap A = {}
           /\ Seed(t) = NoRoute \/ Seed(t) \in TunnelsOf(t)
           /\ Seed(t) \in A => Elected(t, A) = Seed(t)
<1>. DEFINE ms == Members(t)
            V == Tunnels \cup {WAN, BLOCK}
            B == A \cup {WAN, BLOCK}
<1>1. ms \in Seq(V) /\ \A i, j \in DOMAIN ms : ms[i] \in {WAN, BLOCK} /\ ms[j] \in Tunnels => j < i
  BY DEF TerminalsLast, Members
<1>2. Range(ms) = {ms[i] : i \in DOMAIN ms} /\ TunnelsOf(t) = Range(ms) \cap Tunnels
  BY DEF Range, TunnelsOf
<1>3. {NoRoute, WAN, BLOCK} \cap Tunnels = {} /\ NoRoute \notin {WAN, BLOCK}
  BY ListFailoverAssumption
<1>4. Elected(t, A) = FirstIn(ms, B) /\ Seed(t) = FirstIn(ms, Tunnels)
  BY DEF Elected, Seed
<1>. HIDE DEF ms, B
<1>5. \/ (\A i \in DOMAIN ms : ms[i] \notin B) /\ FirstIn(ms, B) = NoRoute
      \/ \E k \in DOMAIN ms : FirstIn(ms, B) = ms[k] /\ ms[k] \in B /\ \A j \in DOMAIN ms : ms[j] \in B => k <= j
  BY <1>1, FirstInOK
<1>6. \/ (\A i \in DOMAIN ms : ms[i] \notin Tunnels) /\ FirstIn(ms, Tunnels) = NoRoute
      \/ \E k \in DOMAIN ms : /\ FirstIn(ms, Tunnels) = ms[k] /\ ms[k] \in Tunnels
                              /\ \A j \in DOMAIN ms : ms[j] \in Tunnels => k <= j
  BY <1>1, FirstInOK
<1>7. Elected(t, A) = NoRoute \/ (Elected(t, A) \in Range(ms) /\ Elected(t, A) \in B)
  BY <1>2, <1>4, <1>5
<1>8. Seed(t) = NoRoute \/ Seed(t) \in TunnelsOf(t)
  BY <1>2, <1>4, <1>6
<1>9. DOMAIN ms \subseteq Nat
  BY <1>1
<1>10. ASSUME Elected(t, A) \notin Tunnels, NEW x \in TunnelsOf(t) \cap A
       PROVE  FALSE
  <2>1. PICK i \in DOMAIN ms : ms[i] = x
    BY <1>2
  <2>2. ms[i] \in B /\ ms[i] \in Tunnels
    BY <1>2, <1>10, <2>1 DEF B
  <2>3. PICK k \in DOMAIN ms : Elected(t, A) = ms[k] /\ ms[k] \in B /\ k <= i
    BY <1>4, <1>5, <2>2
  <2>4. ms[k] \in {WAN, BLOCK}
    BY <1>10, <2>3 DEF B
  <2>. QED
    BY <1>1, <1>9, <2>2, <2>3, <2>4
<1>11. ASSUME Seed(t) \in A
       PROVE  Elected(t, A) = Seed(t)
  <2>1. PICK i \in DOMAIN ms : Seed(t) = ms[i] /\ ms[i] \in Tunnels /\ \A j \in DOMAIN ms : ms[j] \in Tunnels => i <= j
    BY <1>3, <1>4, <1>6, <1>11
  <2>2. ms[i] \in B
    BY <1>11, <2>1 DEF B
  <2>3. PICK k \in DOMAIN ms : Elected(t, A) = ms[k] /\ ms[k] \in B /\ k <= i
    BY <1>4, <1>5, <2>2
  <2>4. ms[k] \in Tunnels
    BY <1>1, <1>9, <2>1, <2>3 DEF B
  <2>5. k = i
    BY <1>9, <2>1, <2>3, <2>4
  <2>. QED
    BY <2>1, <2>3, <2>5
<1>. QED
  BY <1>7, <1>8, <1>10, <1>11 DEF ms, B

(* The layout does not change under a running cron. *)
LEMMA SameLayout ==
    ASSUME groups' = groups
    PROVE  /\ Tables' = Tables
           /\ \A t : Members(t)' = Members(t) /\ TunnelsOf(t)' = TunnelsOf(t) /\ Seed(t)' = Seed(t)
  BY DEF Tables, Members, TunnelsOf, Seed

LEMMA AnsweringOK ==
    ASSUME FailTypeOK, NEW A \in Answering
    PROVE  A \subseteq Tunnels /\ adv \subseteq A
  BY DEF FailTypeOK, Answering

LEMMA LayoutOK ==
    ASSUME FailTypeOK
    PROVE  DOMAIN groups = 1 .. Len(groups) /\ Len(groups) \in Nat /\ Len(groups) > 0
<1>1. groups \in Seq(Range(groups)) /\ groups # <<>>
  BY ListFailoverAssumption DEF FailTypeOK
<1>. QED
  BY <1>1

(* On to the next table, or done. *)
LEMMA NextTableOK ==
    ASSUME FailTypeOK, NEW t \in DOMAIN groups, NextTable(t)
    PROVE  /\ run' \in [pc : {"off", "elect", "install"}, t : Nat, pick : Routes]
           /\ run'.pc # "off" => run'.t \in DOMAIN groups
           /\ run'.pc # "install" /\ adv' \subseteq Tunnels
<1>1. CASE t = Len(groups)
  BY <1>1 DEF NextTable, NoRun, FailTypeOK, Routes
<1>2. CASE t # Len(groups)
  <2>1. t + 1 \in DOMAIN groups /\ t + 1 \in Nat
    BY <1>2, LayoutOK
  <2>. QED
    BY <1>2, <2>1 DEF NextTable, FailTypeOK, Routes
<1>. QED
  BY <1>1, <1>2

LEMMA FailInitInv == FailInit => FailInv
<1>. SUFFICES ASSUME FailInit
     PROVE  FailInv
  OBVIOUS
<1>1. {NoRoute, WAN, BLOCK} \cap Tunnels = {}
  BY ListFailoverAssumption
<1>2. FailTypeOK
  BY DEF FailInit, FailTypeOK, NoRun, Routes, Hysteresis
<1>. QED
  BY <1>1, <1>2 DEF FailInit, FailInv, OnMember, Picking, Counting, NoRun, Tables

(* set_table up to its "ip route replace": what it decides ... *)
LEMMA ElectDecides ==
    ASSUME TerminalsLast, FailInv, Elect
    PROVE  LET t == run.t IN
           /\ t \in DOMAIN groups
           /\ \A x \in DOMAIN groups : x # t => st'[x] = st[x] /\ alldown'[x] = alldown[x]
           /\ st' \in [DOMAIN groups -> 0 .. Hysteresis] /\ alldown' \in [DOMAIN groups -> 0 .. Hysteresis]
           /\ \/ NextTable(t) /\ (kills = 0 => st'[t] <= alldown'[t])
              \/ \E m \in Tunnels \cup {WAN, BLOCK} :
                   /\ run' = [run EXCEPT !.pc = "install", !.pick = m] /\ adv' = adv
                   /\ m \in Range(Members(t)) /\ table[t] \notin adv
                   /\ Seed(t) \in adv => m = Seed(t)
                   /\ m \in {WAN, BLOCK} => alldown'[t] >= st'[t] \/ kills # 0
                   /\ m \in {WAN, BLOCK} => st'[t] >= Hysteresis
<1>. DEFINE t == run.t
<1>1. t \in DOMAIN groups
  BY DEF FailInv, FailTypeOK, Elect
<1>2. PICK first, again \in Answering :
         LET m == Elected(t, again)
             n == Capped(st[t] + 1)
             heard == TunnelsOf(t) \cap again # {} \/ Keeps(t, first)
         IN /\ alldown' = [alldown EXCEPT ![t] = IF heard THEN 0 ELSE Capped(@ + 1)]
            /\ IF Keeps(t, first) \/ (m = table[t] /\ m \in Tunnels)
               THEN st' = [st EXCEPT ![t] = 0] /\ NextTable(t)
               ELSE IF m \in {WAN, BLOCK}
               THEN /\ st' = [st EXCEPT ![t] = n]
                    /\ IF n >= Hysteresis /\ ~(m = WAN /\ table[t] = WAN)
                       THEN run' = [run EXCEPT !.pc = "install", !.pick = m] /\ UNCHANGED <<lock, adv>>
                       ELSE NextTable(t)
               ELSE IF m = NoRoute
               THEN NextTable(t) /\ UNCHANGED st
               ELSE run' = [run EXCEPT !.pc = "install", !.pick = m] /\ UNCHANGED <<lock, adv, st>>
  BY DEF Elect
<1>. DEFINE m == Elected(t, again)
            n == Capped(st[t] + 1)
            d == Capped(alldown[t] + 1)
            heard == TunnelsOf(t) \cap again # {} \/ Keeps(t, first)
<1>3. /\ st \in [DOMAIN groups -> 0 .. Hysteresis] /\ alldown \in [DOMAIN groups -> 0 .. Hysteresis]
      /\ st[t] \in 0 .. Hysteresis /\ alldown[t] \in 0 .. Hysteresis /\ Hysteresis = 3
      /\ n \in 0 .. Hysteresis /\ d \in 0 .. Hysteresis /\ n >= 0 /\ d >= 0
      /\ st[t] <= alldown[t] => n <= d /\ st[t] <= d
  BY <1>1 DEF FailInv, FailTypeOK, Capped, Hysteresis
<1>4. kills = 0 => st[t] <= alldown[t]
  BY <1>1 DEF FailInv, Counting, Elect, Tables
<1>5. first \subseteq Tunnels /\ adv \subseteq first /\ again \subseteq Tunnels /\ adv \subseteq again
  BY AnsweringOK DEF FailInv
<1>6. /\ m = NoRoute \/ (m \in Range(Members(t)) /\ m \in again \cup {WAN, BLOCK})
      /\ m \notin Tunnels => TunnelsOf(t) \cap again = {}
      /\ Seed(t) \in again => m = Seed(t)
  BY <1>1, <1>5, ElectedOK DEF FailInv, FailTypeOK
<1>7. {NoRoute, WAN, BLOCK} \cap Tunnels = {} /\ NoRoute \notin {WAN, BLOCK}
  BY ListFailoverAssumption
<1>8. ~Keeps(t, first) => table[t] \notin adv
  BY <1>1, <1>5 DEF FailInv, FailTypeOK, OnMember, Keeps, Tables
<1>9. alldown' = [alldown EXCEPT ![t] = IF heard THEN 0 ELSE d]
  BY <1>2
<1>. HIDE DEF m, n, d, heard
<1>10. /\ alldown' \in [DOMAIN groups -> 0 .. Hysteresis] /\ alldown'[t] = (IF heard THEN 0 ELSE d)
       /\ \A x \in DOMAIN groups : x # t => alldown'[x] = alldown[x]
  BY <1>1, <1>3, <1>9
<1>11. CASE Keeps(t, first) \/ (m = table[t] /\ m \in Tunnels)
  <2>1. st' = [st EXCEPT ![t] = 0] /\ NextTable(t)
    BY <1>2, <1>11 DEF m
  <2>2. st' \in [DOMAIN groups -> 0 .. Hysteresis] /\ st'[t] = 0 /\ \A x \in DOMAIN groups : x # t => st'[x] = st[x]
    BY <1>1, <1>3, <2>1
  <2>3. st'[t] <= alldown'[t]
    BY <1>1, <1>3, <1>10, <2>2
  <2>. QED
    BY <1>1, <1>10, <2>1, <2>2, <2>3
<1>12. CASE ~(Keeps(t, first) \/ (m = table[t] /\ m \in Tunnels)) /\ m \in {WAN, BLOCK}
  <2>1. ~heard
    BY <1>6, <1>7, <1>12 DEF heard
  <2>2. st' = [st EXCEPT ![t] = n]
    BY <1>2, <1>12 DEF m, n
  <2>3. st' \in [DOMAIN groups -> 0 .. Hysteresis] /\ st'[t] = n /\ \A x \in DOMAIN groups : x # t => st'[x] = st[x]
    BY <1>1, <1>3, <2>2
  <2>4. kills = 0 => st'[t] <= alldown'[t]
    BY <1>3, <1>4, <1>10, <2>1, <2>3
  <2>5. CASE n >= Hysteresis /\ ~(m = WAN /\ table[t] = WAN)
    <3>1. run' = [run EXCEPT !.pc = "install", !.pick = m] /\ adv' = adv
      BY <1>2, <1>12, <2>5 DEF m, n
    <3>2. m \in Range(Members(t)) /\ table[t] \notin adv /\ (Seed(t) \in adv => m = Seed(t))
      BY <1>5, <1>6, <1>7, <1>8, <1>12
    <3>3. alldown'[t] >= st'[t] \/ kills # 0
      BY <1>3, <1>10, <2>1, <2>3, <2>4
    <3>. QED
      BY <1>1, <1>10, <1>12, <2>3, <2>5, <3>1, <3>2, <3>3
  <2>6. CASE ~(n >= Hysteresis /\ ~(m = WAN /\ table[t] = WAN))
    <3>1. NextTable(t)
      BY <1>2, <1>12, <2>6 DEF m, n
    <3>. QED
      BY <1>1, <1>10, <2>3, <2>4, <3>1
  <2>. QED
    BY <2>5, <2>6
<1>13. CASE ~(Keeps(t, first) \/ (m = table[t] /\ m \in Tunnels)) /\ m = NoRoute
  <2>1. NextTable(t) /\ st' = st
    BY <1>2, <1>7, <1>13 DEF m
  <2>2. ~heard
    BY <1>6, <1>7, <1>13 DEF heard
  <2>. QED
    BY <1>1, <1>3, <1>4, <1>10, <2>1, <2>2
<1>14. CASE ~(Keeps(t, first) \/ (m = table[t] /\ m \in Tunnels)) /\ m \notin {WAN, BLOCK} /\ m # NoRoute
  <2>1. run' = [run EXCEPT !.pc = "install", !.pick = m] /\ adv' = adv /\ st' = st
    BY <1>2, <1>14 DEF m
  <2>2. m \in Tunnels /\ m \in Range(Members(t)) /\ table[t] \notin adv /\ (Seed(t) \in adv => m = Seed(t))
    BY <1>5, <1>6, <1>8, <1>14
  <2>. QED
    BY <1>1, <1>3, <1>10, <1>14, <2>1, <2>2
<1>. QED
  BY <1>11, <1>12, <1>13, <1>14

(* ... and what that keeps. *)
LEMMA ElectStep ==
    ASSUME TerminalsLast, FailInv, Elect
    PROVE  FailInv'
<1>. DEFINE t == run.t
<1>1. /\ t \in DOMAIN groups
      /\ \A x \in DOMAIN groups : x # t => st'[x] = st[x] /\ alldown'[x] = alldown[x]
      /\ st' \in [DOMAIN groups -> 0 .. Hysteresis] /\ alldown' \in [DOMAIN groups -> 0 .. Hysteresis]
  BY ElectDecides
<1>2. groups' = groups /\ tunnel' = tunnel /\ moved' = moved /\ table' = table /\ kills' = kills
  BY DEF Elect, world
<1>3. /\ Tables' = Tables
      /\ \A x : Members(x)' = Members(x) /\ TunnelsOf(x)' = TunnelsOf(x) /\ Seed(x)' = Seed(x)
  BY <1>2, SameLayout
<1>4. OnMember'
  BY <1>2, <1>3 DEF FailInv, OnMember
<1>5. kills = 0 => \A x \in DOMAIN groups : x # t => st[x] <= alldown[x]
  BY DEF FailInv, Counting, Elect, Tables
<1>6. /\ groups' \in Layouts /\ tunnel' \in [Tunnels -> {"gone", "dead", "stale", "live"}] /\ moved' \subseteq Tunnels
      /\ table' \in [DOMAIN groups' -> Routes] /\ kills' \in Nat
  BY <1>2 DEF FailInv, FailTypeOK
<1>7. CASE NextTable(t) /\ (kills = 0 => st'[t] <= alldown'[t])
  <2>1. /\ run' \in [pc : {"off", "elect", "install"}, t : Nat, pick : Routes]
        /\ run'.pc # "off" => run'.t \in DOMAIN groups
        /\ run'.pc # "install" /\ adv' \subseteq Tunnels
    BY <1>1, <1>7, NextTableOK DEF FailInv
  <2>2. FailTypeOK'
    BY <1>1, <1>2, <1>6, <2>1 DEF FailTypeOK
  <2>3. Picking'
    BY <2>1 DEF Picking
  <2>4. \A x \in DOMAIN groups : kills = 0 => st'[x] <= alldown'[x]
    BY <1>1, <1>5, <1>7
  <2>5. Counting'
    BY <1>2, <2>4 DEF Counting, Tables
  <2>. QED
    BY <1>4, <2>2, <2>3, <2>5 DEF FailInv
<1>8. ASSUME NEW m \in Tunnels \cup {WAN, BLOCK},
             run' = [run EXCEPT !.pc = "install", !.pick = m], adv' = adv,
             m \in Range(Members(t)), table[t] \notin adv, Seed(t) \in adv => m = Seed(t),
             m \in {WAN, BLOCK} => alldown'[t] >= st'[t] \/ kills # 0,
             m \in {WAN, BLOCK} => st'[t] >= Hysteresis
      PROVE  FailInv'
  <2>1. run' \in [pc : {"off", "elect", "install"}, t : Nat, pick : Routes] /\ run'.pc = "install" /\ run'.t = t /\ run'.pick = m
    BY <1>8 DEF FailInv, FailTypeOK, Routes
  <2>2. FailTypeOK'
    <3>1. adv' \subseteq Tunnels
      BY <1>8 DEF FailInv, FailTypeOK
    <3>. QED
      BY <1>1, <1>2, <1>6, <2>1, <3>1 DEF FailTypeOK
  <2>3. m \in {WAN, BLOCK} /\ kills = 0 => alldown'[t] >= Hysteresis
    BY <1>1, <1>8 DEF Hysteresis
  <2>4. Picking'
    BY <1>2, <1>3, <1>8, <2>1, <2>3 DEF Picking
  <2>5. m \in {WAN, BLOCK} /\ kills = 0 => st'[t] <= alldown'[t]
    BY <1>1, <1>8 DEF Hysteresis
  <2>6. \A x \in DOMAIN groups : kills = 0 => st'[x] <= alldown'[x] \/ (x = t /\ m \in Tunnels)
    BY <1>1, <1>5, <1>8, <2>5
  <2>7. Counting'
    BY <1>2, <2>1, <2>6 DEF Counting, Tables
  <2>. QED
    BY <1>4, <2>2, <2>4, <2>7 DEF FailInv
<1>. QED
  BY <1>7, <1>8, ElectDecides

(* "ip route replace" *)
LEMMA InstallStep ==
    ASSUME FailInv, Install
    PROVE  FailInv'
<1>. DEFINE t == run.t
<1>1. t \in DOMAIN groups /\ run.pick \in Routes /\ run.pc = "install"
  BY DEF FailInv, FailTypeOK, Install
<1>2. groups' = groups /\ tunnel' = tunnel /\ moved' = moved /\ kills' = kills /\ alldown' = alldown /\ NextTable(t)
  BY DEF Install, world
<1>3. /\ Tables' = Tables
      /\ \A x : Members(x)' = Members(x) /\ TunnelsOf(x)' = TunnelsOf(x) /\ Seed(x)' = Seed(x)
  BY <1>2, SameLayout
<1>4. /\ run' \in [pc : {"off", "elect", "install"}, t : Nat, pick : Routes]
      /\ run'.pc # "off" => run'.t \in DOMAIN groups
      /\ run'.pc # "install" /\ adv' \subseteq Tunnels
  BY <1>1, <1>2, NextTableOK DEF FailInv
<1>5. /\ table' \in [DOMAIN groups -> Routes]
      /\ \A x \in DOMAIN groups : table'[x] = table[x] \/ (x = t /\ table'[x] = run.pick)
  BY <1>1 DEF Install, FailInv, FailTypeOK
<1>6. /\ st' \in [DOMAIN groups -> 0 .. Hysteresis]
      /\ \A x \in DOMAIN groups : st'[x] = st[x] \/ (x = t /\ st'[x] = 0)
      /\ run.pick \in Tunnels => st'[t] = 0
  BY <1>1 DEF Install, FailInv, FailTypeOK, Hysteresis
<1>7. FailTypeOK'
  BY <1>2, <1>4, <1>5, <1>6 DEF FailInv, FailTypeOK
<1>8. OnMember'
  <2>1. run.pick \in Tunnels => run.pick \in TunnelsOf(t)
    BY <1>1 DEF FailInv, Picking, TunnelsOf
  <2>. QED
    BY <1>2, <1>3, <1>5, <2>1 DEF FailInv, OnMember, Tables
<1>9. Picking'
  BY <1>4 DEF Picking
<1>10. ASSUME kills = 0, NEW x \in DOMAIN groups
       PROVE  st'[x] <= alldown[x]
  <2>1. alldown[x] \in 0 .. Hysteresis /\ Hysteresis = 3
    BY DEF FailInv, FailTypeOK, Hysteresis
  <2>2. CASE st'[x] = 0
    BY <2>1, <2>2
  <2>3. CASE st'[x] # 0
    <3>1. st'[x] = st[x] /\ ~(x = t /\ run.pick \in Tunnels)
      BY <1>6, <2>3
    <3>2. st[x] <= alldown[x] \/ (run.pc = "install" /\ run.t = x /\ run.pick \in Tunnels)
      BY <1>10 DEF FailInv, Counting, Tables
    <3>. QED
      BY <3>1, <3>2
  <2>. QED
    BY <2>2, <2>3
<1>11. Counting'
  BY <1>2, <1>10 DEF Counting, Tables
<1>. QED
  BY <1>7, <1>8, <1>9, <1>11 DEF FailInv

(* Steps that leave the counters and the run alone: a table keeps its       *)
(* route, loses it, or is seeded.                                          *)
LEMMA WorldStep ==
    ASSUME FailInv, TerminalsLast, UNCHANGED <<groups, script, kills>>,
           tunnel' \in [Tunnels -> {"gone", "dead", "stale", "live"}], moved' \subseteq Tunnels,
           table' \in [DOMAIN groups -> Routes],
           \A x \in DOMAIN groups : table'[x] \in {table[x], NoRoute, Seed(x)}
    PROVE  FailInv'
<1>1. groups' = groups /\ adv' = adv /\ st' = st /\ run' = run /\ alldown' = alldown /\ kills' = kills
  BY DEF script
<1>2. /\ Tables' = Tables
      /\ \A x : Members(x)' = Members(x) /\ TunnelsOf(x)' = TunnelsOf(x) /\ Seed(x)' = Seed(x)
  BY <1>1, SameLayout
<1>3. {NoRoute, WAN, BLOCK} \cap Tunnels = {}
  BY ListFailoverAssumption
<1>4. \A x \in DOMAIN groups : Seed(x) = NoRoute \/ Seed(x) \in TunnelsOf(x)
  <2>. TAKE x \in DOMAIN groups
  <2>. {} \in SUBSET Tunnels
    OBVIOUS
  <2>. QED
    BY ElectedOK DEF FailInv, FailTypeOK
<1>5. FailTypeOK'
  BY <1>1 DEF FailInv, FailTypeOK
<1>6. OnMember'
  BY <1>1, <1>2, <1>3, <1>4 DEF FailInv, OnMember, Tables
<1>7. Picking'
  <2>1. SUFFICES ASSUME run.pc = "install"
                 PROVE  Picking'
    BY <1>1 DEF Picking
  <2>2. run.t \in DOMAIN groups /\ adv \subseteq Tunnels
    BY <2>1 DEF FailInv, FailTypeOK
  <2>3. table'[run.t] \in adv => run.pick = table'[run.t]
    BY <1>3, <2>1, <2>2 DEF FailInv, Picking
  <2>. QED
    BY <1>1, <1>2, <2>1, <2>3 DEF FailInv, Picking
<1>8. Counting'
  BY <1>1 DEF FailInv, Counting, Tables
<1>. QED
  BY <1>5, <1>6, <1>7, <1>8 DEF FailInv

LEMMA FailStep == TerminalsLast /\ FailInv /\ [FailNext]_failVars => FailInv'
<1>. SUFFICES ASSUME TerminalsLast, FailInv, [FailNext]_failVars
     PROVE  FailInv'
  OBVIOUS
<1>0. /\ groups \in Layouts
      /\ tunnel \in [Tunnels -> {"gone", "dead", "stale", "live"}] /\ moved \subseteq Tunnels
      /\ table \in [DOMAIN groups -> Routes] /\ adv \subseteq Tunnels /\ NoRoute \in Routes
  BY DEF FailInv, FailTypeOK, Routes
<1>1. CASE CronTick
  <2>1. groups' = groups /\ tunnel' = tunnel /\ table' = table /\ st' = st /\ alldown' = alldown /\ kills' = kills
    BY <1>1 DEF CronTick
  <2>2. run' = [pc |-> "elect", t |-> 1, pick |-> NoRoute] /\ adv' = moved /\ moved' = {} /\ run.pc = "off"
    BY <1>1 DEF CronTick, NoRun
  <2>3. 1 \in DOMAIN groups
    BY LayoutOK DEF FailInv
  <2>4. FailTypeOK'
    BY <1>0, <2>1, <2>2, <2>3 DEF FailInv, FailTypeOK
  <2>. QED
    BY <2>1, <2>2, <2>4 DEF FailInv, OnMember, Picking, Counting, Tables, TunnelsOf, Members
<1>2. CASE Kill
  <2>1. groups' = groups /\ tunnel' = tunnel /\ moved' = moved /\ table' = table /\ st' = st /\ alldown' = alldown
    BY <1>2 DEF Kill, world
  <2>2. kills' = kills + 1 /\ run' = [pc |-> "off", t |-> 0, pick |-> NoRoute] /\ adv' = {}
    BY <1>2 DEF Kill, NoRun
  <2>3. FailTypeOK' /\ kills' # 0
    BY <1>0, <2>1, <2>2 DEF FailInv, FailTypeOK
  <2>. QED
    BY <2>1, <2>2, <2>3 DEF FailInv, OnMember, Picking, Counting, Tables, TunnelsOf, Members
<1>3. CASE Hook
  <2>1. table' \in [DOMAIN groups -> Routes] /\ \A x \in DOMAIN groups : table'[x] \in {table[x], Seed(x)}
    <3>1. table' = [x \in DOMAIN groups |-> Seeded(x)]
      BY <1>3 DEF Hook, Tables
    <3>2. ASSUME NEW x \in DOMAIN groups
          PROVE  Seeded(x) \in {table[x], Seed(x)} /\ Seed(x) \in Routes
      <4>. {} \in SUBSET Tunnels
        OBVIOUS
      <4>1. Seed(x) = NoRoute \/ Seed(x) \in TunnelsOf(x)
        BY <1>0, ElectedOK
      <4>. QED
        BY <4>1 DEF Seeded, TunnelsOf, Routes
    <3>. QED
      BY <1>0, <3>1, <3>2
  <2>. QED
    BY <1>0, <1>3, <2>1, WorldStep DEF Hook, world
<1>4. CASE Load
  BY <1>0, <1>4, WorldStep DEF Load
<1>5. ASSUME NEW i \in Used, Traffic(i) \/ Age(i)
      PROVE  FailInv'
  <2>1. i \in Tunnels
    BY DEF Used, TunnelsOf
  <2>. QED
    BY <1>0, <1>5, <2>1, WorldStep DEF Traffic, Age
<1>6. ASSUME NEW i \in Used, NEW to \in {"gone", "stale", "dead", "live"}, Change(i, to)
      PROVE  FailInv'
  <2>1. table' \in [DOMAIN groups -> Routes] /\ \A x \in DOMAIN groups : table'[x] \in {table[x], NoRoute}
    BY <1>0, <1>6 DEF Change, Tables
  <2>2. tunnel' \in [Tunnels -> {"gone", "dead", "stale", "live"}] /\ moved' \subseteq Tunnels
    BY <1>0, <1>6 DEF Change
  <2>. QED
    BY <1>6, <2>1, <2>2, WorldStep DEF Change
<1>7. CASE UNCHANGED failVars
  BY <1>0, <1>7, WorldStep DEF failVars, script
<1>. QED
  BY <1>1, <1>2, <1>3, <1>4, <1>5, <1>6, <1>7, ElectStep, InstallStep DEF FailNext, FailRun

(* A table leaves its tunnel reluctantly (LeavesReluctantly), for any       *)
(* groups whose terminal member comes after the tunnels, any number of      *)
(* tables and tunnels, and any order of probes, hooks, tunnel changes and   *)
(* killed runs.  With "direct" before a tunnel the loop takes the WAN over  *)
(* a tunnel that answers.                                                   *)
THEOREM FailoverIsReluctant ==
    ASSUME TerminalsLast
    PROVE  FailSpec => LeavesReluctantly
<1>1. ASSUME FailInv, FailNext, NEW t \in Tables,
             table[t] \in Tunnels, table'[t] # table[t], tunnel'[table[t]] # "gone"
      PROVE  /\ run.t = t /\ table[t] \notin adv
             /\ table'[t] \in {WAN, BLOCK} /\ kills = 0 => alldown[t] >= Hysteresis
  <2>1. NoRoute \notin Tunnels /\ t \in DOMAIN groups
    BY ListFailoverAssumption DEF Tables
  <2>2. ASSUME Hook PROVE FALSE
    BY <1>1, <2>1, <2>2 DEF Hook, Seeded
  <2>3. ASSUME NEW i \in Used, NEW to \in {"gone", "stale", "dead", "live"}, Change(i, to)
        PROVE  FALSE
    <3>1. table' = [x \in Tables |-> IF table[x] = i THEN NoRoute ELSE table[x]] /\ to = "gone"
      BY <1>1, <2>3 DEF Change
    <3>2. table[t] = i
      BY <1>1, <3>1
    <3>. QED
      BY <1>1, <2>3, <3>1, <3>2 DEF Change, FailInv, FailTypeOK
  <2>4. Install
    BY <1>1, <2>2, <2>3 DEF FailNext, FailRun, CronTick, Elect, Kill, Load, Traffic, Age
  <2>5. t = run.t /\ table'[t] = run.pick
    BY <1>1, <2>1, <2>4 DEF Install, FailInv, FailTypeOK
  <2>. QED
    BY <1>1, <2>4, <2>5 DEF Install, FailInv, Picking
<1>2. FailInv /\ [FailNext]_failVars =>
        [\A t \in Tables : table[t] \in Tunnels /\ table'[t] # table[t] /\ tunnel'[table[t]] # "gone" =>
            /\ run.t = t /\ table[t] \notin adv
            /\ table'[t] \in {WAN, BLOCK} /\ kills = 0 => alldown[t] >= Hysteresis]_failVars
  BY <1>1
<1>3. FailSpec => []FailInv
  BY FailInitInv, FailStep, PTL DEF FailSpec
<1>. QED
  BY <1>2, <1>3, PTL DEF FailSpec, LeavesReluctantly
-----------------------------------------------------------------------------
(* Subscription: an importer's batch is a body the provider served, and     *)
(* what is left of it are links.                                           *)
Batch == [pc : {"idle", "fetch", "choose", "filter", "add"}, batch : Offers \cup {<<>>}, left : SUBSET Nat]

SubTypeOK ==
    /\ eps \in [EpIds -> Links \cup {NoLink}]
    /\ offer \in Offers
    /\ imp \in [Importers -> Batch]
    /\ \A w \in Importers : imp[w].left \subseteq ParseSubscription(imp[w].batch)
    /\ muddled \in BOOLEAN

(* What is still to be written: content that is nowhere, or is already      *)
(* where it would be written, and no content twice.                        *)
Fresh(e, q) ==
    q.pc = "add" =>
        /\ \A i \in q.left : q.batch[i] \notin KeysOf(e) \/ e[uniqueID(q.batch, i)] = q.batch[i]
        /\ \A i, j \in q.left : i # j => q.batch[i] # q.batch[j]

Alone == \A v, w \in Importers : Active(v) /\ Active(w) => v = w

SubInv == SubTypeOK /\ (~muddled => NoDuplicates /\ Alone /\ \A w \in Importers : Fresh(eps, imp[w]))

LEMMA BatchOK ==
    ASSUME NEW b \in Offers \cup {<<>>}
    PROVE  /\ ParseSubscription(b) \subseteq Nat
           /\ \A i \in ParseSubscription(b) : b \in Offers /\ b[i] \in Links /\ uniqueID(b, i) \in EpIds
<1>1. b \in Seq(Links \cup {Junk})
  <2>1. Offers \subseteq Seq(Links \cup {Junk})
    BY SubAssumption
  <2>2. << >> \in Seq(Links \cup {Junk})
    OBVIOUS
  <2>. QED
    BY <2>1, <2>2
<1>2. ParseSubscription(b) \subseteq Nat
  BY <1>1 DEF ParseSubscription
<1>3. ASSUME NEW i \in ParseSubscription(b)
      PROVE  b \in Offers /\ b[i] \in Links /\ uniqueID(b, i) \in EpIds
  <2>1. i \in DOMAIN b /\ b[i] # Junk
    BY DEF ParseSubscription
  <2>2. b # <<>>
    BY <2>1
  <2>. QED
    BY <1>1, <2>1, <2>2, SubAssumption
<1>. QED
  BY <1>2, <1>3

(* "so each parsed endpoint in a batch keeps a distinct ID" (uniqueID) *)
LEMMA UniqueIDs ==
    ASSUME NEW b \in Offers, NEW i \in ParseSubscription(b), NEW j \in ParseSubscription(b), i # j
    PROVE  uniqueID(b, i) # uniqueID(b, j)
<1>1. ASSUME NEW k \in ParseSubscription(b), NEW l \in ParseSubscription(b), k < l
      PROVE  uniqueID(b, k) # uniqueID(b, l)
  <2>. DEFINE A == {x \in 1 .. k : b[x] # Junk /\ b[x].base = b[k].base}
              B == {x \in 1 .. l : b[x] # Junk /\ b[x].base = b[l].base}
  <2>1. k \in Nat /\ l \in Nat /\ l \in 1 .. l /\ b[l] # Junk
    BY SubAssumption DEF ParseSubscription
  <2>2. SUFFICES ASSUME b[k].base = b[l].base
                 PROVE  Cardinality(A) # Cardinality(B)
    BY DEF uniqueID
  <2>3. A \subseteq B /\ l \in B /\ l \notin A /\ B \subseteq 1 .. l
    BY <1>1, <2>1, <2>2
  <2>4. IsFiniteSet(1 .. l)
    BY <2>1, FS_Interval
  <2>. HIDE DEF A, B
  <2>5. IsFiniteSet(B)
    BY <2>3, <2>4, FS_Subset
  <2>6. Cardinality(B) = Cardinality(A) => B = A
    BY <2>3, <2>5, FS_Subset
  <2>. QED
    BY <2>3, <2>6
<1>2. i \in Nat /\ j \in Nat
  BY BatchOK
<1>. QED
  BY <1>1, <1>2

LEMMA KeysOfWrite ==
    ASSUME NEW e \in [EpIds -> Links \cup {NoLink}], NEW x \in EpIds, NEW l \in Links
    PROVE  KeysOf([e EXCEPT ![x] = l]) \subseteq KeysOf(e) \cup {l}
  BY DEF KeysOf, ContentKey

LEMMA InKeys ==
    ASSUME NEW e \in [EpIds -> Links \cup {NoLink}], NEW x \in EpIds, e[x] # NoLink
    PROVE  e[x] \in KeysOf(e)
  BY DEF KeysOf, ContentKey

LEMMA SubInitInv == SubInit => SubInv
<1>. SUFFICES ASSUME SubInit
     PROVE  SubInv
  OBVIOUS
<1>1. SubTypeOK
  BY DEF SubInit, SubTypeOK, NoImport, Batch
<1>. QED
  BY <1>1 DEF SubInit, SubInv, NoDuplicates, Alone, Active, Fresh, NoImport

(* The profile stays, and only importer w moves, not into or within its    *)
(* loop over the batch: a begun import is alone or seen not to be.          *)
LEMMA MoveKeeps ==
    ASSUME SubInv, NEW w \in Importers, NEW q \in Batch, q.left \subseteq ParseSubscription(q.batch),
           imp' = [imp EXCEPT ![w] = q], eps' = eps, offer' \in Offers, muddled' \in BOOLEAN,
           muddled => muddled',
           q.pc = "add" => q.left = {},
           q.pc \in {"fetch", "filter", "add"} => Active(w) \/ muddled' \/ \A v \in Importers \ {w} : ~Active(v)
    PROVE  SubInv'
<1>1. imp \in [Importers -> Batch] /\ eps \in [EpIds -> Links \cup {NoLink}]
  BY DEF SubInv, SubTypeOK
<1>2. imp' \in [Importers -> Batch] /\ imp'[w] = q /\ \A v \in Importers : v # w => imp'[v] = imp[v]
  BY <1>1
<1>3. SubTypeOK'
  BY <1>1, <1>2 DEF SubInv, SubTypeOK, ParseSubscription
<1>4. ASSUME ~muddled'
      PROVE  NoDuplicates' /\ Alone' /\ \A v \in Importers : Fresh(eps', imp'[v])
  <2>1. NoDuplicates /\ Alone /\ \A v \in Importers : Fresh(eps, imp[v])
    BY <1>4 DEF SubInv
  <2>2. NoDuplicates'
    BY <1>4, <2>1 DEF NoDuplicates, ContentKey, SubInv
  <2>3. Alone'
    BY <1>2, <1>4, <2>1 DEF Alone, Active
  <2>4. ASSUME NEW v \in Importers
        PROVE  Fresh(eps', imp'[v])
    <3>1. CASE v = w
      BY <1>2, <3>1 DEF Fresh
    <3>2. CASE v # w
      BY <1>2, <2>1, <3>2
    <3>. QED
      BY <3>1, <3>2
  <2>. QED
    BY <2>2, <2>3, <2>4
<1>. QED
  BY <1>3, <1>4 DEF SubInv

(* The profile is read, and what will be written decided. *)
LEMMA FilterStep ==
    ASSUME SubInv, NEW w \in Importers, Filter(w)
    PROVE  SubInv'
<1>. DEFINE q == imp[w]
            L == IF w = "bulk" THEN DedupeNew(eps, q.batch, q.left) ELSE Unseen(eps, q.batch, q.left)
            r == [pc |-> "add", batch |-> q.batch, left |-> L]
<1>1. /\ imp \in [Importers -> Batch] /\ eps \in [EpIds -> Links \cup {NoLink}] /\ q \in Batch
      /\ q.left \subseteq ParseSubscription(q.batch) /\ q.batch \in Offers \cup {<<>>} /\ q.left \in SUBSET Nat
  BY DEF SubInv, SubTypeOK, Batch
<1>2. imp' = [imp EXCEPT ![w] = r] /\ eps' = eps /\ offer' = offer /\ muddled' = muddled /\ q.pc = "filter"
  BY DEF Filter
<1>3. L \subseteq q.left
  BY DEF DedupeNew, Unseen
<1>4. r \in Batch /\ r.pc = "add" /\ r.batch = q.batch /\ r.left = L
  BY <1>1, <1>3 DEF Batch
<1>5. ASSUME ~muddled
      PROVE  Fresh(eps, r)
  <2>1. \A i \in q.left : q.batch \in Offers /\ q.batch[i] \in Links /\ q.batch[i] # NoLink /\ uniqueID(q.batch, i) \in EpIds
    BY <1>1, BatchOK, SubAssumption
  <2>2. ASSUME NEW i \in L
        PROVE  \/ q.batch[i] \notin KeysOf(eps) /\ FirstOfItsKey(q.batch, q.left, i)
               \/ eps[uniqueID(q.batch, i)] = q.batch[i]
    BY DEF DedupeNew, Unseen, ContentKey
  <2>3. ASSUME NEW i \in L, NEW j \in L, i # j
        PROVE  q.batch[i] # q.batch[j]
    <3>0. SUFFICES ASSUME q.batch[i] = q.batch[j]
                   PROVE  FALSE
      OBVIOUS
    <3>1. i \in Nat /\ j \in Nat /\ i \in q.left /\ j \in q.left
      BY <1>1, <1>3
    <3>2. CASE q.batch[i] \in KeysOf(eps)
      <4>1. eps[uniqueID(q.batch, i)] = q.batch[i] /\ eps[uniqueID(q.batch, j)] = q.batch[j]
        BY <2>2, <3>0, <3>2
      <4>2. uniqueID(q.batch, i) # uniqueID(q.batch, j)
        BY <1>1, <2>1, <2>3, <3>1, UniqueIDs
      <4>. QED
        BY <1>5, <2>1, <3>0, <3>1, <4>1, <4>2 DEF SubInv, NoDuplicates, ContentKey
    <3>3. CASE q.batch[i] \notin KeysOf(eps)
      <4>1. ASSUME NEW k \in L, q.batch[k] = q.batch[i]
            PROVE  FirstOfItsKey(q.batch, q.left, k)
        <5>1. q.batch[k] \notin KeysOf(eps) /\ k \in q.left
          BY <1>3, <3>3, <4>1
        <5>2. eps[uniqueID(q.batch, k)] # q.batch[k]
          BY <1>1, <2>1, <5>1, InKeys
        <5>. QED
          BY <2>2, <5>1, <5>2
      <4>2. FirstOfItsKey(q.batch, q.left, i) /\ FirstOfItsKey(q.batch, q.left, j)
        BY <3>0, <4>1
      <4>. QED
        BY <2>3, <3>0, <3>1, <4>2 DEF FirstOfItsKey, ContentKey
    <3>. QED
      BY <3>2, <3>3
  <2>. HIDE DEF L
  <2>. QED
    BY <1>4, <2>2, <2>3 DEF Fresh
<1>. HIDE DEF r, L
<1>6. imp' \in [Importers -> Batch] /\ imp'[w] = r /\ \A v \in Importers : v # w => imp'[v] = imp[v]
  BY <1>1, <1>2, <1>4
<1>7. SubTypeOK'
  <2>1. \A v \in Importers : imp'[v].left \subseteq ParseSubscription(imp'[v].batch)
    BY <1>1, <1>3, <1>4, <1>6 DEF SubInv, SubTypeOK
  <2>. QED
    BY <1>1, <1>2, <1>6, <2>1 DEF SubInv, SubTypeOK
<1>8. ASSUME ~muddled'
      PROVE  NoDuplicates' /\ Alone' /\ \A v \in Importers : Fresh(eps', imp'[v])
  <2>1. NoDuplicates /\ Alone /\ \A v \in Importers : Fresh(eps, imp[v])
    BY <1>2, <1>8 DEF SubInv
  <2>2. NoDuplicates'
    BY <1>2, <1>8, <2>1 DEF NoDuplicates, ContentKey
  <2>3. Alone'
    BY <1>2, <1>6, <2>1 DEF Alone, Active
  <2>4. \A v \in Importers : Fresh(eps', imp'[v])
    BY <1>2, <1>5, <1>6, <1>8, <2>1
  <2>. QED
    BY <2>2, <2>3, <2>4
<1>. QED
  BY <1>7, <1>8 DEF SubInv

(* One UpsertEndpoint. *)
LEMMA AddOneStep ==
    ASSUME SubInv, NEW w \in Importers, AddOne(w)
    PROVE  SubInv'
<1>. DEFINE q == imp[w]
            i == Min(q.left)
            id == uniqueID(q.batch, i)
            l == q.batch[i]
            r == [q EXCEPT !.left = q.left \ {i}]
<1>1. /\ imp \in [Importers -> Batch] /\ eps \in [EpIds -> Links \cup {NoLink}] /\ q \in Batch
      /\ q.left \subseteq ParseSubscription(q.batch) /\ q.batch \in Offers \cup {<<>>} /\ q.left \in SUBSET Nat
      /\ q.pc = "add" /\ q.left # {}
  BY DEF SubInv, SubTypeOK, Batch, AddOne
<1>2. /\ imp' = [imp EXCEPT ![w] = r] /\ offer' = offer /\ muddled' = muddled
      /\ eps' = eps \/ eps' = [eps EXCEPT ![id] = l]
  BY DEF AddOne
<1>3. i \in q.left
  <2>1. \E x \in q.left : \A y \in q.left : x <= y
    BY <1>1, Least
  <2>. QED
    BY <2>1, Zenon DEF Min
<1>. HIDE DEF i
<1>4. r \in Batch /\ r.pc = "add" /\ r.batch = q.batch /\ r.left = q.left \ {i}
  BY <1>1 DEF Batch
<1>. HIDE DEF r
<1>5. \A j \in q.left : q.batch \in Offers /\ q.batch[j] \in Links /\ q.batch[j] # NoLink /\ uniqueID(q.batch, j) \in EpIds
  BY <1>1, BatchOK, SubAssumption
<1>6. q.batch \in Offers /\ l \in Links /\ l # NoLink /\ id \in EpIds
  BY <1>3, <1>5
<1>7. eps' \in [EpIds -> Links \cup {NoLink}]
  BY <1>1, <1>2, <1>6
<1>8. imp' \in [Importers -> Batch] /\ imp'[w] = r /\ \A v \in Importers : v # w => imp'[v] = imp[v]
  BY <1>1, <1>2, <1>4
<1>9. SubTypeOK'
  <2>1. \A v \in Importers : imp'[v].left \subseteq ParseSubscription(imp'[v].batch)
    BY <1>1, <1>4, <1>8 DEF SubInv, SubTypeOK
  <2>. QED
    BY <1>2, <1>7, <1>8, <2>1 DEF SubInv, SubTypeOK
<1>10. ASSUME ~muddled'
       PROVE  NoDuplicates' /\ Alone' /\ \A v \in Importers : Fresh(eps', imp'[v])
  <2>1. NoDuplicates /\ Alone /\ Fresh(eps, q)
    BY <1>2, <1>10 DEF SubInv
  <2>2. /\ l \notin KeysOf(eps) \/ eps[id] = l
        /\ \A j \in q.left : q.batch[j] \notin KeysOf(eps) \/ eps[uniqueID(q.batch, j)] = q.batch[j]
        /\ \A j \in q.left : j # i => q.batch[j] # l
    BY <1>1, <1>3, <2>1 DEF Fresh
  <2>3. eps[id] = l => eps' = eps
    BY <1>1, <1>2, <1>6
  <2>4. \A x \in EpIds : eps'[x] = eps[x] \/ (x = id /\ eps'[x] = l)
    BY <1>1, <1>2, <1>6
  <2>. HIDE DEF id, l
  <2>5. NoDuplicates'
    <3>1. SUFFICES ASSUME NEW x \in EpIds, NEW y \in EpIds, eps'[x] # NoLink, eps'[y] # NoLink, x # y
                   PROVE  eps'[x] # eps'[y]
      BY DEF NoDuplicates, ContentKey
    <3>2. CASE eps' = eps
      BY <1>2, <1>10, <2>1, <3>1, <3>2 DEF NoDuplicates, ContentKey
    <3>3. CASE l \notin KeysOf(eps)
      <4>1. \A z \in EpIds : eps[z] # NoLink => eps[z] # l
        BY <1>1, <3>3, InKeys
      <4>2. eps[x] # NoLink /\ eps[y] # NoLink => eps[x] # eps[y]
        BY <1>2, <1>10, <2>1, <3>1 DEF NoDuplicates, ContentKey
      <4>. QED
        BY <2>4, <3>1, <4>1, <4>2
    <3>. QED
      BY <2>2, <2>3, <3>2, <3>3
  <2>6. Alone'
    BY <1>1, <1>4, <1>8, <2>1 DEF Alone, Active
  <2>7. Fresh(eps', r)
    <3>1. ASSUME NEW j \in r.left
          PROVE  q.batch[j] \notin KeysOf(eps') \/ eps'[uniqueID(q.batch, j)] = q.batch[j]
      <4>1. j \in q.left /\ j # i /\ q.batch[j] # l
        BY <1>4, <2>2, <3>1
      <4>2. CASE eps' = eps
        BY <2>2, <4>1, <4>2
      <4>3. CASE eps' = [eps EXCEPT ![id] = l]
        <5>1. KeysOf(eps') \subseteq KeysOf(eps) \cup {l}
          BY <1>1, <1>6, <4>3, KeysOfWrite
        <5>2. uniqueID(q.batch, j) # id /\ uniqueID(q.batch, j) \in EpIds
          BY <1>1, <1>3, <1>5, <1>6, <4>1, UniqueIDs DEF id
        <5>. QED
          BY <2>2, <2>4, <4>1, <5>1, <5>2
      <4>. QED
        BY <1>2, <4>2, <4>3
    <3>2. \A j, k \in r.left : j # k => q.batch[j] # q.batch[k]
      BY <1>1, <1>4, <2>1 DEF Fresh
    <3>. QED
      BY <1>4, <3>1, <3>2 DEF Fresh
  <2>8. ASSUME NEW v \in Importers
        PROVE  Fresh(eps', imp'[v])
    <3>1. CASE v = w
      BY <1>8, <2>7, <3>1
    <3>2. CASE v # w
      <4>1. ~Active(v)
        BY <1>1, <2>1, <3>2 DEF Alone, Active
      <4>. QED
        BY <1>8, <3>2, <4>1 DEF Fresh, Active
    <3>. QED
      BY <3>1, <3>2
  <2>. QED
    BY <2>5, <2>6, <2>8
<1>. QED
  BY <1>9, <1>10 DEF SubInv

(* Steps that touch neither profile nor importers. *)
LEMMA QuietStep ==
    ASSUME SubInv, UNCHANGED <<eps, imp>>, muddled' = muddled, offer' \in Offers
    PROVE  SubInv'
<1>1. SubTypeOK'
  BY DEF SubInv, SubTypeOK, ParseSubscription
<1>2. ~muddled' => NoDuplicates' /\ Alone' /\ \A v \in Importers : Fresh(eps', imp'[v])
  BY DEF SubInv, NoDuplicates, ContentKey, Alone, Active
<1>. QED
  BY <1>1, <1>2 DEF SubInv

LEMMA SubStep == SubInv /\ [SubNext]_subVars => SubInv'
<1>. SUFFICES ASSUME SubInv, [SubNext]_subVars
     PROVE  SubInv'
  OBVIOUS
<1>0. /\ imp \in [Importers -> Batch] /\ eps \in [EpIds -> Links \cup {NoLink}] /\ offer \in Offers
      /\ muddled \in BOOLEAN /\ \A w \in Importers : imp[w].left \subseteq ParseSubscription(imp[w].batch)
  BY DEF SubInv, SubTypeOK
<1>1. "loop" \in Importers /\ "now" \in Importers /\ "bulk" \in Importers
  BY DEF Importers
<1>2. ParseSubscription(offer) \subseteq Nat
  BY <1>0, BatchOK
<1>3. ASSUME NEW w \in Importers, NEW pc \in {"fetch", "filter"}, NEW b \in Offers \cup {<<>>}, NEW S \in SUBSET Nat,
             S \subseteq ParseSubscription(b), BeginImport(w, pc, b, S), eps' = eps, offer' = offer
      PROVE  SubInv'
  <2>. DEFINE q == [pc |-> pc, batch |-> b, left |-> S]
  <2>1. q \in Batch /\ q.pc = pc /\ q.batch = b /\ q.left = S
    BY DEF Batch
  <2>2. imp' = [imp EXCEPT ![w] = q]
    BY <1>3 DEF BeginImport
  <2>3. /\ muddled' \in BOOLEAN /\ (muddled => muddled')
        /\ muddled' \/ \A v \in Importers \ {w} : ~Active(v)
    BY <1>3, Zenon DEF BeginImport
  <2>. HIDE DEF q
  <2>. QED
    BY <1>0, <1>3, <2>1, <2>2, <2>3, MoveKeeps
<1>4. ASSUME NEW w \in Importers, NEW q \in Batch, q.left \subseteq ParseSubscription(q.batch),
             imp' = [imp EXCEPT ![w] = q], eps' = eps, offer' = offer, muddled' = muddled,
             q.pc = "filter" => Active(w), q.pc \in {"idle", "choose", "filter"}
      PROVE  SubInv'
  <2>1. /\ offer' \in Offers /\ muddled' \in BOOLEAN /\ (muddled => muddled') /\ (q.pc = "add" => q.left = {})
        /\ q.pc \in {"fetch", "filter", "add"} => Active(w)
    BY <1>0, <1>4
  <2>. QED
    BY <1>4, <2>1, MoveKeeps
<1>5. NoImport \in Batch /\ NoImport.pc = "idle" /\ NoImport.left = {}
  BY DEF NoImport, Batch
<1>6. ASSUME NEW pc \in {"filter", "choose"}
      PROVE  LET q == [pc |-> pc, batch |-> offer, left |-> ParseSubscription(offer)]
             IN q \in Batch /\ q.left \subseteq ParseSubscription(q.batch) /\ q.pc = pc
  BY <1>0, <1>2 DEF Batch
<1>7. {} \in SUBSET Nat /\ {} \subseteq ParseSubscription(<<>>)
  OBVIOUS
<1>8. CASE LoopTick
  <2>1. CASE hours > 0 /\ urlSet /\ Due
    BY <1>1, <1>3, <1>7, <1>8, <2>1 DEF LoopTick
  <2>2. CASE ~(hours > 0 /\ urlSet /\ Due)
    BY <1>0, <1>8, <2>2, QuietStep DEF LoopTick
  <2>. QED
    BY <2>1, <2>2
<1>9. CASE RefreshNow
  BY <1>1, <1>3, <1>7, <1>9 DEF RefreshNow
<1>10. CASE Preview
  <2>. DEFINE q == [pc |-> "choose", batch |-> offer, left |-> ParseSubscription(offer)]
  <2>1. imp' = [imp EXCEPT !["bulk"] = q] /\ eps' = eps /\ offer' = offer /\ muddled' = muddled
    BY <1>10 DEF Preview
  <2>2. q \in Batch /\ q.left \subseteq ParseSubscription(q.batch) /\ q.pc = "choose"
    BY <1>6
  <2>. HIDE DEF q
  <2>. QED
    BY <1>1, <1>4, <2>1, <2>2
<1>11. ASSUME NEW w \in Importers, RefreshFetch(w)
       PROVE  SubInv'
  <2>. DEFINE q == [pc |-> "filter", batch |-> offer, left |-> ParseSubscription(offer)]
  <2>1. eps' = eps /\ offer' = offer /\ muddled' = muddled /\ Active(w)
        /\ (imp' = [imp EXCEPT ![w] = q] \/ imp' = [imp EXCEPT ![w] = NoImport])
    BY <1>11 DEF RefreshFetch, Active
  <2>2. q \in Batch /\ q.left \subseteq ParseSubscription(q.batch) /\ q.pc = "filter"
    BY <1>6
  <2>. HIDE DEF q
  <2>3. CASE imp' = [imp EXCEPT ![w] = q]
    BY <1>4, <2>1, <2>2, <2>3
  <2>4. CASE imp' = [imp EXCEPT ![w] = NoImport]
    BY <1>4, <1>5, <2>1, <2>4
  <2>. QED
    BY <2>1, <2>3, <2>4
<1>12. ASSUME NEW w \in Importers, ImportDone(w)
       PROVE  SubInv'
  BY <1>4, <1>5, <1>12 DEF ImportDone
<1>13. ASSUME NEW S \in SUBSET imp["bulk"].left, Choose(S)
       PROVE  SubInv'
  <2>1. /\ imp["bulk"].batch \in Offers \cup {<<>>} /\ S \subseteq ParseSubscription(imp["bulk"].batch) /\ S \in SUBSET Nat
    BY <1>0, <1>1, <1>13 DEF Batch
  <2>2. BeginImport("bulk", "filter", imp["bulk"].batch, S) /\ eps' = eps /\ offer' = offer
    BY <1>13 DEF Choose
  <2>. QED
    BY <1>1, <1>3, <2>1, <2>2
<1>14. ASSUME NEW x \in EpIds, NEW l \in Links \cup {NoLink}, EditEndpoint(x, l)
       PROVE  SubInv'
  <2>1. muddled' = TRUE /\ imp' = imp /\ offer' = offer /\ eps' \in [EpIds -> Links \cup {NoLink}]
    BY <1>0, <1>14 DEF EditEndpoint
  <2>. QED
    BY <1>0, <2>1 DEF SubInv, SubTypeOK, ParseSubscription
<1>15. ASSUME NEW h \in HourSettings, SetHours(h)
       PROVE  SubInv'
  BY <1>0, <1>15, QuietStep DEF SetHours
<1>16. ASSUME NEW o \in Offers, Rotate(o)
       PROVE  SubInv'
  BY <1>16, QuietStep DEF Rotate
<1>17. CASE UNCHANGED subVars
  BY <1>0, <1>17, QuietStep DEF subVars
<1>. QED
  BY <1>8, <1>9, <1>10, <1>11, <1>12, <1>13, <1>14, <1>15, <1>16, <1>17, FilterStep, AddOneStep
     DEF SubNext, ImporterStep

(* No content is stored twice (NoDuplicates), for any offers, ids and       *)
(* number of refreshes, rotations and failed writes, unless the user        *)
(* edits by hand or two imports overlap.                                    *)
THEOREM ImportsDoNotPileUp == SubSpec => []NoDuplicates
<1>1. SubInv => NoDuplicates
  BY DEF SubInv, NoDuplicates
<1>. QED
  BY <1>1, SubInitInv, SubStep, PTL DEF SubSpec
=============================================================================
