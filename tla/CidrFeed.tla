------------------------------ MODULE CidrFeed ------------------------------
(***************************************************************************)
(* Refreshing the CIDR caches of routing lists (server/cidrrefresh.go,      *)
(* cidrfeed/cidrfeed.go, and the store's rules for the cache), while the    *)
(* user edits the lists.  POST /api/routing/refresh is the only caller.     *)
(*                                                                          *)
(* A source is a sequence of origins: one URL, or the ASNs of an "asn:"     *)
(* source.  An origin serves a set of lines; an entry is [from, ver], a     *)
(* CIDR of that origin, and Noise is a line that is not an address.         *)
(***************************************************************************)
EXTENDS Naturals, Sequences, Functions, FiniteSets

CONSTANTS
    Lists, NoList, Origins, Noise,
    Unreachable,                        \* an origin that does not answer with 200
    Sources,                     \* sequences of origins
    Requests,                    \* concurrent refresh requests
    MaxListEdits, MaxFeedMoves   \* bounds

NoSource == <<>>
Entries == [from : Origins, ver : 0 .. MaxFeedMoves]

ASSUME CidrAssumption ==
    /\ Noise \notin Entries /\ NoList \notin Lists
    /\ Sources \subseteq Seq(Origins)
    /\ {MaxListEdits, MaxFeedMoves} \subseteq Nat

VARIABLES
    list,        \* routing list: source, cache, enabled; or gone
    body,        \* what each origin answers: lines, or no 200
    req,         \* requests in progress
    edits, moves,
    raced, thin  \* history: the list changed under a refresh; origins that
                 \* once answered without a single address

cidrVars == <<list, body, req, edits, moves, raced, thin>>

Gone == [there |-> FALSE, source |-> NoSource, cache |-> {}, enabled |-> FALSE]
Resting == [todo |-> {}, cur |-> Gone, at |-> NoSource, got |-> {}, id |-> NoList]

Body(o, v) == {[from |-> o, ver |-> v], Noise}

CidrInit ==
    /\ list = [l \in Lists |-> Gone]
    /\ body = [o \in Origins |-> Body(o, 0)]
    /\ req = [r \in Requests |-> Resting]
    /\ edits = 0 /\ moves = 0
    /\ raced = [l \in Lists |-> FALSE] /\ thin = {}
-----------------------------------------------------------------------------
(* refreshAll reads the profile once; only enabled lists with a source. *)
Wanted == {<<l, list[l]>> : l \in {k \in Lists : list[k].enabled /\ list[k].source # NoSource}}

StartRefresh(r) ==
    /\ req[r] = Resting /\ Wanted # {}
    /\ req' = [req EXCEPT ![r].todo = Wanted]
    /\ UNCHANGED <<list, body, edits, moves, raced, thin>>

(* refreshOne begins on the next list of the snapshot. *)
StartList(r) ==
    /\ req[r].id = NoList
    /\ \E p \in req[r].todo :
         req' = [req EXCEPT ![r] = [todo |-> @.todo \ {p}, cur |-> p[2], at |-> p[2].source,
                                    got |-> {}, id |-> p[1]]]
    /\ UNCHANGED <<list, body, edits, moves, raced, thin>>

(* ParseList, ParseRIPEstat: the lines that are addresses. *)
Parse(b) == b \ {Noise}

NextList(q) == [q EXCEPT !.cur = Gone, !.at = NoSource, !.got = {}, !.id = NoList]

(* One GET of Fetch or fetchASNs.  A failure gives up the whole source. *)
OnDown_Skip(q) == [q EXCEPT !.at = Tail(@)]
OnDown(q) == NextList(q)

Get(r) ==
    /\ req[r].id # NoList /\ req[r].at # NoSource
    /\ LET q == req[r]
           b == body[Head(q.at)]
       IN req' = [req EXCEPT ![r] = IF b = Unreachable THEN OnDown(q)
                                    ELSE [q EXCEPT !.at = Tail(q.at), !.got = q.got \cup Parse(b)]]
    /\ UNCHANGED <<list, body, edits, moves, raced, thin>>

(* The end of refreshOne: nothing valid keeps the last good cache; the same *)
(* as the snapshot is not written; else SetRoutingListCache, which fails    *)
(* when the list is gone.                                                   *)
Worth(q) == q.got # {} /\ q.got # q.cur.cache

Store(r) ==
    /\ req[r].id # NoList /\ req[r].at = NoSource
    /\ LET q == req[r] IN
       list' = IF Worth(q) /\ list[q.id].there
               THEN [list EXCEPT ![q.id].cache = q.got] ELSE list
    /\ req' = [req EXCEPT ![r] = NextList(@)]
    /\ UNCHANGED <<body, edits, moves, raced, thin>>
-----------------------------------------------------------------------------
Refreshing(l) == \E r \in Requests : req[r].id = l \/ \E p \in req[r].todo : p[1] = l
Edited(l) == /\ edits < MaxListEdits /\ edits' = edits + 1
             /\ raced' = [raced EXCEPT ![l] = @ \/ Refreshing(l)]

(* UpsertRoutingList.  The cache the request carries is what the UI read,   *)
(* or nothing.                                                              *)
KeptCache(old, src, c) ==
    CASE src # old.source -> {}
      [] src = old.source /\ c = {} -> old.cache
      [] OTHER -> c

UpsertRoutingList(l, src, on, c) ==
    /\ Edited(l)
    /\ c \in {{}, list[l].cache}
    /\ list' = [list EXCEPT ![l] =
          [there |-> TRUE, source |-> src, enabled |-> on,
           cache |-> IF list[l].there THEN KeptCache(list[l], src, c) ELSE c]]
    /\ UNCHANGED <<body, req, moves, thin>>

DeleteRoutingList(l) ==
    /\ list[l].there
    /\ Edited(l)
    /\ list' = [list EXCEPT ![l] = Gone]
    /\ UNCHANGED <<body, req, moves, thin>>

(* The network: an origin changes, goes down, or answers without addresses. *)
FeedMoves(o) ==
    /\ moves < MaxFeedMoves /\ moves' = moves + 1
    /\ \E b \in {Unreachable, {Noise}, Body(o, moves + 1)} :
         /\ body' = [body EXCEPT ![o] = b]
         /\ thin' = IF b = {Noise} THEN thin \cup {o} ELSE thin
    /\ UNCHANGED <<list, req, edits, raced>>

CidrNext ==
    \/ \E r \in Requests : StartRefresh(r) \/ StartList(r) \/ Get(r) \/ Store(r)
    \/ \E l \in Lists, src \in Sources, on \in BOOLEAN, c \in {{}} \cup {list[k].cache : k \in Lists} :
         UpsertRoutingList(l, src, on, c)
    \/ \E l \in Lists : DeleteRoutingList(l)
    \/ \E o \in Origins : FeedMoves(o)

CidrSpec == CidrInit /\ [][CidrNext]_cidrVars
-----------------------------------------------------------------------------
(* "Keep the system-managed CIDRCache consistent with CIDRSource" (store.go)*)
(* and "keeps its last-good set for ALL ASNs rather than shrinking a        *)
(* carve-out to a partial result" (cidrfeed.go): a cache comes from the     *)
(* list's own source and covers every origin of it, unless the user changed *)
(* the list while it was being refreshed (the late answer is then stored    *)
(* under the new source) or an origin answered with no address at all.      *)
CacheIsWhole ==
    \A l \in Lists : list[l].cache # {} /\ ~raced[l] =>
        /\ {e.from : e \in list[l].cache} \subseteq Range(list[l].source)
        /\ Range(list[l].source) \subseteq {e.from : e \in list[l].cache} \cup thin
=============================================================================
