------------------------------- MODULE Health -------------------------------
(***************************************************************************)
(* internal/health Monitor: a ticker probes every target, each in its own   *)
(* goroutine, and POST /api/health/test probes one of them at any time; all *)
(* of them record into the same statistics.  A result is taken at one time  *)
(* and recorded at a later one, in any order.  Latency and traffic rates    *)
(* are left out; groups, whose state Snapshot derives, too.                 *)
(***************************************************************************)
EXTENDS Naturals, Sequences, SequencesExt

CONSTANTS
    Endpoints,        \* of the profile
    healthWindow,     \* 30 in the code
    flapThreshold     \* 2 in the code

ASSUME HealthAssumption ==
    healthWindow \in Nat /\ flapThreshold \in 1 .. healthWindow

Probers == {"tick", "one"}
Nothing == "nothing"
Asked == "asked"

VARIABLES
    native,    \* endpoints probed through their interface, not by Clash
    on,        \* endpoints in the profile and enabled
    path,      \* endpoints whose server answers
    api,       \* the Clash API answers
    ticking,   \* a tick is running
    flight,    \* <<endpoint, prober>> -> Nothing, Asked or the result it holds
    stats,     \* endpoint -> stat
    lately     \* history: the last results recorded, oldest first

healthVars == <<native, on, path, api, ticking, flight, stats, lately>>

NoStat == [state |-> "unknown", consecFail |-> 0, recent |-> [i \in 0 .. healthWindow - 1 |-> Nothing],
           recentN |-> 0, recentPos |-> 0]

HealthInit ==
    /\ native \in SUBSET Endpoints /\ on \in SUBSET Endpoints /\ path = Endpoints /\ api = TRUE /\ ticking = FALSE
    /\ flight = [x \in Endpoints \X Probers |-> Nothing]
    /\ stats = [e \in Endpoints |-> NoStat]
    /\ lately = [e \in Endpoints |-> <<>>]

(* probe.  A native endpoint is pinged through its interface; what Clash    *)
(* says of a proxy is only believed when it is about the proxy.             *)
probe(e) ==
    IF e \in native THEN IF e \in path THEN "alive" ELSE "down"
    ELSE IF ~api THEN "unknown"
    ELSE IF e \in path THEN "alive" ELSE "down"

pushSample(s, r) ==
    [s EXCEPT !.recent[s.recentPos] = r, !.recentPos = (@ + 1) % healthWindow,
              !.recentN = IF @ < healthWindow THEN @ + 1 ELSE @]

(* The streak is capped where more makes no difference.                     *)
counted(s, r) ==
    CASE r = "alive" -> [pushSample(s, r) EXCEPT !.consecFail = 0]
      [] r = "down" -> [pushSample(s, r) EXCEPT !.consecFail = IF @ < flapThreshold THEN @ + 1 ELSE @]
      [] OTHER -> s

commit_Reset(s, r) ==
    IF r = "down" /\ s.consecFail < flapThreshold THEN [s EXCEPT !.consecFail = 0] ELSE [s EXCEPT !.state = r]
commit_AtOnce(s, r) == [s EXCEPT !.state = r]
commit(s, r) == IF r = "down" /\ s.consecFail < flapThreshold THEN s ELSE [s EXCEPT !.state = r]

record(e, r) ==
    /\ stats' = [stats EXCEPT ![e] = commit(counted(@, r), r)]
    /\ lately' = [lately EXCEPT ![e] =
                    IF r = "unknown" THEN @
                    ELSE IF Len(@) = healthWindow THEN Append(Tail(@), r) ELSE Append(@, r)]

(* tick: the targets are read once; the tick ends when every probe has.     *)
ProbeAll ==
    /\ ~ticking /\ ticking' = TRUE
    /\ flight' = [x \in DOMAIN flight |-> IF x[2] = "tick" /\ x[1] \in on THEN Asked ELSE flight[x]]
    /\ UNCHANGED <<native, on, path, api, stats, lately>>

ProbedAll ==
    /\ ticking /\ \A e \in Endpoints : flight[<<e, "tick">>] = Nothing
    /\ ticking' = FALSE
    /\ UNCHANGED <<native, on, path, api, flight, stats, lately>>

(* ProbeOne: an id that is no target is neither probed nor recorded.        *)
ProbeOne(e) ==
    /\ e \in on /\ flight[<<e, "one">>] = Nothing
    /\ flight' = [flight EXCEPT ![<<e, "one">>] = Asked]
    /\ UNCHANGED <<native, on, path, api, ticking, stats, lately>>

Answer(e, p) ==
    /\ flight[<<e, p>>] = Asked
    /\ flight' = [flight EXCEPT ![<<e, p>>] = probe(e)]
    /\ UNCHANGED <<native, on, path, api, ticking, stats, lately>>

Record(e, p) ==
    /\ flight[<<e, p>>] \notin {Nothing, Asked}
    /\ record(e, flight[<<e, p>>])
    /\ flight' = [flight EXCEPT ![<<e, p>>] = Nothing]
    /\ UNCHANGED <<native, on, path, api, ticking>>

(* The profile and the network change.                                      *)
Toggle(e) ==
    /\ on' = IF e \in on THEN on \ {e} ELSE on \cup {e}
    /\ UNCHANGED <<native, path, api, ticking, flight, stats, lately>>

Network ==
    /\ \/ api' = ~api /\ UNCHANGED path
       \/ \E e \in Endpoints : path' = (IF e \in path THEN path \ {e} ELSE path \cup {e}) /\ UNCHANGED api
    /\ UNCHANGED <<native, on, ticking, flight, stats, lately>>

TickStep == ProbeAll \/ ProbedAll \/ \E e \in Endpoints : Answer(e, "tick") \/ Record(e, "tick")
OneStep == \E e \in Endpoints : Answer(e, "one") \/ Record(e, "one")

HealthNext ==
    \/ TickStep \/ OneStep \/ Network
    \/ \E e \in Endpoints : ProbeOne(e) \/ Toggle(e)

HealthSpec == HealthInit /\ [][HealthNext]_healthVars
-----------------------------------------------------------------------------
(* What the dashboard shows is what the last probes said: the ring buffer   *)
(* holds exactly the last healthWindow results, in order, and an endpoint   *)
(* is shown down only after flapThreshold failures in a row.                *)
HealthHonest ==
    \A e \in Endpoints :
        LET s == stats[e]
            h == lately[e]
        IN /\ h = [i \in 1 .. s.recentN |-> s.recent[(s.recentPos + healthWindow - s.recentN + i - 1) % healthWindow]]
           /\ s.state = "down" => \A i \in 0 .. flapThreshold - 1 : i < Len(h) /\ h[Len(h) - i] = "down"

(* An endpoint that stays dead is shown down in the end, through the        *)
(* debouncing and whatever else is being probed.                            *)
Detects ==
    \A e \in Endpoints :
        <>[](e \in on \ path /\ (api \/ e \in native)) => <>[](stats[e].state = "down")
=============================================================================
