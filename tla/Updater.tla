------------------------------ MODULE Updater -------------------------------
(***************************************************************************)
(* internal/updater and the handlers of server/updater.go: engine installs  *)
(* and the update of the daemon itself, by a request or by AutoUpdateLoop.  *)
(* No lock keeps two of them apart, and each target has one staging path.   *)
(*                                                                          *)
(* A path names an inode, and an open file keeps its inode through a rename.*)
(* What an inode holds is "part" while it is written, then                  *)
(*   [ver, bytes]  bytes: "right", "alien" (published, but does not run     *)
(*                 here) or "wrong" (not what the release published).       *)
(***************************************************************************)
EXTENDS Naturals, Sequences, SequencesExt, FiniteSets, FiniteSetsExt

CONSTANTS
    Updaters,         \* requests; AutoUpdateLoop is one of them
    AutoLoop,
    Releases,         \* [ver, digest, assets]; ver 0 is what is installed first
    Arch,             \* of this router
    Mirrors,          \* how many
    Nodes,            \* inodes
    NoNode,
    Overlap,          \* may two updates of one target run at once?  Nothing in
                      \* the code prevents it; FALSE asks what holds without it
    MaxUpdates, MaxUpdCrashes

ASSUME UpdAssumption ==
    /\ AutoLoop \in Updaters /\ Mirrors \in Nat \ {0}
    /\ NoNode \notin Nodes /\ \E n, m \in Nodes : n # m

Self == "velinx"
Core == "sing-box"
Targets == {Self, Core}

VARIABLES
    cur, new, bak,    \* target -> inode at its path, its staging path, its backup path
    held,             \* inode -> content
    upd,              \* updater -> its local state
    run,              \* version the daemon process runs
    updates, updCrashes

updVars == <<cur, new, bak, held, upd, run, updates, updCrashes>>

Whole(v, b) == [ver |-> v, bytes |-> b]
Part == Whole(0, "part")
Idle == [pc |-> "idle", target |-> Self, rel |-> 0, asset |-> "none", mirror |-> 0, fd |-> NoNode,
         saved |-> Part]
Rel(v) == CHOOSE r \in Releases : r.ver = v
-----------------------------------------------------------------------------
(* An asset is [has, arch, plain]: the name tokens it contains (lower case),*)
(* the machine it is really for, and whether it is a binary at all.         *)
archTokens(a) ==
    CASE a = "amd64" -> {"amd64", "x86_64", "linux-64"}
      [] a = "arm64" -> {"arm64", "aarch64"}
      [] a = "arm" -> {"armv7", "arm32", "armhf", "armv6", "armv5", "arm"}
      [] a = "mipsle" -> {"mipsle", "mips32le", "mipsel"}
      [] a = "mips" -> {"mips"}

Collides_None(a) == {}
Collides(a) ==
    CASE a = "arm" -> {"arm64", "aarch64"}
      [] a = "mips" -> {"mipsle", "mipsel", "mips32le", "mips64"}
      [] a = "amd64" -> {"arm", "mips"}
      [] OTHER -> {}

matchAsset(x, a) ==
    "linux" \in x.has /\ x.plain /\ x.has \cap Collides(a) = {} /\ x.has \cap archTokens(a) # {}

assetScore(x, a) ==
    CASE a # "arm" -> 1
      [] a = "arm" /\ x.has \cap {"armv7", "armhf", "arm32"} # {} -> 3
      [] a = "arm" /\ x.has \cap {"armv7", "armhf", "arm32"} = {} /\ "armv6" \in x.has -> 1
      [] a = "arm" /\ x.has \cap {"armv7", "armhf", "arm32", "armv6"} = {} /\ "armv5" \in x.has -> 0
      [] OTHER -> 2

(* pickAsset: the first of the best.  selfAsset: a name that ends in the    *)
(* architecture.                                                            *)
pickAsset(xs, a) ==
    LET ms == SelectSeq(xs, LAMBDA x : matchAsset(x, a))
        best == SelectSeq(ms, LAMBDA x : \A y \in Range(ms) : assetScore(y, a) <= assetScore(x, a))
    IN IF ms = <<>> THEN "none" ELSE IF Head(best).arch = a THEN "own" ELSE "foreign"

selfAsset(r) == r.selfAsset
AssetFor(t, r) == IF t = Self THEN selfAsset(r) ELSE pickAsset(r.assets, Arch)

(* Newer, for versions as numbers; SelfLatest is the first release listed   *)
(* with a tarball for this machine, pre-releases included.                  *)
Newer(c, l) == l > c
-----------------------------------------------------------------------------
Place1 == CHOOSE n \in Nodes : TRUE
Place2 == CHOOSE n \in Nodes : n # Place1
UpdInit ==
    /\ cur = [t \in Targets |-> IF t = Self THEN Place1 ELSE Place2]
    /\ new = [t \in Targets |-> NoNode] /\ bak = [t \in Targets |-> NoNode]
    /\ held = [n \in Nodes |-> Whole(0, "right")]
    /\ upd = [u \in Updaters |-> Idle]
    /\ run = 0 /\ updates = 0 /\ updCrashes = 0

Free == Nodes \ (Range(cur) \cup Range(new) \cup Range(bak) \cup {upd[u].fd : u \in Updaters})
Fresh(n) == Free # {} /\ n = CHOOSE f \in Free : TRUE

(* handleUpdaterInstall, handleSelfUpdate, a tick of AutoUpdateLoop: look   *)
(* the release up and pick the asset.  Lack of space, an unknown tag or a   *)
(* release without an asset end it here, with nothing changed.              *)
Start(u, t, r) ==
    /\ upd[u].pc = "idle" /\ updates < MaxUpdates
    /\ Overlap \/ \A w \in Updaters : upd[w].pc # "idle" => upd[w].target # t
    /\ u = AutoLoop => t = Self /\ Newer(run, r.ver)
    /\ AssetFor(t, r) # "none"
    /\ updates' = updates + 1
    /\ upd' = [upd EXCEPT ![u] = [Idle EXCEPT !.pc = "get", !.target = t, !.rel = r.ver,
                                              !.asset = AssetFor(t, r)]]
    /\ UNCHANGED <<cur, new, bak, held, run, updCrashes>>

(* streamAssetToFile: on any failure remove the staging path (whatever is   *)
(* there) and try the next mirror.                                          *)
NextMirror(u) ==
    /\ new' = [new EXCEPT ![upd[u].target] = NoNode]
    /\ upd' = [upd EXCEPT ![u] = IF upd[u].mirror + 1 < Mirrors
                                 THEN [@ EXCEPT !.pc = "get", !.mirror = upd[u].mirror + 1, !.fd = NoNode]
                                 ELSE Idle]

(* streamOne, up to the open with O_TRUNC; a dead mirror or an HTML page    *)
(* fails before the file is touched.                                        *)
Open(u) ==
    /\ upd[u].pc = "get"
    /\ \/ NextMirror(u) /\ UNCHANGED held
       \/ /\ new[upd[u].target] = NoNode
          /\ \E n \in Nodes : Fresh(n) /\ new' = [new EXCEPT ![upd[u].target] = n]
          /\ held' = [held EXCEPT ![new'[upd[u].target]] = Part]
          /\ upd' = [upd EXCEPT ![u].pc = "write", ![u].fd = new'[upd[u].target]]
       \/ /\ new[upd[u].target] # NoNode
          /\ held' = [held EXCEPT ![new[upd[u].target]] = Part]
          /\ upd' = [upd EXCEPT ![u].pc = "write", ![u].fd = new[upd[u].target]]
          /\ UNCHANGED new
    /\ UNCHANGED <<cur, bak, run, updates, updCrashes>>

(* ... the extraction, through the open file, and the digest over the       *)
(* compressed bytes; for an engine a release without one is taken on faith. *)
verifyDigestSum(u, b) ==
    IF Rel(upd[u].rel).digest THEN b # "wrong" ELSE upd[u].target # Self

Served(u) == IF upd[u].asset = "own" THEN {"right", "wrong"} ELSE {"alien", "wrong"}
Write(u) ==
    /\ upd[u].pc = "write"
    /\ \/ \E b \in Served(u) :
            /\ held' = [held EXCEPT ![upd[u].fd] = Whole(upd[u].rel, b)]
            /\ IF verifyDigestSum(u, b)
               THEN upd' = [upd EXCEPT ![u].pc = IF upd[u].target = Self THEN "check" ELSE "swap",
                                       ![u].fd = NoNode] /\ UNCHANGED new
               ELSE NextMirror(u)
       \/ NextMirror(u) /\ UNCHANGED held                     \* cut short
    /\ UNCHANGED <<cur, bak, run, updates, updCrashes>>

(* SelfUpdate: run whatever is at the staging path with -version; a file    *)
(* that is open for writing does not start.                                 *)
Starts(n) ==                                       \* wrong bytes may still run
    IF n = NoNode \/ held[n].bytes \in {"part", "alien"} \/ \E w \in Updaters : upd[w].fd = n THEN {FALSE}
    ELSE IF held[n].bytes = "right" THEN {TRUE} ELSE {TRUE, FALSE}
GiveUp(u) == new' = [new EXCEPT ![Self] = NoNode] /\ upd' = [upd EXCEPT ![u] = Idle]
Check(u) ==
    /\ upd[u].pc = "check"
    /\ \E ok \in Starts(new[Self]) :
          IF ok THEN upd' = [upd EXCEPT ![u].pc = "read"] /\ UNCHANGED new ELSE GiveUp(u)
    /\ UNCHANGED <<cur, bak, held, run, updates, updCrashes>>

(* The backup is mandatory: read the executable, truncate .bak, write it.   *)
Backup(u) ==
    /\ upd[u].pc = "read"
    /\ \/ GiveUp(u) /\ UNCHANGED <<bak, held>>
       \/ \E n \in Nodes :
            /\ IF bak[Self] = NoNode THEN Fresh(n) ELSE n = bak[Self]
            /\ bak' = [bak EXCEPT ![Self] = n]
            /\ held' = [held EXCEPT ![n] = Part]
            /\ upd' = [upd EXCEPT ![u].pc = "backup", ![u].fd = n, ![u].saved = held[cur[Self]]]
            /\ UNCHANGED new
    /\ UNCHANGED <<cur, run, updates, updCrashes>>
BackupEnd_Optional(u) ==
    /\ upd[u].pc = "backup"
    /\ upd' = [upd EXCEPT ![u].pc = "swap", ![u].fd = NoNode]
    /\ \/ held' = [held EXCEPT ![upd[u].fd] = upd[u].saved] /\ UNCHANGED bak
       \/ bak' = [bak EXCEPT ![Self] = NoNode] /\ UNCHANGED held
    /\ UNCHANGED <<cur, new, run, updates, updCrashes>>
BackupEnd(u) ==
    /\ upd[u].pc = "backup"
    /\ \/ /\ held' = [held EXCEPT ![upd[u].fd] = upd[u].saved]
          /\ upd' = [upd EXCEPT ![u].pc = "swap", ![u].fd = NoNode]
          /\ UNCHANGED <<bak, new>>
       \/ bak' = [bak EXCEPT ![Self] = NoNode] /\ GiveUp(u) /\ UNCHANGED held
    /\ UNCHANGED <<cur, run, updates, updCrashes>>

(* The rename.  After an engine install the core is reloaded (SingBox.tla); *)
(* after a self-update the service is restarted, if there is a way to.      *)
Swap(u) ==
    LET t == upd[u].target IN
    /\ upd[u].pc = "swap"
    /\ \/ /\ new[t] # NoNode
          /\ cur' = [cur EXCEPT ![t] = new[t]]
       \/ UNCHANGED cur
    /\ new' = [new EXCEPT ![t] = NoNode]
    /\ upd' = [upd EXCEPT ![u] = IF cur' # cur /\ t = Self THEN [Idle EXCEPT !.pc = "restart"] ELSE Idle]
    /\ UNCHANGED <<bak, held, run, updates, updCrashes>>

Reborn == run' = held[cur[Self]].ver /\ upd' = [u \in Updaters |-> Idle]
RestartAfter(u) ==
    /\ upd[u].pc = "restart"
    /\ \/ Reborn
       \/ u # AutoLoop /\ upd' = [upd EXCEPT ![u] = Idle] /\ UNCHANGED run
    /\ UNCHANGED <<cur, new, bak, held, updates, updCrashes>>

(* handleUpdaterUninstall, the core being stopped. *)
Uninstall ==
    /\ cur[Core] # NoNode /\ updates < MaxUpdates
    /\ updates' = updates + 1
    /\ cur' = [cur EXCEPT ![Core] = NoNode]
    /\ UNCHANGED <<new, bak, held, upd, run, updCrashes>>

Crash ==
    /\ updCrashes < MaxUpdCrashes /\ updCrashes' = updCrashes + 1
    /\ Reborn
    /\ UNCHANGED <<cur, new, bak, held, updates>>

UpdNext ==
    \/ \E u \in Updaters, t \in Targets, r \in Releases : Start(u, t, r)
    \/ \E u \in Updaters :
         Open(u) \/ Write(u) \/ Check(u) \/ Backup(u) \/ BackupEnd(u) \/ Swap(u) \/ RestartAfter(u)
    \/ Uninstall \/ Crash

UpdSpec == UpdInit /\ [][UpdNext]_updVars
-----------------------------------------------------------------------------
(* SelfUpdate: "a corrupt/wrong-arch download never replaces a working      *)
(* daemon", at no instant, so not after a power cut either.                 *)
ExeRuns == held[cur[Self]].bytes = "right"

(* "The .bak is the reboot-safe rollback, so it is MANDATORY": when the     *)
(* executable changes, its old bytes are whole in the backup.               *)
BackupFirst == [][cur'[Self] # cur[Self] => bak'[Self] # NoNode /\ held'[bak'[Self]] = held[cur[Self]]]_updVars

(* That, and an engine binary in place is whole, is for this machine, and   *)
(* is the one published, if the release says which bytes these are; an      *)
(* installed engine is never replaced by less.                              *)
InstalledRuns ==
    /\ ExeRuns
    /\ cur[Core] = NoNode \/ LET c == held[cur[Core]] IN
         c.bytes = "right" \/ (c.bytes = "wrong" /\ ~Rel(c.ver).digest)
=============================================================================
