-------------------------------- MODULE Jobs --------------------------------
(***************************************************************************)
(* Server initialisation: internal/initserver, internal/serverstore and the *)
(* handlers of server/initserver.go.  A request starts a job in a goroutine *)
(* of its own; a job runs a shell script on the VPS over SSH, one SSH login *)
(* per script, and nothing keeps two jobs on the same VPS apart.  The VPS is*)
(* modelled as far as the scripts change it.  Demo mode and the validation  *)
(* of names and hosts are left out: every request here is well formed.      *)
(***************************************************************************)
EXTENDS Naturals, Sequences, SequencesExt, FiniteSets

CONSTANTS
    MaxJobs,          \* jobs started in a behaviour
    maxJobHistory,    \* jobs the manager keeps addressable (32 in the code)
    Orders,           \* protocol lists a provision request may carry
    CoreVersions,     \* sing-box releases; 1 is the one first installed, 0 is none
    Rejecting,        \* releases that refuse the configuration on the VPS
    MaxJobFaults,     \* SSH cuts, failed saves, failed commands
    MaxJobRestarts    \* restarts of the daemon

JobIds == 1 .. MaxJobs
Kernel == "wireguard"        \* wg-quick / awg-quick: no sing-box involved
Reality == "vless-reality"   \* sing-box, config.json
Trojan == "trojan"           \* sing-box, conf.d, as vmess, ss, hysteria2 and tuic
Protocols == {Kernel, Reality, Trojan}
NoKey == 0
Stranger == MaxJobs + 1      \* a key of the user that this VPS never had
NoServer == [saved |-> FALSE, installed |-> {}, hardened |-> FALSE]

ASSUME JobsAssumption ==
    /\ MaxJobs \in Nat /\ maxJobHistory \in Nat \ {0}
    /\ Orders \subseteq Seq(Protocols) \ {<<>>}
    /\ CoreVersions \subseteq Nat \ {0} /\ Rejecting \subseteq CoreVersions \ {1}

VARIABLES
    vps,       \* the remote machine: see BareVps
    srv,       \* the record in servers.json
    conns,     \* endpoints added to Connections: [label, proto, secret]
    job,       \* id -> its goroutine and its view
    order,     \* JobManager.order
    mine,      \* SSH private keys the user holds
    jobFaults, jobRestarts,
    spoiled    \* history: two jobs at once, or an update without its backup or
               \* cut before the restart

jobVars == <<vps, srv, conns, job, order, mine, jobFaults, jobRestarts, spoiled>>

(* ident: proto -> the credential on its disk, 0 for none; wrote: sing-box  *)
(* configurations on disk; unit: what the service unit loads; loaded: what  *)
(* the running service serves; file, live: password login as configured and *)
(* as sshd runs it; keys: authorized_keys.                                  *)
BareVps == [ident |-> [p \in Protocols |-> 0], made |-> 0, wrote |-> {}, unit |-> {}, loaded |-> {}, bin |-> 0, bak |-> 0,
          file |-> TRUE, live |-> TRUE, keys |-> {}]

NoJob == [kind |-> "none", pc |-> "none", arg |-> <<>>, auth |-> NoKey, out |-> <<>>, added |-> {}, read |-> NoServer,
          done |-> FALSE, ok |-> FALSE]

JobInit ==
    /\ vps = BareVps /\ srv = NoServer /\ conns = {} /\ order = <<>> /\ mine = {Stranger}
    /\ job = [j \in JobIds |-> NoJob]
    /\ jobFaults = 0 /\ jobRestarts = 0 /\ spoiled = FALSE
-----------------------------------------------------------------------------
(* JobManager.New: register, and drop the oldest beyond the cap, running or *)
(* not.                                                                     *)
New(kind, pc, arg, auth) ==
    \E j \in JobIds :
        /\ job[j] = NoJob /\ \A i \in 1 .. j - 1 : job[i] # NoJob
        /\ job' = [job EXCEPT ![j] = [NoJob EXCEPT !.kind = kind, !.pc = pc, !.arg = arg, !.auth = auth]]
        /\ order' = LET o == Append(order, j) IN IF Len(o) > maxJobHistory THEN Tail(o) ELSE o
        /\ UNCHANGED <<vps, srv, conns, mine, jobFaults, jobRestarts>>
        /\ spoiled' = (spoiled \/ \E i \in JobIds : job[i] # NoJob /\ ~job[i].done)

(* Job.Finish closes a job once: a second call changes nothing.             *)
Finish(j, ok) ==
    job' = [job EXCEPT ![j] = IF @.done THEN @ ELSE [@ EXCEPT !.pc = "end", !.done = TRUE, !.ok = ok]]

Goto(j, pc) == job' = [job EXCEPT ![j].pc = pc]

JobFault == jobFaults < MaxJobFaults /\ jobFaults' = jobFaults + 1
NoFault == UNCHANGED jobFaults

(* Provision logs in with the given key, or else with the password.         *)
Login_Fallback(auth) == auth \in vps.keys \/ vps.live
Login(auth) == IF auth # NoKey THEN auth \in vps.keys ELSE vps.live

(* Every job that only needs one script fails the same way: no ssh client,  *)
(* a refused login, or a connection that ends before the script does.       *)
Unreachable(j) ==
    /\ job[j].pc \in {"dial", "keys", "versions", "fetch"}
    /\ (~Login(job[j].auth) /\ NoFault) \/ JobFault
    /\ Finish(j, FALSE)
    /\ UNCHANGED <<vps, srv, conns, order, mine, jobRestarts, spoiled>>
-----------------------------------------------------------------------------
(* The installer.  A fragment keeps a credential it finds, writes its       *)
(* configuration and starts its service; sing-box serves what the unit      *)
(* names when the service (re)starts.                                       *)
handleServerProvision(ps) == New("provision", "dial", ps, NoKey)

Dial(j) ==
    /\ job[j].pc = "dial" /\ Login(job[j].auth)
    /\ Goto(j, "install")
    /\ UNCHANGED <<vps, srv, conns, order, mine, jobFaults, jobRestarts, spoiled>>

Persist(v, p) == IF v.ident[p] # 0 THEN v ELSE [v EXCEPT !.ident[p] = v.made + 1, !.made = @ + 1]

Installed(v) == IF v.bin = 0 THEN [v EXCEPT !.bin = 1] ELSE v

(* What a start of the service serves: nothing if the release rejects it.   *)
Loads(v) == IF v.bin \in Rejecting THEN {} ELSE v.wrote \cap v.unit

(* scriptReality: its own unit, config.json only, enable --now.             *)
scriptReality(v) ==
    LET w == [Installed(v) EXCEPT !.wrote = @ \cup {Reality}, !.unit = {Reality}]
    IN IF w.loaded \ {Kernel} = {} THEN [w EXCEPT !.loaded = @ \cup Loads(w)] ELSE w

(* The other sing-box fragments and singboxServiceUnit: conf.d, together    *)
(* with config.json where there is one, and a restart.                      *)
scriptTrojan(v) ==
    LET w == [Installed(v) EXCEPT !.wrote = @ \cup {Trojan}, !.unit = {Trojan} \cup (v.wrote \cap {Reality})]
    IN [w EXCEPT !.loaded = (@ \cap {Kernel}) \cup Loads(w)]

scriptWireGuard(v) == [v EXCEPT !.loaded = @ \cup {Kernel}]

Fragment(v, p) ==
    CASE p = Kernel -> scriptWireGuard(Persist(v, p))
      [] p = Reality -> scriptReality(Persist(v, p))
      [] p = Trojan -> scriptTrojan(Persist(v, p))

(* A line of the output: a marker, a configuration, or one that cannot be   *)
(* read.                                                                    *)
OutLine(is, p, secret) == [is |-> is, proto |-> p, secret |-> secret]

(* One fragment.  Under set -e a failed command ends the script, before or  *)
(* after the credential is on disk; so does a cut connection.  A fragment   *)
(* that ends well prints its marker and its configuration, which may arrive *)
(* garbled when it is base64.                                               *)
Install(j) ==
    LET ps == job[j].arg
        p == Head(ps)
        said(l) == [job EXCEPT ![j].arg = Tail(ps), ![j].out = @ \o <<OutLine("mark", p, 0), l>>,
                               ![j].pc = IF Tail(ps) = <<>> THEN "import" ELSE "install"]
    IN /\ job[j].pc = "install"
       /\ \/ /\ NoFault
             /\ vps' = Fragment(vps, p)
             /\ job' = said(OutLine("config", p, Persist(vps, p).ident[p]))
          \/ /\ JobFault /\ p = Kernel
             /\ vps' = Fragment(vps, p)
             /\ job' = said(OutLine("garbled", p, 0))
          \/ /\ JobFault
             /\ vps' \in {vps, Persist(vps, p)}
             /\ Goto(j, "import")
       /\ UNCHANGED <<srv, conns, order, mine, jobRestarts, spoiled>>

(* ExtractTagged: each configuration, by its place, with the marker before  *)
(* it or, without one, what it looks like.  The next configuration uses a   *)
(* marker up, garbled or not, so a marker that counts is in the line before.*)
Configs(out) == {i \in DOMAIN out : out[i].is = "config"}
Tagged(label, l) == [label |-> label, proto |-> l.proto, secret |-> l.secret]
ExtractTagged_KeepMark(out) ==
    LET marks(i) == {n \in 1 .. i - 1 : out[n].is = "mark" /\ \A m \in n .. i - 1 : out[m].is # "config"}
    IN [i \in Configs(out) |-> Tagged(out[Min(marks(i) \cup {i})].proto, out[i])]
ExtractTagged(out) ==
    LET marked(i) == i - 1 \in DOMAIN out /\ out[i - 1].is = "mark"
    IN [i \in Configs(out) |-> Tagged(out[IF marked(i) THEN i - 1 ELSE i].proto, out[i])]

(* runProvision after the script: nothing to import fails the job; else the *)
(* configurations go into Connections one by one, each of which may fail.   *)
runProvision(j) ==
    /\ job[j].pc = "import"
    /\ IF Configs(job[j].out) = {} THEN Finish(j, FALSE)
       ELSE job' = [job EXCEPT ![j].pc = "upsert", ![j].out = ExtractTagged(@)]
    /\ UNCHANGED <<vps, srv, conns, order, mine, jobFaults, jobRestarts, spoiled>>

ImportOne(j) ==
    /\ job[j].pc = "upsert"
    /\ \E i \in DOMAIN job[j].out :
          LET c == job[j].out[i]
              left == [job EXCEPT ![j].out = Restrict(@, DOMAIN @ \ {i})]
          IN /\ \A n \in DOMAIN job[j].out : i <= n
             /\ \/ NoFault /\ conns' = conns \cup {c} /\ job' = [left EXCEPT ![j].added = @ \cup {c.label}]
                \/ JobFault /\ job' = left /\ UNCHANGED conns
    /\ UNCHANGED <<vps, srv, order, mine, jobRestarts, spoiled>>

(* saveProvisionedServer: servers.Get, then Upsert of what was read, merged.*)
GetServer(j) ==
    /\ job[j].pc = "upsert" /\ DOMAIN job[j].out = {}
    /\ job' = [job EXCEPT ![j].pc = "save", ![j].read = srv]
    /\ UNCHANGED <<vps, srv, conns, order, mine, jobFaults, jobRestarts, spoiled>>

saveProvisionedServer(j) ==
    /\ job[j].pc = "save"
    /\ \/ NoFault /\ srv' = [job[j].read EXCEPT !.saved = TRUE, !.installed = @ \cup job[j].added]
       \/ JobFault /\ UNCHANGED srv
    /\ Finish(j, job[j].added # {})
    /\ UNCHANGED <<vps, conns, order, mine, jobRestarts, spoiled>>
-----------------------------------------------------------------------------
(* Hardening, first part: a key pair made on the VPS; the private half only *)
(* exists in the result of the job.  Its number is the job's.               *)
handleServerHardenKeys(auth) == New("harden-keys", "keys", <<>>, auth)

runHardenKeys(j) ==
    /\ job[j].pc = "keys" /\ Login(job[j].auth)
    /\ vps' = [vps EXCEPT !.keys = @ \cup {j}]
    /\ (NoFault /\ Finish(j, TRUE)) \/ (JobFault /\ Finish(j, FALSE))
    /\ UNCHANGED <<srv, conns, order, mine, jobRestarts, spoiled>>

(* handleServerJob: the user polls, and downloads the key, while the job is *)
(* still addressable.                                                       *)
handleServerJob(j) ==
    /\ j \in Range(order) /\ job[j].kind = "harden-keys" /\ job[j].ok /\ j \notin mine
    /\ mine' = mine \cup {j}
    /\ UNCHANGED <<vps, srv, conns, job, order, jobFaults, jobRestarts, spoiled>>

(* Second part: log in with the key the request carries, and only then turn *)
(* passwords off.                                                           *)
handleServerLockdown(k) == New("lockdown", "verify", <<>>, k)

runLockdown(j) ==
    /\ job[j].pc = "verify"
    /\ \/ Login(job[j].auth) /\ Goto(j, "lockdown") /\ NoFault
       \/ ((~Login(job[j].auth) /\ NoFault) \/ JobFault) /\ Finish(j, FALSE)
    /\ UNCHANGED <<vps, srv, conns, order, mine, jobRestarts, spoiled>>

(* HardenLockdownScript edits sshd_config, tests it and reloads sshd; a     *)
(* failed reload is not an error, a failed test leaves the edits.           *)
HardenLockdownScript(v) == [v EXCEPT !.file = FALSE, !.live = FALSE]

Lockdown(j) ==
    /\ job[j].pc = "lockdown"
    /\ \/ /\ Login(job[j].auth) /\ NoFault
          /\ vps' = HardenLockdownScript(vps) /\ Goto(j, "mark")
       \/ /\ Login(job[j].auth) /\ JobFault
          /\ vps' = [HardenLockdownScript(vps) EXCEPT !.live = vps.live]
          /\ Goto(j, "mark") \/ Finish(j, FALSE)
       \/ /\ (~Login(job[j].auth) /\ NoFault) \/ JobFault
          /\ Finish(j, FALSE) /\ UNCHANGED vps
    /\ UNCHANGED <<srv, conns, order, mine, jobRestarts, spoiled>>

(* servers.Patch: under the store's lock, so on the record as it is.        *)
MarkHardened(j) ==
    /\ job[j].pc = "mark"
    /\ \/ NoFault /\ srv' = IF srv.saved THEN [srv EXCEPT !.hardened = TRUE] ELSE srv
       \/ JobFault /\ UNCHANGED srv
    /\ Finish(j, TRUE)
    /\ UNCHANGED <<vps, conns, order, mine, jobRestarts, spoiled>>
-----------------------------------------------------------------------------
(* Versions: a read-only probe, and the replacement of sing-box.            *)
handleServerCheckVersions(auth) == New("check-versions", "versions", <<>>, auth)

runCheckVersions(j) ==
    /\ job[j].pc = "versions" /\ Login(job[j].auth)
    /\ Finish(j, TRUE)
    /\ UNCHANGED <<vps, srv, conns, order, mine, jobFaults, jobRestarts, spoiled>>

handleServerUpdateBinary(ver, auth) == New("update-binary", "fetch", <<ver>>, auth)

(* UpdateSingBoxScript: back up, replace, restart, and back if the service  *)
(* did not come up.  The backup is best effort.                             *)
UpdateSingBoxScript(j) ==
    /\ job[j].pc = "fetch" /\ Login(job[j].auth)
    /\ \/ NoFault /\ vps' = [vps EXCEPT !.bak = IF vps.bin = 0 THEN @ ELSE vps.bin, !.bin = Head(job[j].arg)]
       \/ JobFault /\ vps' = [vps EXCEPT !.bin = Head(job[j].arg)]
    /\ Goto(j, "restart")
    /\ spoiled' = (spoiled \/ vps.bin = 0 \/ jobFaults' # jobFaults)
    /\ UNCHANGED <<srv, conns, order, mine, jobRestarts>>

Restarted(v) == [v EXCEPT !.loaded = (@ \cap {Kernel}) \cup Loads(v)]
RolledBack(v) == IF v.bak = 0 THEN v ELSE [v EXCEPT !.bin = v.bak]

runUpdateServerBinary(j) ==
    /\ job[j].pc = "restart"
    /\ \/ /\ NoFault
          /\ IF vps.bin \in Rejecting
             THEN vps' = Restarted(RolledBack(vps)) /\ Finish(j, FALSE)
             ELSE vps' = Restarted(vps) /\ Finish(j, TRUE)
       \/ JobFault /\ vps' \in {vps, Restarted(vps)} /\ Finish(j, FALSE)
    /\ spoiled' = (spoiled \/ jobFaults' # jobFaults)
    /\ UNCHANGED <<srv, conns, order, mine, jobRestarts>>
-----------------------------------------------------------------------------
(* The user edits the list of servers: saving a host again replaces its     *)
(* record.                                                                  *)
handleServers ==
    /\ srv' = [NoServer EXCEPT !.saved = TRUE]
    /\ UNCHANGED <<vps, conns, job, order, mine, jobFaults, jobRestarts, spoiled>>

handleDeleteServer ==
    /\ srv.saved /\ srv' = NoServer
    /\ UNCHANGED <<vps, conns, job, order, mine, jobFaults, jobRestarts, spoiled>>

(* The daemon restarts: jobs are memory only.                               *)
DaemonRestart ==
    /\ jobRestarts < MaxJobRestarts /\ jobRestarts' = jobRestarts + 1
    /\ order' = <<>>
    /\ job' = [j \in JobIds |-> IF job[j] = NoJob THEN NoJob ELSE [NoJob EXCEPT !.kind = "lost", !.done = TRUE]]
    /\ spoiled' = (spoiled \/ \E j \in JobIds : job[j].pc = "restart")
    /\ UNCHANGED <<vps, srv, conns, mine, jobFaults>>

(* The VPS reboots: sshd and sing-box load what is on disk.  (external)     *)
VpsReboot ==
    /\ vps' = [Restarted(vps) EXCEPT !.live = vps.file]
    /\ UNCHANGED <<srv, conns, job, order, mine, jobFaults, jobRestarts, spoiled>>

Requests ==
    \/ \E ps \in Orders : handleServerProvision(ps)
    \/ \E k \in mine \cup {NoKey} :
         \/ handleServerHardenKeys(k)
         \/ handleServerCheckVersions(k)
         \/ \E ver \in CoreVersions : handleServerUpdateBinary(ver, k)
    \/ \E k \in mine : handleServerLockdown(k)
    \/ handleServers \/ handleDeleteServer

Work(j) ==
    \/ Unreachable(j) \/ Dial(j) \/ Install(j) \/ runProvision(j) \/ ImportOne(j) \/ GetServer(j)
    \/ saveProvisionedServer(j) \/ runHardenKeys(j) \/ runLockdown(j) \/ Lockdown(j) \/ MarkHardened(j)
    \/ runCheckVersions(j) \/ UpdateSingBoxScript(j) \/ runUpdateServerBinary(j)

JobNext ==
    \/ Requests \/ DaemonRestart \/ VpsReboot
    \/ \E j \in JobIds : Work(j) \/ handleServerJob(j)

JobSpec == JobInit /\ [][JobNext]_jobVars
-----------------------------------------------------------------------------
(* The user is never locked out: once the VPS refuses passwords, or would   *)
(* after its next restart, one of the keys it accepts is in the user's      *)
(* hands (runLockdown verifies the key of the request first).               *)
NeverLockedOut == (vps.live /\ vps.file) \/ mine \cap vps.keys # {}

(* Every connection a job added still works after any later installer run:  *)
(* it is labelled with the protocol it is for, its credential is the one on *)
(* the VPS ("Regenerating ... would silently invalidate every previously    *)
(* -issued client"), and the record claims no protocol without one.  And    *)
(* sing-box serves every protocol written to its disk, through installs,    *)
(* reboots and updates to a release that rejects the configuration          *)
(* (UpdateSingBoxScript rolls back "so the VPS keeps working"), when no     *)
(* script is running.  Not when jobs ran at once or an update was cut, and  *)
(* not on a server that mixes Reality with the others: scriptReality        *)
(* installs a unit of its own, which loses them at the next start.          *)
Mixed == Reality \in vps.wrote /\ vps.wrote # {Reality}
ConnectionsWork ==
    /\ \A c \in conns : c.label = c.proto /\ c.secret = vps.ident[c.proto]
    /\ \A p \in srv.installed : \E c \in conns : c.label = p
    /\ ~spoiled /\ ~Mixed /\ (\A j \in JobIds : job[j].pc \notin {"install", "restart"})
        => vps.wrote \subseteq vps.loaded
=============================================================================
