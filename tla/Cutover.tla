------------------------------- MODULE Cutover -------------------------------
(***************************************************************************)
(* The cutover of a Keenetic router from the keen-pbr stack to Velinx, and  *)
(* its rollback (keenetic/cutover.go, cutover_run.go, singbox_stage.go,     *)
(* netfilter.go, kernel.go), and the two shell scripts of the kernel        *)
(* flavour (kpbr_cutover.go).  Both are sequences of device commands, each  *)
(* of which may fail; NDM may rebuild the firewall and the router may       *)
(* reboot between any two.  An operator starts a cutover only with no       *)
(* window open.                                                             *)
(***************************************************************************)
EXTENDS Naturals, Sequences, FiniteSetsExt, Functions

CONSTANTS
    MaxCutovers,   \* bound: cutovers started
    MaxCutFaults,  \* bound: commands that fail for no reason of their own
    MaxReboots

ASSUME CutoverAssumption == {MaxCutovers, MaxCutFaults, MaxReboots} \subseteq Nat

Services == <<"S80keen-pbr", "S87default_via_nl", "S89hy_failover">>   \* oldStackServices
KeenPBR  == Services[1]
Units    == Range(Services)
OldStack == Units \cup {"cron", "hook50"}
Routes   == {"bypass", "local", "mgmt", "default"}
WrFiles  == {"hook", "cron", "boot", "dns"}

VARIABLES
    kind,     \* "tun" (Cutover) or "kernel" (cutover.sh)
    site,     \* [conf: the config.json found, stray: another *.json, gw: a WAN gateway]
    dev,      \* the device
    want,     \* the config of this cutover: "good", or "bad" if sing-box rejects it
    phase,    \* "idle", "forward", "rollback"
    at,       \* the next command of the phase's program, 0 when idle
    armed,    \* the fail-safe holds the rollback closure
    errs,     \* the parts of the rollback that failed
    out,      \* "none", "ok", "undone", "failed", "cut" or "booted" (a reboot)
    tally     \* [cut, fault, reboot]: what the bounds count

cutVars == <<kind, site, dev, want, phase, at, armed, errs, out, tally>>
-----------------------------------------------------------------------------
(* One command: what it does, to what, whether the code looks at its error, *)
(* and the part of the rollback it belongs to.                              *)
Cmd(do, on) == [do |-> do, on |-> on, must |-> TRUE, part |-> "none"]
Try(do, on) == [Cmd(do, on) EXCEPT !.must = FALSE]
InPart(p, cmds) == [i \in DOMAIN cmds |-> [cmds[i] EXCEPT !.part = p]]

(* What a command leaves behind.  dev.x: the scripts with their execute bit; *)
(* up: running services; fw: keen-pbr's firewall rules; plane: the kernel    *)
(* flavour's sets and rules.                                                 *)
Running(conf) == IF conf \in {"orig", "good"} THEN conf ELSE "down"
Effect(c, d) ==
    CASE c.do = "x-"      -> [d EXCEPT !.x = @ \ {c.on}]
      [] c.do = "x+"      -> [d EXCEPT !.x = @ \cup {c.on}]
      [] c.do = "stop"    -> [d EXCEPT !.up = @ \ {c.on}, !.fw = @ /\ c.on # KeenPBR]
      [] c.do = "start"   -> [d EXCEPT !.up = @ \cup {c.on}, !.fw = @ \/ c.on = KeenPBR]
      [] c.do = "put"     -> [d EXCEPT !.files = @ \cup {c.on}]
      [] c.do = "rm"      -> [d EXCEPT !.files = @ \ {c.on}]
      [] c.do = "snap"    -> IF d.snap = "none" THEN [d EXCEPT !.snap = d.conf] ELSE d
      [] c.do = "write"   -> [d EXCEPT !.conf = c.on]
      [] c.do = "restore" -> IF d.snap = "none" THEN d ELSE [d EXCEPT !.conf = d.snap]
      [] c.do = "unsnap"  -> [d EXCEPT !.snap = "none"]
      [] c.do = "restart" -> [d EXCEPT !.core = Running(d.conf), !.routes = @ \ {"default"}]
      [] c.do = "route"   -> [d EXCEPT !.routes = @ \cup {c.on}]
      [] c.do = "unroute" -> [d EXCEPT !.routes = @ \ {c.on}]
      [] c.do = "plane"   -> [d EXCEPT !.plane = c.on = "on"]
      [] OTHER            -> d

(* The commands that fail for a reason of their own.  "S99sing-box restart" *)
(* is not one: it returns 0 whatever becomes of sing-box.                   *)
Fails(c, d) ==
    \/ c.do = "scan" /\ site.stray
    \/ c.do = "check" /\ d.conf = "bad"
    \/ c.do = "gateway" /\ ~site.gw
    \/ c = Cmd("route", "default") /\ d.core # "good"   \* no wr-tun
-----------------------------------------------------------------------------
Retire(s) == <<Try("stop", s), Cmd("x-", s)>>
RetireOldStack ==
    <<Cmd("x-", "hook50"), Cmd("x-", "cron")>> \o Retire(Services[1]) \o Retire(Services[2]) \o Retire(Services[3])
Revive(s) == <<Cmd("x+", s), Cmd("start", s)>>
RestoreOldStack ==
    Revive(Services[1]) \o Revive(Services[2]) \o Revive(Services[3]) \o <<Cmd("x+", "cron"), Cmd("x+", "hook50")>>

InstallNetfilterHook == <<Cmd("put", "hook")>>
RemoveNetfilterHook  == <<Cmd("rm", "hook")>>

(* strayJSON is the scan. *)
StageSingboxConfig(cfg) == <<Cmd("scan", "dir"), Cmd("snap", "config"), Cmd("write", cfg)>>
RestoreSingboxConfig == <<Cmd("restore", "config"), Try("unsnap", "config")>>

ApplyKernelPlane ==
    <<Cmd("gateway", "wan"), Cmd("route", "bypass"), Cmd("route", "local"), Cmd("route", "mgmt"), Cmd("route", "default")>>
TeardownKernelPlane ==
    <<Try("unroute", "default"), Try("unroute", "mgmt"), Try("unroute", "local"), Try("unroute", "bypass")>>

CutoverSteps(cfg) ==
    RetireOldStack \o InstallNetfilterHook \o StageSingboxConfig(cfg)
        \o <<Cmd("check", "config"), Cmd("restart", "sing-box")>> \o ApplyKernelPlane

(* The rollback closure: its parts run whatever became of the others.       *)
RollbackSteps ==
    InPart("config", RestoreSingboxConfig) \o InPart("restart", <<Cmd("restart", "sing-box")>>)
        \o InPart("hook", RemoveNetfilterHook) \o InPart("kernel", TeardownKernelPlane) \o InPart("old", RestoreOldStack)

(* cutover.sh and rollback.sh: no command's status is looked at.            *)
EmitCutoverScript_LeavesHook ==
    <<Try("stop", KeenPBR), Try("x-", KeenPBR), Try("plane", "on"),
      Try("put", "dns"), Try("put", "cron"), Try("put", "hook"), Try("put", "boot")>>
EmitCutoverScript ==
    <<Try("stop", KeenPBR), Try("x-", KeenPBR), Try("x-", "hook50"), Try("plane", "on"),
      Try("put", "dns"), Try("put", "cron"), Try("put", "hook"), Try("put", "boot")>>
RenderTeardownScript == <<Try("plane", "off")>>
EmitRollbackScript ==
    <<Try("rm", "cron"), Try("rm", "hook"), Try("rm", "dns"), Try("rm", "boot")>> \o RenderTeardownScript
        \o <<Try("x+", "hook50"), Try("x+", KeenPBR), Try("start", KeenPBR)>>

Program ==
    CASE kind = "tun" /\ phase = "forward"  -> CutoverSteps(want)
      [] kind = "tun" /\ phase # "forward"  -> RollbackSteps
      [] kind # "tun" /\ phase = "forward"  -> EmitCutoverScript
      [] OTHER -> EmitRollbackScript
-----------------------------------------------------------------------------
CutInit ==
    /\ kind \in {"tun", "kernel"}
    /\ site \in [conf : {"orig", "none"}, stray : BOOLEAN, gw : BOOLEAN]
    /\ kind = "kernel" => site = [conf |-> "orig", stray |-> FALSE, gw |-> TRUE]
    /\ dev = [x |-> OldStack, up |-> Units, fw |-> TRUE, files |-> {}, plane |-> FALSE,
              conf |-> site.conf, snap |-> "none", core |-> Running(site.conf), routes |-> {}]
    /\ want = "good" /\ phase = "idle" /\ at = 0 /\ armed = FALSE
    /\ errs = {} /\ out = "none" /\ tally = [cut |-> 0, fault |-> 0, reboot |-> 0]

(* RunCutover with what PrepareCutover built, or cutover.sh.                *)
StartCutover(cfg) ==
    /\ phase = "idle" /\ ~armed /\ tally.cut < MaxCutovers
    /\ tally' = [tally EXCEPT !.cut = @ + 1]
    /\ want' = cfg /\ phase' = "forward" /\ at' = 1 /\ errs' = {} /\ out' = "none"
    /\ UNCHANGED <<kind, site, dev, armed>>

(* What follows a command: after a success or an error nobody looks at, the *)
(* next one; after any other, the rollback, or in the rollback its next     *)
(* part.  At the end, Arm or the rollback's answer.                         *)
Proceed(failed) ==
    LET c    == Program[at]
        bad  == failed /\ c.must
        rest == {i \in at + 1 .. Len(Program) : bad => Program[i].part # c.part}
        now  == IF bad THEN errs \cup {c.part} ELSE errs
    IN IF phase = "forward" /\ bad
       THEN at' = 1 /\ phase' = "rollback" /\ UNCHANGED <<armed, errs, out>>
       ELSE /\ errs' = now
            /\ IF rest # {} THEN at' = Min(rest) /\ UNCHANGED <<phase, armed, out>>
               ELSE /\ at' = 0 /\ phase' = "idle" /\ armed' = (phase = "forward" /\ kind = "tun")
                    /\ out' = IF phase = "forward" THEN "ok" ELSE IF now = {} THEN "undone" ELSE "failed"

Do ==
    /\ phase # "idle"
    /\ LET f == Fails(Program[at], dev)
       IN Proceed(f) /\ dev' = IF f THEN dev ELSE Effect(Program[at], dev)
    /\ UNCHANGED <<kind, site, want, tally>>

(* A command fails that need not.  A script's plain commands do not.        *)
CommandFails ==
    /\ phase # "idle" /\ kind = "tun" /\ tally.fault < MaxCutFaults
    /\ tally' = [tally EXCEPT !.fault = @ + 1]
    /\ Proceed(TRUE)
    /\ UNCHANGED <<kind, site, dev, want>>

(* CutoverCheck saw the raw WAN address, or the timer ran out: the fail-safe *)
(* runs the rollback.  The operator runs rollback.sh any time.               *)
Rollback ==
    /\ phase = "idle" /\ tally.cut > 0 /\ (kind = "tun" => armed)
    /\ phase' = "rollback" /\ at' = 1 /\ errs' = {} /\ out' = "none"
    /\ UNCHANGED <<kind, site, dev, want, armed, tally>>

ConfirmSafe ==
    /\ phase = "idle" /\ armed
    /\ armed' = FALSE
    /\ UNCHANGED <<kind, site, dev, want, phase, at, errs, out, tally>>

(* NDM rebuilds the firewall and runs the executable hooks: keen-pbr's       *)
(* calls S80keen-pbr, the kernel flavour's restores its plane.  (external)   *)
Netfilter ==
    /\ dev' = [dev EXCEPT !.fw = {"hook50", KeenPBR} \subseteq dev.x,
                          !.plane = kind = "kernel" /\ "hook" \in dev.files]
    /\ dev' # dev
    /\ UNCHANGED <<kind, site, want, phase, at, armed, errs, out, tally>>

(* rc.unslung starts the executable services, S99sing-box among them, and    *)
(* BootInitScript runs the hook.  Routes and the fail-safe window are gone.  *)
Reboot ==
    /\ tally.reboot < MaxReboots /\ tally' = [tally EXCEPT !.reboot = @ + 1]
    /\ dev' = [dev EXCEPT !.up = Units \cap dev.x, !.fw = KeenPBR \in dev.x,
                          !.plane = kind = "kernel" /\ {"boot", "hook"} \subseteq dev.files,
                          !.core = Running(dev.conf), !.routes = {}]
    /\ phase' = "idle" /\ at' = 0 /\ armed' = FALSE /\ errs' = {}
    /\ out' = IF kind = "kernel" /\ out \in {"ok", "booted"} THEN "booted" ELSE "cut"
    /\ UNCHANGED <<kind, site, want>>

CutNext ==
    \/ \E cfg \in {"good", "bad"} : StartCutover(cfg)
    \/ Do \/ CommandFails \/ Rollback \/ ConfirmSafe \/ Netfilter \/ Reboot

CutSpec == CutInit /\ [][CutNext]_cutVars
-----------------------------------------------------------------------------
TakenOver ==
    IF kind = "kernel"
    THEN dev.files = WrFiles /\ {KeenPBR, "hook50"} \cap dev.x = {}
    ELSE /\ want = "good" /\ dev.conf = "good" /\ dev.core = "good" /\ dev.routes = Routes
         /\ "hook" \in dev.files /\ dev.x = {} /\ (KeenPBR \notin dev.up => ~dev.fw)

(* Cutover "rolls back immediately" and the rollback "reverses EVERY step": *)
(* a cutover that reports success has taken the router over, and keen-pbr's *)
(* rules are not back, for the kernel flavour across reboots too.  After a  *)
(* rollback, of a failed cutover or from the fail-safe, a part that         *)
(* reported no error is as it was before the first cutover, whatever failed *)
(* elsewhere, and however many cutovers, reboots and firewall rebuilds came *)
(* before.  (Without a config.json at the start there is none to go back    *)
(* to.)                                                                     *)
AllOrNothing ==
    /\ out \in {"ok", "booted"} => TakenOver
    /\ out = "booted" => dev.plane
    /\ out \in {"undone", "failed"} =>
        /\ "config" \notin errs /\ site.conf = "orig" => dev.conf = "orig"
        /\ {"config", "restart"} \cap errs = {} /\ site.conf = "orig" => dev.core = "orig"
        /\ "hook" \notin errs => dev.files = {}
        /\ "restart" \notin errs => "default" \notin dev.routes
        /\ "old" \notin errs => dev.x = OldStack /\ dev.up = Units
        /\ ~dev.plane
=============================================================================
