-------------------------- MODULE Cutover_proofs --------------------------
(***************************************************************************)
(* Proofs about Cutover: a cutover of either flavour takes the router over *)
(* or leaves it as it was, for any number of cutovers, failing commands,   *)
(* firewall rebuilds and reboots.  The programs are fixed, so the argument *)
(* is by cases on the command that runs.                                   *)
(* And about Migrate: what a cutover is made of routes as keen-pbr did,    *)
(* over live tunnels, for any keen-pbr config and whatever is missing.     *)
(***************************************************************************)
EXTENDS Cutover, Migrate, NaturalsInduction, WellFoundedInduction, TLAPS

Confs == {"orig", "none", "good", "bad"}
Devices == [x : SUBSET OldStack, up : SUBSET Units, fw : BOOLEAN, files : SUBSET WrFiles, plane : BOOLEAN,
            conf : Confs, snap : Confs, core : {"orig", "good", "down"}, routes : SUBSET Routes]
CutTypeOK ==
    /\ kind \in {"tun", "kernel"}
    /\ site \in [conf : {"orig", "none"}, stray : BOOLEAN, gw : BOOLEAN]
    /\ dev \in Devices
    /\ want \in {"good", "bad"}
    /\ phase \in {"idle", "forward", "rollback"}
    /\ at \in 0 .. (IF kind = "kernel" THEN 8 ELSE IF phase = "forward" THEN 19 ELSE 16)
    /\ at = 0 <=> phase = "idle"
    /\ armed \in BOOLEAN
    /\ errs \in SUBSET {"config", "restart", "hook", "kernel", "old"}
    /\ out \in {"none", "ok", "undone", "failed", "cut", "booted"}
    /\ tally \in [cut : Nat, fault : Nat, reboot : Nat]

(* What holds between any two commands, reboots and firewall rebuilds      *)
(* included: keen-pbr's hook is the first thing a cutover retires and the  *)
(* last a rollback revives, so while it is executable the old stack is     *)
(* whole; and a snapshot, once taken, is of the original config, and is    *)
(* dropped only when the config is the original again.                     *)
Device ==
    /\ "hook50" \in dev.x /\ kind = "tun" => dev.x = OldStack /\ dev.up = Units
    /\ dev.fw /\ kind = "tun" => KeenPBR \in dev.up
    /\ site.conf = "orig" => dev.snap \in {"none", "orig"} /\ (dev.snap = "none" => dev.conf = "orig")
    /\ kind = "tun" => ~dev.plane /\ dev.files \subseteq {"hook"}
    /\ kind = "kernel" =>
        /\ site = [conf |-> "orig", stray |-> FALSE, gw |-> TRUE] /\ ~armed /\ errs = {}
        /\ dev.conf = "orig" /\ dev.core = "orig" /\ dev.routes = {}
        /\ OldStack \ {KeenPBR, "hook50"} \subseteq dev.x /\ Units \ {KeenPBR} \subseteq dev.up

(* What the commands of a cutover have done so far. *)
Forward ==
    phase = "forward" /\ kind = "tun" =>
        /\ at > 1 => "hook50" \notin dev.x
        /\ at > 2 => "cron" \notin dev.x
        /\ at > 4 => Services[1] \notin dev.x
        /\ at > 6 => Services[2] \notin dev.x
        /\ at > 8 => Services[3] \notin dev.x
        /\ at > 9 => "hook" \in dev.files
        /\ at > 11 /\ site.conf = "orig" => dev.snap = "orig"
        /\ at > 12 => dev.conf = want
        /\ at > 13 => want = "good"
        /\ at > 14 => dev.core = "good"
        /\ at > 16 => "bypass" \in dev.routes
        /\ at > 17 => "local" \in dev.routes
        /\ at > 18 => "mgmt" \in dev.routes
Script ==
    phase = "forward" /\ kind = "kernel" =>
        /\ at > 2 => KeenPBR \notin dev.x
        /\ at > 3 => "hook50" \notin dev.x
        /\ at > 5 => "dns" \in dev.files
        /\ at > 6 => "cron" \in dev.files
        /\ at > 7 => "hook" \in dev.files

(* ... and those of a rollback. *)
Parts == <<"config", "config", "restart", "hook", "kernel", "kernel", "kernel", "kernel",
           "old", "old", "old", "old", "old", "old", "old", "old">>
Undone(n) ==
    /\ n > 1 /\ "config" \notin errs /\ site.conf = "orig" => dev.conf = "orig"
    /\ n > 3 /\ {"config", "restart"} \cap errs = {} /\ site.conf = "orig" => dev.core = "orig"
    /\ n > 3 /\ "restart" \notin errs => "default" \notin dev.routes
    /\ n > 4 /\ "hook" \notin errs => dev.files = {}
    /\ "old" \notin errs =>
        /\ n > 9 => Services[1] \in dev.x
        /\ n > 10 => Services[1] \in dev.up
        /\ n > 11 => Services[2] \in dev.x
        /\ n > 12 => Services[2] \in dev.up
        /\ n > 13 => Services[3] \in dev.x
        /\ n > 14 => Services[3] \in dev.up
        /\ n > 15 => "cron" \in dev.x
        /\ n > 16 => "hook50" \in dev.x
Backward ==
    phase = "rollback" /\ kind = "tun" =>
        /\ \A i \in at .. 16 : Parts[i] \notin errs
        /\ Undone(at)
ScriptBack ==
    phase = "rollback" /\ kind = "kernel" =>
        /\ at > 1 => "cron" \notin dev.files
        /\ at > 2 => "hook" \notin dev.files
        /\ at > 3 => "dns" \notin dev.files
        /\ at > 4 => "boot" \notin dev.files
        /\ at > 5 => ~dev.plane
        /\ at > 6 => "hook50" \in dev.x
        /\ at > 7 => KeenPBR \in dev.x

(* The inductive invariant: AllOrNothing with what is true after the first *)
(* at - 1 commands of whichever program runs.                              *)
CutInv ==
    /\ CutTypeOK /\ Device /\ Forward /\ Script /\ Backward /\ ScriptBack
    /\ phase # "idle" => out = "none"
    /\ phase = "forward" => errs = {}
    /\ AllOrNothing

-----------------------------------------------------------------------------
(* What the four programs are, command by command.                         *)
Words == {"x-", "x+", "stop", "start", "put", "rm", "scan", "snap", "write", "check", "restart", "gateway", "route",
          "unroute", "restore", "unsnap", "config", "hook", "kernel", "old", "hook50", "cron", "S80keen-pbr",
          "S87default_via_nl", "S89hy_failover", "dns", "boot", "good", "bad", "bypass", "local", "mgmt", "default", "plane",
          "on", "off", "dir", "wan", "sing-box", "none"}
Commands == [do : Words, on : Words, must : BOOLEAN, part : Words]

LEMMA UnitsAre == Units = {"S80keen-pbr", "S87default_via_nl", "S89hy_failover"}
  BY DEF Units, Services, Range

(* Every command is one. *)
LEMMA CommandOK ==
  ASSUME NEW do \in Words, NEW on \in Words
  PROVE  Cmd(do, on) \in Commands /\ Try(do, on) \in Commands
  <1>1. "none" \in Words  BY DEF Words
  <1> QED  BY <1>1 DEF Cmd, Try, Commands

(* s is a, of m commands, followed by b, of n. *)
Joined(s, a, b, m, n) ==
  /\ s \in Seq(Commands) /\ Len(s) = m + n
  /\ \A i \in 1 .. m : s[i] = a[i]
  /\ \A i \in 1 .. n : s[m + i] = b[i]
LEMMA Join ==
  ASSUME NEW a \in Seq(Commands), NEW b \in Seq(Commands), NEW m \in Nat, NEW n \in Nat, Len(a) = m, Len(b) = n
  PROVE  Joined(a \o b, a, b, m, n)
  BY DEF Joined

(* Putting commands in a part changes nothing else of them. *)
LEMMA InPartOK ==
  ASSUME NEW p \in Words, NEW cmds \in Seq(Commands)
  PROVE  /\ InPart(p, cmds) \in Seq(Commands) /\ Len(InPart(p, cmds)) = Len(cmds)
         /\ \A i \in 1 .. Len(cmds) : InPart(p, cmds)[i] = [cmds[i] EXCEPT !.part = p]
  <1>1. DOMAIN cmds = 1 .. Len(cmds) /\ Len(cmds) \in Nat  OBVIOUS
  <1>2. \A i \in 1 .. Len(cmds) : [cmds[i] EXCEPT !.part = p] \in Commands
    <2> TAKE i \in 1 .. Len(cmds)
    <2>1. cmds[i] \in Commands  OBVIOUS
    <2> QED  BY <2>1 DEF Commands
  <1>3. InPart(p, cmds) = [i \in 1 .. Len(cmds) |-> [cmds[i] EXCEPT !.part = p]]  BY <1>1 DEF InPart
  <1> HIDE DEF Commands
  <1> QED  BY <1>1, <1>2, <1>3

(* The pieces of the programs. *)
LEMMA RetireProgram ==
  LET p == RetireOldStack
  IN /\ p \in Seq(Commands) /\ Len(p) = 8
     /\ p[1] = Cmd("x-", "hook50") /\ p[2] = Cmd("x-", "cron")
     /\ p[3] = Try("stop", Services[1]) /\ p[4] = Cmd("x-", Services[1])
     /\ p[5] = Try("stop", Services[2]) /\ p[6] = Cmd("x-", Services[2])
     /\ p[7] = Try("stop", Services[3]) /\ p[8] = Cmd("x-", Services[3])
  <1>1. Cmd("x-", "hook50") \in Commands /\ Cmd("x-", "cron") \in Commands
    BY CommandOK DEF Words
  <1>2. Try("stop", Services[1]) \in Commands /\ Cmd("x-", Services[1]) \in Commands
    BY CommandOK DEF Words, Services
  <1>3. Try("stop", Services[2]) \in Commands /\ Cmd("x-", Services[2]) \in Commands
    BY CommandOK DEF Words, Services
  <1>4. Try("stop", Services[3]) \in Commands /\ Cmd("x-", Services[3]) \in Commands
    BY CommandOK DEF Words, Services
  <1> QED  BY <1>1, <1>2, <1>3, <1>4 DEF RetireOldStack, Retire

LEMMA RestoreProgram ==
  LET p == RestoreOldStack
  IN /\ p \in Seq(Commands) /\ Len(p) = 8
     /\ p[1] = Cmd("x+", Services[1]) /\ p[2] = Cmd("start", Services[1])
     /\ p[3] = Cmd("x+", Services[2]) /\ p[4] = Cmd("start", Services[2])
     /\ p[5] = Cmd("x+", Services[3]) /\ p[6] = Cmd("start", Services[3])
     /\ p[7] = Cmd("x+", "cron") /\ p[8] = Cmd("x+", "hook50")
  <1>1. Cmd("x+", Services[1]) \in Commands /\ Cmd("start", Services[1]) \in Commands
    BY CommandOK DEF Words, Services
  <1>2. Cmd("x+", Services[2]) \in Commands /\ Cmd("start", Services[2]) \in Commands
    BY CommandOK DEF Words, Services
  <1>3. Cmd("x+", Services[3]) \in Commands /\ Cmd("start", Services[3]) \in Commands
    BY CommandOK DEF Words, Services
  <1>4. Cmd("x+", "cron") \in Commands /\ Cmd("x+", "hook50") \in Commands
    BY CommandOK DEF Words
  <1> QED  BY <1>1, <1>2, <1>3, <1>4 DEF RestoreOldStack, Revive

LEMMA HookProgram ==
  LET p == InstallNetfilterHook
  IN /\ p \in Seq(Commands) /\ Len(p) = 1
     /\ p[1] = Cmd("put", "hook")
  <1>1. Cmd("put", "hook") \in Commands
    BY CommandOK DEF Words
  <1> QED  BY <1>1 DEF InstallNetfilterHook

LEMMA StageProgram ==
  ASSUME NEW cfg \in {"good", "bad"}
  PROVE  LET p == StageSingboxConfig(cfg)
         IN /\ p \in Seq(Commands) /\ Len(p) = 3
            /\ p[1] = Cmd("scan", "dir") /\ p[2] = Cmd("snap", "config")
            /\ p[3] = Cmd("write", cfg)
  <1>1. Cmd("scan", "dir") \in Commands /\ Cmd("snap", "config") \in Commands
    BY CommandOK DEF Words
  <1>2. Cmd("write", cfg) \in Commands
    BY CommandOK DEF Words
  <1> QED  BY <1>1, <1>2 DEF StageSingboxConfig

LEMMA StartProgram ==
  LET p == <<Cmd("check", "config"), Cmd("restart", "sing-box")>>
  IN /\ p \in Seq(Commands) /\ Len(p) = 2
     /\ p[1] = Cmd("check", "config") /\ p[2] = Cmd("restart", "sing-box")
  <1>1. Cmd("check", "config") \in Commands /\ Cmd("restart", "sing-box") \in Commands
    BY CommandOK DEF Words
  <1> QED  BY <1>1

LEMMA PlaneProgram ==
  LET p == ApplyKernelPlane
  IN /\ p \in Seq(Commands) /\ Len(p) = 5
     /\ p[1] = Cmd("gateway", "wan") /\ p[2] = Cmd("route", "bypass")
     /\ p[3] = Cmd("route", "local") /\ p[4] = Cmd("route", "mgmt")
     /\ p[5] = Cmd("route", "default")
  <1>1. Cmd("gateway", "wan") \in Commands /\ Cmd("route", "bypass") \in Commands
    BY CommandOK DEF Words
  <1>2. Cmd("route", "local") \in Commands /\ Cmd("route", "mgmt") \in Commands
    BY CommandOK DEF Words
  <1>3. Cmd("route", "default") \in Commands
    BY CommandOK DEF Words
  <1> QED  BY <1>1, <1>2, <1>3 DEF ApplyKernelPlane

LEMMA UnstageProgram ==
  LET p == RestoreSingboxConfig
  IN /\ p \in Seq(Commands) /\ Len(p) = 2
     /\ p[1] = Cmd("restore", "config") /\ p[2] = Try("unsnap", "config")
  <1>1. Cmd("restore", "config") \in Commands /\ Try("unsnap", "config") \in Commands
    BY CommandOK DEF Words
  <1> QED  BY <1>1 DEF RestoreSingboxConfig

LEMMA AgainProgram ==
  LET p == <<Cmd("restart", "sing-box")>>
  IN /\ p \in Seq(Commands) /\ Len(p) = 1
     /\ p[1] = Cmd("restart", "sing-box")
  <1>1. Cmd("restart", "sing-box") \in Commands
    BY CommandOK DEF Words
  <1> QED  BY <1>1

LEMMA UnhookProgram ==
  LET p == RemoveNetfilterHook
  IN /\ p \in Seq(Commands) /\ Len(p) = 1
     /\ p[1] = Cmd("rm", "hook")
  <1>1. Cmd("rm", "hook") \in Commands
    BY CommandOK DEF Words
  <1> QED  BY <1>1 DEF RemoveNetfilterHook

LEMMA UnplaneProgram ==
  LET p == TeardownKernelPlane
  IN /\ p \in Seq(Commands) /\ Len(p) = 4
     /\ p[1] = Try("unroute", "default") /\ p[2] = Try("unroute", "mgmt")
     /\ p[3] = Try("unroute", "local") /\ p[4] = Try("unroute", "bypass")
  <1>1. Try("unroute", "default") \in Commands /\ Try("unroute", "mgmt") \in Commands
    BY CommandOK DEF Words
  <1>2. Try("unroute", "local") \in Commands /\ Try("unroute", "bypass") \in Commands
    BY CommandOK DEF Words
  <1> QED  BY <1>1, <1>2 DEF TeardownKernelPlane

LEMMA ScriptProgram ==
  LET p == EmitCutoverScript
  IN /\ p \in Seq(Commands) /\ Len(p) = 8
     /\ p[1] = Try("stop", Services[1]) /\ p[2] = Try("x-", Services[1])
     /\ p[3] = Try("x-", "hook50") /\ p[4] = Try("plane", "on")
     /\ p[5] = Try("put", "dns") /\ p[6] = Try("put", "cron")
     /\ p[7] = Try("put", "hook") /\ p[8] = Try("put", "boot")
  <1>1. Try("stop", Services[1]) \in Commands /\ Try("x-", Services[1]) \in Commands
    BY CommandOK DEF Words, Services
  <1>2. Try("x-", "hook50") \in Commands /\ Try("plane", "on") \in Commands
    BY CommandOK DEF Words
  <1>3. Try("put", "dns") \in Commands /\ Try("put", "cron") \in Commands
    BY CommandOK DEF Words
  <1>4. Try("put", "hook") \in Commands /\ Try("put", "boot") \in Commands
    BY CommandOK DEF Words
  <1> QED  BY <1>1, <1>2, <1>3, <1>4 DEF EmitCutoverScript, KeenPBR

LEMMA ScriptBackProgram ==
  LET p == EmitRollbackScript
  IN /\ p \in Seq(Commands) /\ Len(p) = 8
     /\ p[1] = Try("rm", "cron") /\ p[2] = Try("rm", "hook")
     /\ p[3] = Try("rm", "dns") /\ p[4] = Try("rm", "boot")
     /\ p[5] = Try("plane", "off") /\ p[6] = Try("x+", "hook50")
     /\ p[7] = Try("x+", Services[1]) /\ p[8] = Try("start", Services[1])
  <1>1. Try("rm", "cron") \in Commands /\ Try("rm", "hook") \in Commands
    BY CommandOK DEF Words
  <1>2. Try("rm", "dns") \in Commands /\ Try("rm", "boot") \in Commands
    BY CommandOK DEF Words
  <1>3. Try("plane", "off") \in Commands /\ Try("x+", "hook50") \in Commands
    BY CommandOK DEF Words
  <1>4. Try("x+", Services[1]) \in Commands /\ Try("start", Services[1]) \in Commands
    BY CommandOK DEF Words, Services
  <1> QED  BY <1>1, <1>2, <1>3, <1>4 DEF EmitRollbackScript, RenderTeardownScript, KeenPBR


(* The cutover, put together. *)
LEMMA CutoverProgram ==
  ASSUME NEW cfg \in {"good", "bad"}
  PROVE  LET p == CutoverSteps(cfg)
         IN /\ Len(p) = 19
            /\ p[1] = Cmd("x-", "hook50") /\ p[2] = Cmd("x-", "cron")
            /\ p[3] = Try("stop", Services[1]) /\ p[4] = Cmd("x-", Services[1])
            /\ p[5] = Try("stop", Services[2]) /\ p[6] = Cmd("x-", Services[2])
            /\ p[7] = Try("stop", Services[3]) /\ p[8] = Cmd("x-", Services[3])
            /\ p[9] = Cmd("put", "hook")
            /\ p[10] = Cmd("scan", "dir") /\ p[11] = Cmd("snap", "config") /\ p[12] = Cmd("write", cfg)
            /\ p[13] = Cmd("check", "config") /\ p[14] = Cmd("restart", "sing-box")
            /\ p[15] = Cmd("gateway", "wan") /\ p[16] = Cmd("route", "bypass") /\ p[17] = Cmd("route", "local")
            /\ p[18] = Cmd("route", "mgmt") /\ p[19] = Cmd("route", "default")
  <1> DEFINE a == RetireOldStack
             b == InstallNetfilterHook
             c == StageSingboxConfig(cfg)
             d == <<Cmd("check", "config"), Cmd("restart", "sing-box")>>
             e == ApplyKernelPlane
             ab == a \o b
             abc == ab \o c
             abcd == abc \o d
             all == abcd \o e
  <1>1. CutoverSteps(cfg) = all  BY DEF CutoverSteps
  <1>2. a \in Seq(Commands) /\ Len(a) = 8  BY RetireProgram
  <1>3. b \in Seq(Commands) /\ Len(b) = 1  BY HookProgram
  <1>4. c \in Seq(Commands) /\ Len(c) = 3  BY StageProgram
  <1>5. d \in Seq(Commands) /\ Len(d) = 2  BY StartProgram
  <1>6. e \in Seq(Commands) /\ Len(e) = 5  BY PlaneProgram
  <1>7. Joined(ab, a, b, 8, 1)
    <2> HIDE DEF a, b
    <2>1. ab = a \o b  OBVIOUS
    <2>2. a \in Seq(Commands) /\ Len(a) = 8  BY <1>2
    <2> QED  BY <2>1, <2>2, <1>3, Join
  <1>8. Joined(abc, ab, c, 9, 3)
    <2> HIDE DEF ab, c
    <2>1. abc = ab \o c  OBVIOUS
    <2>2. ab \in Seq(Commands) /\ Len(ab) = 9  BY <1>7 DEF Joined
    <2> QED  BY <2>1, <2>2, <1>4, Join
  <1>9. Joined(abcd, abc, d, 12, 2)
    <2> HIDE DEF abc, d
    <2>1. abcd = abc \o d  OBVIOUS
    <2>2. abc \in Seq(Commands) /\ Len(abc) = 12  BY <1>8 DEF Joined
    <2> QED  BY <2>1, <2>2, <1>5, Join
  <1>10. Joined(all, abcd, e, 14, 5)
    <2> HIDE DEF abcd, e
    <2>1. all = abcd \o e  OBVIOUS
    <2>2. abcd \in Seq(Commands) /\ Len(abcd) = 14  BY <1>9 DEF Joined
    <2> QED  BY <2>1, <2>2, <1>6, Join
  <1> HIDE DEF ab, abc, abcd, all, a, b, c, d, e
  <1>11. \A i \in 1 .. 8 : all[i] = a[i]
    <2> TAKE i \in 1 .. 8
    <2>1. i \in 1 .. 9 /\ i \in 1 .. 12 /\ i \in 1 .. 14  OBVIOUS
    <2>2. ab[i] = a[i]  BY <1>7 DEF Joined
    <2>3. abc[i] = ab[i]  BY <2>1, <1>8 DEF Joined
    <2>4. abcd[i] = abc[i]  BY <2>1, <1>9 DEF Joined
    <2>5. all[i] = abcd[i]  BY <2>1, <1>10 DEF Joined
    <2> QED  BY <2>2, <2>3, <2>4, <2>5
  <1>12. all[9] = b[1]
    <2>1. ab[8 + 1] = b[1]  BY <1>7 DEF Joined
    <2> QED  BY <2>1, <1>8, <1>9, <1>10 DEF Joined
  <1>13. all[10] = c[1] /\ all[11] = c[2] /\ all[12] = c[3]
    <2>1. abc[9 + 1] = c[1] /\ abc[9 + 2] = c[2] /\ abc[9 + 3] = c[3]  BY <1>8 DEF Joined
    <2> QED  BY <2>1, <1>9, <1>10 DEF Joined
  <1>14. all[13] = d[1] /\ all[14] = d[2]
    <2>1. abcd[12 + 1] = d[1] /\ abcd[12 + 2] = d[2]  BY <1>9 DEF Joined
    <2> QED  BY <2>1, <1>10 DEF Joined
  <1>15. all[15] = e[1] /\ all[16] = e[2] /\ all[17] = e[3] /\ all[18] = e[4] /\ all[19] = e[5]
    <2>1. /\ all[14 + 1] = e[1] /\ all[14 + 2] = e[2] /\ all[14 + 3] = e[3] /\ all[14 + 4] = e[4]
          /\ all[14 + 5] = e[5]
      BY <1>10 DEF Joined
    <2> QED  BY <2>1
  <1>16. Len(all) = 19  BY <1>10 DEF Joined
  <1>17. /\ all[1] = Cmd("x-", "hook50") /\ all[2] = Cmd("x-", "cron")
         /\ all[3] = Try("stop", Services[1]) /\ all[4] = Cmd("x-", Services[1])
         /\ all[5] = Try("stop", Services[2]) /\ all[6] = Cmd("x-", Services[2])
         /\ all[7] = Try("stop", Services[3]) /\ all[8] = Cmd("x-", Services[3])
    BY <1>11, RetireProgram DEF a
  <1>18. all[9] = Cmd("put", "hook")  BY <1>12, HookProgram DEF b
  <1>19. all[10] = Cmd("scan", "dir") /\ all[11] = Cmd("snap", "config") /\ all[12] = Cmd("write", cfg)
    BY <1>13, StageProgram DEF c
  <1>20. all[13] = Cmd("check", "config") /\ all[14] = Cmd("restart", "sing-box")  BY <1>14, StartProgram DEF d
  <1>21. /\ all[15] = Cmd("gateway", "wan") /\ all[16] = Cmd("route", "bypass") /\ all[17] = Cmd("route", "local")
         /\ all[18] = Cmd("route", "mgmt") /\ all[19] = Cmd("route", "default")
    BY <1>15, PlaneProgram DEF e
  <1> QED  BY <1>1, <1>16, <1>17, <1>18, <1>19, <1>20, <1>21

(* The rollback, and the part each of its commands belongs to. *)
Of(p, c) == [c EXCEPT !.part = p]
LEMMA RollbackProgram ==
  LET p == RollbackSteps
  IN /\ Len(p) = 16
     /\ p[1] = Of("config", Cmd("restore", "config")) /\ p[2] = Of("config", Try("unsnap", "config"))
     /\ p[3] = Of("restart", Cmd("restart", "sing-box")) /\ p[4] = Of("hook", Cmd("rm", "hook"))
     /\ p[5] = Of("kernel", Try("unroute", "default")) /\ p[6] = Of("kernel", Try("unroute", "mgmt"))
     /\ p[7] = Of("kernel", Try("unroute", "local")) /\ p[8] = Of("kernel", Try("unroute", "bypass"))
     /\ p[9] = Of("old", Cmd("x+", Services[1])) /\ p[10] = Of("old", Cmd("start", Services[1]))
     /\ p[11] = Of("old", Cmd("x+", Services[2])) /\ p[12] = Of("old", Cmd("start", Services[2]))
     /\ p[13] = Of("old", Cmd("x+", Services[3])) /\ p[14] = Of("old", Cmd("start", Services[3]))
     /\ p[15] = Of("old", Cmd("x+", "cron")) /\ p[16] = Of("old", Cmd("x+", "hook50"))
  <1> DEFINE a == InPart("config", RestoreSingboxConfig)
             b == InPart("restart", <<Cmd("restart", "sing-box")>>)
             c == InPart("hook", RemoveNetfilterHook)
             d == InPart("kernel", TeardownKernelPlane)
             e == InPart("old", RestoreOldStack)
             ab == a \o b
             abc == ab \o c
             abcd == abc \o d
             all == abcd \o e
  <1>1. RollbackSteps = all  BY DEF RollbackSteps
  <1>2. /\ a \in Seq(Commands) /\ Len(a) = 2
        /\ \A i \in 1 .. 2 : a[i] = Of("config", RestoreSingboxConfig[i])
    <2>1. "config" \in Words  BY DEF Words
    <2> QED  BY <2>1, UnstageProgram, InPartOK DEF Of
  <1>3. /\ b \in Seq(Commands) /\ Len(b) = 1
        /\ \A i \in 1 .. 1 : b[i] = Of("restart", <<Cmd("restart", "sing-box")>>[i])
    <2>1. "restart" \in Words  BY DEF Words
    <2> QED  BY <2>1, AgainProgram, InPartOK DEF Of
  <1>4. /\ c \in Seq(Commands) /\ Len(c) = 1
        /\ \A i \in 1 .. 1 : c[i] = Of("hook", RemoveNetfilterHook[i])
    <2>1. "hook" \in Words  BY DEF Words
    <2> QED  BY <2>1, UnhookProgram, InPartOK DEF Of
  <1>5. /\ d \in Seq(Commands) /\ Len(d) = 4
        /\ \A i \in 1 .. 4 : d[i] = Of("kernel", TeardownKernelPlane[i])
    <2>1. "kernel" \in Words  BY DEF Words
    <2> QED  BY <2>1, UnplaneProgram, InPartOK DEF Of
  <1>6. /\ e \in Seq(Commands) /\ Len(e) = 8
        /\ \A i \in 1 .. 8 : e[i] = Of("old", RestoreOldStack[i])
    <2>1. "old" \in Words  BY DEF Words
    <2> QED  BY <2>1, RestoreProgram, InPartOK DEF Of
  <1>7. Joined(ab, a, b, 2, 1)
    <2> HIDE DEF a, b
    <2>1. ab = a \o b  OBVIOUS
    <2>2. a \in Seq(Commands) /\ Len(a) = 2  BY <1>2
    <2> QED  BY <2>1, <2>2, <1>3, Join
  <1>8. Joined(abc, ab, c, 3, 1)
    <2> HIDE DEF ab, c
    <2>1. abc = ab \o c  OBVIOUS
    <2>2. ab \in Seq(Commands) /\ Len(ab) = 3  BY <1>7 DEF Joined
    <2> QED  BY <2>1, <2>2, <1>4, Join
  <1>9. Joined(abcd, abc, d, 4, 4)
    <2> HIDE DEF abc, d
    <2>1. abcd = abc \o d  OBVIOUS
    <2>2. abc \in Seq(Commands) /\ Len(abc) = 4  BY <1>8 DEF Joined
    <2> QED  BY <2>1, <2>2, <1>5, Join
  <1>10. Joined(all, abcd, e, 8, 8)
    <2> HIDE DEF abcd, e
    <2>1. all = abcd \o e  OBVIOUS
    <2>2. abcd \in Seq(Commands) /\ Len(abcd) = 8  BY <1>9 DEF Joined
    <2> QED  BY <2>1, <2>2, <1>6, Join
  <1> HIDE DEF ab, abc, abcd, all, a, b, c, d, e
  <1>11. all[1] = a[1] /\ all[2] = a[2]  BY <1>7, <1>8, <1>9, <1>10 DEF Joined
  <1>12. all[3] = b[1]
    <2>1. ab[2 + 1] = b[1]  BY <1>7 DEF Joined
    <2> QED  BY <2>1, <1>8, <1>9, <1>10 DEF Joined
  <1>13. all[4] = c[1]
    <2>1. abc[3 + 1] = c[1]  BY <1>8 DEF Joined
    <2> QED  BY <2>1, <1>9, <1>10 DEF Joined
  <1>14. all[5] = d[1] /\ all[6] = d[2] /\ all[7] = d[3] /\ all[8] = d[4]
    <2>1. abcd[4 + 1] = d[1] /\ abcd[4 + 2] = d[2] /\ abcd[4 + 3] = d[3] /\ abcd[4 + 4] = d[4]  BY <1>9 DEF Joined
    <2> QED  BY <2>1, <1>10 DEF Joined
  <1>15. /\ all[9] = e[1] /\ all[10] = e[2] /\ all[11] = e[3] /\ all[12] = e[4]
         /\ all[13] = e[5] /\ all[14] = e[6] /\ all[15] = e[7] /\ all[16] = e[8]
    <2>1. /\ all[8 + 1] = e[1] /\ all[8 + 2] = e[2] /\ all[8 + 3] = e[3] /\ all[8 + 4] = e[4]
          /\ all[8 + 5] = e[5] /\ all[8 + 6] = e[6] /\ all[8 + 7] = e[7] /\ all[8 + 8] = e[8]
      BY <1>10 DEF Joined
    <2> QED  BY <2>1
  <1>16. RestoreSingboxConfig[1] = Cmd("restore", "config") /\ RestoreSingboxConfig[2] = Try("unsnap", "config")
    BY UnstageProgram
  <1>17. <<Cmd("restart", "sing-box")>>[1] = Cmd("restart", "sing-box") /\ RemoveNetfilterHook[1] = Cmd("rm", "hook")
    BY AgainProgram, UnhookProgram
  <1>18. /\ all[1] = Of("config", Cmd("restore", "config")) /\ all[2] = Of("config", Try("unsnap", "config"))
         /\ all[3] = Of("restart", Cmd("restart", "sing-box")) /\ all[4] = Of("hook", Cmd("rm", "hook"))
    BY <1>2, <1>3, <1>4, <1>11, <1>12, <1>13, <1>16, <1>17
  <1>19. /\ all[5] = Of("kernel", TeardownKernelPlane[1]) /\ all[6] = Of("kernel", TeardownKernelPlane[2])
         /\ all[7] = Of("kernel", TeardownKernelPlane[3]) /\ all[8] = Of("kernel", TeardownKernelPlane[4])
    BY <1>5, <1>14
  <1>20. \A i \in 1 .. 8 : all[8 + i] = Of("old", RestoreOldStack[i])  BY <1>6, <1>10 DEF Joined
  <1>21. /\ all[9] = Of("old", RestoreOldStack[1]) /\ all[10] = Of("old", RestoreOldStack[2])
         /\ all[11] = Of("old", RestoreOldStack[3]) /\ all[12] = Of("old", RestoreOldStack[4])
         /\ all[13] = Of("old", RestoreOldStack[5]) /\ all[14] = Of("old", RestoreOldStack[6])
         /\ all[15] = Of("old", RestoreOldStack[7]) /\ all[16] = Of("old", RestoreOldStack[8])
    BY <1>6, <1>15
  <1> QED  BY <1>1, <1>10, <1>18, <1>19, <1>21, UnplaneProgram, RestoreProgram DEF Joined
-----------------------------------------------------------------------------
(* How a program moves on. *)
LEMMA LeastIs ==
  ASSUME NEW S \in SUBSET Nat, NEW m \in S, \A y \in S : m <= y
  PROVE  Min(S) = m
  <1>1. \A x \in S : (\A y \in S : x <= y) => x = m  OBVIOUS
  <1>2. Min(S) \in S /\ \A y \in S : Min(S) <= y  BY DEF Min
  <1> QED  BY <1>1, <1>2

(* A command was tried: f says that it failed. *)
Tried(f) ==
  /\ Proceed(f)
  /\ dev' = IF f THEN dev ELSE Effect(Program[at], dev)
  /\ f \/ ~Fails(Program[at], dev)
  /\ UNCHANGED <<kind, site, want>>

LEMMA OneTried == Do \/ CommandFails => \E f \in BOOLEAN : Tried(f)
  <1>1. CASE Do
    <2>1. Fails(Program[at], dev) \in BOOLEAN  BY DEF Fails
    <2> QED  BY <1>1, <2>1 DEF Do, Tried
  <1>2. CASE CommandFails
    <2>1. Tried(TRUE)  BY <1>2 DEF CommandFails, Tried
    <2> QED  BY <2>1
  <1> QED  BY <1>1, <1>2

(* A cutover goes on to its next command, or to the rollback. *)
LEMMA ForwardMoves ==
  ASSUME CutTypeOK, kind = "tun", phase = "forward", NEW f \in BOOLEAN, Tried(f)
  PROVE  LET bad == f /\ Program[at].must
         IN /\ bad => at' = 1 /\ phase' = "rollback" /\ UNCHANGED <<armed, errs, out>>
            /\ ~bad => errs' = errs
            /\ ~bad /\ at < 19 => at' = at + 1 /\ UNCHANGED <<phase, armed, out>>
            /\ ~bad /\ at = 19 => at' = 0 /\ phase' = "idle" /\ armed' = TRUE /\ out' = "ok"
  <1> DEFINE bad == f /\ Program[at].must
             rest == {i \in at + 1 .. Len(Program) : bad => Program[i].part # Program[at].part}
  <1>1. want \in {"good", "bad"} /\ at \in 1 .. 19  BY DEF CutTypeOK
  <1>2. Len(Program) = 19  BY <1>1, CutoverProgram DEF Program
  <1>3. CASE bad  BY <1>3 DEF Tried, Proceed
  <1>4. CASE ~bad
    <2>1. rest = at + 1 .. 19  BY <1>2, <1>4
    <2>2. at < 19 => rest # {} /\ Min(rest) = at + 1
      <3> SUFFICES ASSUME at < 19 PROVE rest # {} /\ Min(rest) = at + 1  OBVIOUS
      <3>1. rest \in SUBSET Nat /\ at + 1 \in rest /\ \A y \in rest : at + 1 <= y  BY <1>1, <2>1
      <3> HIDE DEF rest
      <3> QED  BY <3>1, LeastIs
    <2>3. at = 19 => rest = {}  BY <2>1
    <2>4. errs' = errs /\ (IF rest # {} THEN at' = Min(rest) /\ UNCHANGED <<phase, armed, out>>
               ELSE /\ at' = 0 /\ phase' = "idle" /\ armed' = (phase = "forward" /\ kind = "tun")
                    /\ out' = "ok")
      BY <1>4 DEF Tried, Proceed
    <2> HIDE DEF rest
    <2> QED  BY <1>4, <2>2, <2>3, <2>4
  <1> QED  BY <1>3, <1>4

(* A rollback skips the rest of a part that failed. *)
LEMMA RollbackMoves ==
  ASSUME CutTypeOK, kind = "tun", phase = "rollback", NEW f \in BOOLEAN, Tried(f)
  PROVE  LET bad == f /\ Program[at].must
         IN /\ Program = RollbackSteps
            /\ bad => errs' = errs \cup {Parts[at]}
            /\ bad /\ at < 9 => /\ at' = IF at <= 2 THEN 3 ELSE IF at = 3 THEN 4 ELSE IF at = 4 THEN 5 ELSE 9
                                /\ UNCHANGED <<phase, armed, out>>
            /\ ~bad => errs' = errs
            /\ ~bad /\ at < 16 => at' = at + 1 /\ UNCHANGED <<phase, armed, out>>
            /\ (bad /\ at >= 9) \/ (~bad /\ at = 16) =>
                 /\ at' = 0 /\ phase' = "idle" /\ armed' = FALSE
                 /\ out' = IF errs' = {} THEN "undone" ELSE "failed"
  <1> DEFINE bad == f /\ Program[at].must
             rest == {i \in at + 1 .. Len(Program) : bad => Program[i].part # Program[at].part}
             next == IF at <= 2 THEN 3 ELSE IF at = 3 THEN 4 ELSE IF at = 4 THEN 5 ELSE 9
  <1>1. at \in 1 .. 16 /\ Program = RollbackSteps  BY DEF CutTypeOK, Program
  <1>2. Len(Program) = 16  BY <1>1, RollbackProgram
  <1>3. \A p, do, on : Of(p, Cmd(do, on)).part = p /\ Of(p, Try(do, on)).part = p  BY DEF Of, Cmd, Try
  <1>4. \A i \in 1 .. 16 : Program[i].part = Parts[i]
    BY <1>1, <1>3, RollbackProgram DEF Parts
  <1>5. errs' = (IF bad THEN errs \cup {Parts[at]} ELSE errs)
        /\ (IF rest # {} THEN at' = Min(rest) /\ UNCHANGED <<phase, armed, out>>
               ELSE /\ at' = 0 /\ phase' = "idle" /\ armed' = FALSE
                    /\ out' = IF errs' = {} THEN "undone" ELSE "failed")
    BY <1>1, <1>4 DEF Tried, Proceed
  <1>6. ~bad /\ at < 16 => rest # {} /\ Min(rest) = at + 1
    <2> SUFFICES ASSUME ~bad, at < 16 PROVE rest # {} /\ Min(rest) = at + 1  OBVIOUS
    <2>1. rest \in SUBSET Nat /\ at + 1 \in rest /\ \A y \in rest : at + 1 <= y  BY <1>1, <1>2
    <2> HIDE DEF rest
    <2> QED  BY <2>1, LeastIs
  <1>7. bad /\ at < 9 => rest # {} /\ Min(rest) = next
    <2> SUFFICES ASSUME bad, at < 9 PROVE rest # {} /\ Min(rest) = next  OBVIOUS
    <2>1. rest = {i \in at + 1 .. 16 : Parts[i] # Parts[at]}  BY <1>1, <1>2, <1>4
    <2>2. /\ Parts[1] = "config" /\ Parts[2] = "config" /\ Parts[3] = "restart" /\ Parts[4] = "hook"
          /\ Parts[5] = "kernel" /\ Parts[6] = "kernel" /\ Parts[7] = "kernel" /\ Parts[8] = "kernel"
          /\ Parts[9] = "old"
      BY DEF Parts
    <2>3. next \in at + 1 .. 16 /\ Parts[next] # Parts[at]  BY <1>1, <2>2
    <2>4. \A y \in at + 1 .. 16 : y < next => Parts[y] = Parts[at]
      <3>1. CASE at \in {1, 2}  BY <2>2, <3>1
      <3>2. CASE at \in {3, 4}  BY <2>2, <3>2
      <3>3. CASE at \in 5 .. 8  BY <2>2, <3>3
      <3> QED  BY <1>1, <3>1, <3>2, <3>3
    <2>5. rest \in SUBSET Nat /\ next \in rest /\ \A y \in rest : next <= y  BY <1>1, <2>1, <2>3, <2>4
    <2> HIDE DEF rest, next
    <2> QED  BY <2>5, LeastIs
  <1>8. (bad /\ at >= 9) \/ (~bad /\ at = 16) => rest = {}
    <2>1. CASE ~bad /\ at = 16  BY <1>2, <2>1
    <2>2. CASE bad /\ at >= 9
      <3>1. rest = {i \in at + 1 .. 16 : Parts[i] # Parts[at]}  BY <1>1, <1>2, <1>4, <2>2
      <3>2. \A i \in 9 .. 16 : Parts[i] = "old"  BY DEF Parts
      <3> QED  BY <1>1, <2>2, <3>1, <3>2
    <2> QED  BY <2>1, <2>2
  <1> HIDE DEF rest
  <1> QED  BY <1>1, <1>5, <1>6, <1>7, <1>8

(* The scripts: no command of theirs fails, and none is looked at. *)
LEMMA ScriptMoves ==
  ASSUME CutTypeOK, Device, kind = "kernel", phase # "idle", NEW f \in BOOLEAN, Tried(f)
  PROVE  /\ Program = (IF phase = "forward" THEN EmitCutoverScript ELSE EmitRollbackScript)
         /\ ~Program[at].must /\ errs' = errs
         /\ at < 8 => at' = at + 1 /\ UNCHANGED <<phase, armed, out>>
         /\ at = 8 => at' = 0 /\ phase' = "idle" /\ armed' = FALSE
                    /\ out' = IF phase = "forward" THEN "ok" ELSE "undone"
  <1> DEFINE rest == {i \in at + 1 .. Len(Program) : TRUE}
  <1>1. at \in 1 .. 8 /\ Program = (IF phase = "forward" THEN EmitCutoverScript ELSE EmitRollbackScript)
    BY DEF CutTypeOK, Program
  <1>2. Len(Program) = 8  BY <1>1, ScriptProgram, ScriptBackProgram
  <1>3. ~Program[at].must
    <2>1. \A do, on : ~Try(do, on).must  BY DEF Try, Cmd
    <2>2. phase = "forward" => ~Program[at].must  BY <1>1, <2>1, ScriptProgram
    <2>3. phase # "forward" => ~Program[at].must  BY <1>1, <2>1, ScriptBackProgram
    <2> QED  BY <2>2, <2>3
  <1>4. errs = {}  BY DEF Device
  <1>5. errs' = errs /\ (IF rest # {} THEN at' = Min(rest) /\ UNCHANGED <<phase, armed, out>>
               ELSE /\ at' = 0 /\ phase' = "idle" /\ armed' = FALSE
                    /\ out' = IF phase = "forward" THEN "ok" ELSE "undone")
    BY <1>3, <1>4 DEF Tried, Proceed
  <1>6. at < 8 => rest # {} /\ Min(rest) = at + 1
    <2> SUFFICES ASSUME at < 8 PROVE rest # {} /\ Min(rest) = at + 1  OBVIOUS
    <2>1. rest = at + 1 .. 8  BY <1>2
    <2>2. rest \in SUBSET Nat /\ at + 1 \in rest /\ \A y \in rest : at + 1 <= y  BY <1>1, <2>1
    <2> HIDE DEF rest
    <2> QED  BY <2>2, LeastIs
  <1>7. at = 8 => rest = {}  BY <1>2
  <1> HIDE DEF rest
  <1> QED  BY <1>1, <1>3, <1>5, <1>6, <1>7

-----------------------------------------------------------------------------
(* What the commands do. *)
LEMMA Names ==
  /\ Services[1] = "S80keen-pbr" /\ Services[2] = "S87default_via_nl" /\ Services[3] = "S89hy_failover"
  /\ KeenPBR = "S80keen-pbr" /\ Units = {"S80keen-pbr", "S87default_via_nl", "S89hy_failover"}
  /\ OldStack = {"S80keen-pbr", "S87default_via_nl", "S89hy_failover", "cron", "hook50"}
  BY UnitsAre DEF Services, KeenPBR, OldStack

LEMMA CmdIs ==
  ASSUME NEW do, NEW on, NEW p
  PROVE  /\ Cmd(do, on).do = do /\ Cmd(do, on).on = on /\ Cmd(do, on).must
         /\ Try(do, on).do = do /\ Try(do, on).on = on /\ ~Try(do, on).must
         /\ Of(p, Cmd(do, on)).do = do /\ Of(p, Cmd(do, on)).on = on /\ Of(p, Cmd(do, on)).must
         /\ Of(p, Try(do, on)).do = do /\ Of(p, Try(do, on)).on = on /\ ~Of(p, Try(do, on)).must
  BY DEF Cmd, Try, Of

(* The commands leave a device a device. *)
LEMMA StaysDevice ==
  ASSUME NEW d \in Devices, NEW c,
         \/ c.do \in {"x-", "unroute", "rm", "stop", "snap", "restore", "unsnap", "restart", "plane", "scan", "check", "gateway"}
         \/ c.do = "x+" /\ c.on \in OldStack
         \/ c.do = "start" /\ c.on \in Units
         \/ c.do = "put" /\ c.on \in WrFiles
         \/ c.do = "write" /\ c.on \in Confs
         \/ c.do = "route" /\ c.on \in Routes
  PROVE  Effect(c, d) \in Devices
  <1>1. CASE c.do = "x-"
    <2>1. Effect(c, d) = [d EXCEPT !.x = @ \ {c.on}]  BY <1>1 DEF Effect
    <2> QED  BY <1>1, <2>1 DEF Devices
  <1>2. CASE c.do = "x+" /\ c.on \in OldStack
    <2>1. Effect(c, d) = [d EXCEPT !.x = @ \cup {c.on}]  BY <1>2 DEF Effect
    <2> QED  BY <1>2, <2>1 DEF Devices
  <1>3. CASE c.do = "stop"
    <2>1. Effect(c, d) = [d EXCEPT !.up = @ \ {c.on}, !.fw = @ /\ c.on # KeenPBR]  BY <1>3 DEF Effect
    <2> QED  BY <1>3, <2>1 DEF Devices
  <1>4. CASE c.do = "start" /\ c.on \in Units
    <2>1. Effect(c, d) = [d EXCEPT !.up = @ \cup {c.on}, !.fw = @ \/ c.on = KeenPBR]  BY <1>4 DEF Effect
    <2>2. (d.fw \/ c.on = KeenPBR) \in BOOLEAN  BY DEF Devices
    <2> DEFINE z == d.fw \/ c.on = KeenPBR
    <2>3. Effect(c, d) = [d EXCEPT !.up = @ \cup {c.on}, !.fw = z]  BY <2>1
    <2> HIDE DEF z
    <2>4. z \in BOOLEAN  BY <2>2 DEF z
    <2>5. \A b \in BOOLEAN : \A u \in SUBSET Units : [d EXCEPT !.up = u, !.fw = b] \in Devices  BY DEF Devices
    <2>6. d.up \cup {c.on} \in SUBSET Units  BY <1>4 DEF Devices
    <2> QED  BY <2>3, <2>4, <2>5, <2>6
  <1>5. CASE c.do = "put" /\ c.on \in WrFiles
    <2>1. Effect(c, d) = [d EXCEPT !.files = @ \cup {c.on}]  BY <1>5 DEF Effect
    <2> QED  BY <1>5, <2>1 DEF Devices
  <1>6. CASE c.do = "rm"
    <2>1. Effect(c, d) = [d EXCEPT !.files = @ \ {c.on}]  BY <1>6 DEF Effect
    <2> QED  BY <1>6, <2>1 DEF Devices
  <1>7. CASE c.do = "snap"
    <2>1. Effect(c, d) = IF d.snap = "none" THEN [d EXCEPT !.snap = d.conf] ELSE d  BY <1>7 DEF Effect
    <2> QED  BY <1>7, <2>1 DEF Devices, Running, Confs
  <1>8. CASE c.do = "write" /\ c.on \in Confs
    <2>1. Effect(c, d) = [d EXCEPT !.conf = c.on]  BY <1>8 DEF Effect
    <2> QED  BY <1>8, <2>1 DEF Devices
  <1>9. CASE c.do = "restore"
    <2>1. Effect(c, d) = IF d.snap = "none" THEN d ELSE [d EXCEPT !.conf = d.snap]  BY <1>9 DEF Effect
    <2> QED  BY <1>9, <2>1 DEF Devices, Running, Confs
  <1>10. CASE c.do = "unsnap"
    <2>1. Effect(c, d) = [d EXCEPT !.snap = "none"]  BY <1>10 DEF Effect
    <2> QED  BY <1>10, <2>1 DEF Devices, Running, Confs
  <1>11. CASE c.do = "restart"
    <2>1. Effect(c, d) = [d EXCEPT !.core = Running(d.conf), !.routes = @ \ {"default"}]  BY <1>11 DEF Effect
    <2> QED  BY <1>11, <2>1 DEF Devices, Running, Confs
  <1>12. CASE c.do = "route" /\ c.on \in Routes
    <2>1. Effect(c, d) = [d EXCEPT !.routes = @ \cup {c.on}]  BY <1>12 DEF Effect
    <2> QED  BY <1>12, <2>1 DEF Devices
  <1>13. CASE c.do = "unroute"
    <2>1. Effect(c, d) = [d EXCEPT !.routes = @ \ {c.on}]  BY <1>13 DEF Effect
    <2> QED  BY <1>13, <2>1 DEF Devices
  <1>14. CASE c.do = "plane"
    <2>1. Effect(c, d) = [d EXCEPT !.plane = c.on = "on"]  BY <1>14 DEF Effect
    <2> QED  BY <1>14, <2>1 DEF Devices
  <1>15. CASE c.do \in {"scan", "check", "gateway"}  BY <1>15 DEF Effect
  <1> QED  BY <1>1, <1>2, <1>3, <1>4, <1>5, <1>6, <1>7, <1>8, <1>9, <1>10, <1>11, <1>12, <1>13, <1>14, <1>15

-----------------------------------------------------------------------------
(* The steps keep the invariant: one case per command. *)
LEMMA TriedDevice ==
  ASSUME CutTypeOK, NEW f \in BOOLEAN, Tried(f), Effect(Program[at], dev) \in Devices
  PROVE  dev' \in Devices
  BY DEF CutTypeOK, Tried, Devices

LEMMA ForwardStep ==
  ASSUME CutInv, kind = "tun", phase = "forward", NEW f \in BOOLEAN, Tried(f), tally' \in [cut : Nat, fault : Nat, reboot : Nat]
  PROVE  CutInv'
  <1>1. CutTypeOK /\ Device /\ Forward /\ errs = {} /\ out = "none"  BY DEF CutInv
  <1>2. UNCHANGED <<kind, site, want>> /\ dev' = IF f THEN dev ELSE Effect(Program[at], dev)  BY DEF Tried
  <1>3. dev \in Devices /\ want \in {"good", "bad"} /\ at \in 1 .. 19  BY <1>1 DEF CutTypeOK
  <1>4. Program = CutoverSteps(want)  BY DEF Program
  <1>5. CASE f /\ Program[at].must
    <2>1. at' = 1 /\ phase' = "rollback" /\ UNCHANGED <<armed, errs, out, dev>>  BY <1>1, <1>5, ForwardMoves DEF Tried
    <2>2. CutTypeOK'  BY <1>1, <1>2, <2>1 DEF CutTypeOK
    <2>3. Device'  BY <1>1, <1>2, <2>1 DEF Device
    <2>4. Backward'  BY <1>1, <2>1 DEF Backward, Undone
    <2> QED  BY <1>1, <1>2, <2>1, <2>2, <2>3, <2>4 DEF CutInv, Forward, Script, ScriptBack, AllOrNothing
  <1>6. ASSUME ~(f /\ Program[at].must), at < 19, Device', Forward', dev' \in Devices
        PROVE  CutInv'
    <2>1. at' = at + 1 /\ UNCHANGED <<phase, armed, out, errs>>  BY <1>1, <1>6, ForwardMoves
    <2>2. CutTypeOK'  BY <1>1, <1>2, <1>3, <1>6, <2>1 DEF CutTypeOK
    <2> QED  BY <1>1, <1>2, <1>6, <2>1, <2>2 DEF CutInv, Script, Backward, ScriptBack, AllOrNothing
  <1>7. CASE at = 1 /\ ~(f /\ Program[at].must)
    <2>1. Program[at] = Cmd("x-", "hook50")  BY <1>3, <1>4, <1>7, CutoverProgram
    <2>2. Program[at].do = "x-" /\ Program[at].on = "hook50" /\ Program[at].must  BY <2>1, CmdIs
    <2>3. Effect(Program[at], dev) = [dev EXCEPT !.x = @ \ {"hook50"}]  BY <2>2 DEF Effect
    <2>4. Effect(Program[at], dev) \in Devices
      BY <1>3, <2>2, StaysDevice
    <2>5. dev' \in Devices  BY <1>1, <2>4, TriedDevice
    <2>6. dev' = [dev EXCEPT !.x = @ \ {"hook50"}]  BY <1>2, <1>7, <2>2, <2>3
    <2>7. errs' = errs /\ at' = 2 /\ UNCHANGED <<phase, armed, out>>  BY <1>1, <1>7, ForwardMoves
    <2>9. Device'  BY <1>1, <1>2, <1>3, <1>7, <2>5, <2>6, <2>7, Names DEF Device, Forward, Devices, WrFiles, Confs
    <2>10. Forward'  BY <1>1, <1>2, <1>3, <1>7, <2>5, <2>6, <2>7, Names DEF Forward, Devices
    <2> QED  BY <1>6, <1>7, <2>5, <2>9, <2>10
  <1>8. CASE at = 2 /\ ~(f /\ Program[at].must)
    <2>1. Program[at] = Cmd("x-", "cron")  BY <1>3, <1>4, <1>8, CutoverProgram
    <2>2. Program[at].do = "x-" /\ Program[at].on = "cron" /\ Program[at].must  BY <2>1, CmdIs
    <2>3. Effect(Program[at], dev) = [dev EXCEPT !.x = @ \ {"cron"}]  BY <2>2 DEF Effect
    <2>4. Effect(Program[at], dev) \in Devices
      BY <1>3, <2>2, StaysDevice
    <2>5. dev' \in Devices  BY <1>1, <2>4, TriedDevice
    <2>6. dev' = [dev EXCEPT !.x = @ \ {"cron"}]  BY <1>2, <1>8, <2>2, <2>3
    <2>7. errs' = errs /\ at' = 3 /\ UNCHANGED <<phase, armed, out>>  BY <1>1, <1>8, ForwardMoves
    <2>9. Device'  BY <1>1, <1>2, <1>3, <1>8, <2>5, <2>6, <2>7, Names DEF Device, Forward, Devices, WrFiles, Confs
    <2>10. Forward'  BY <1>1, <1>2, <1>3, <1>8, <2>5, <2>6, <2>7, Names DEF Forward, Devices
    <2> QED  BY <1>6, <1>8, <2>5, <2>9, <2>10
  <1>9. CASE at = 3 /\ ~(f /\ Program[at].must)
    <2>1. Program[at] = Try("stop", Services[1])  BY <1>3, <1>4, <1>9, CutoverProgram
    <2>2. Program[at].do = "stop" /\ Program[at].on = Services[1] /\ ~Program[at].must  BY <2>1, CmdIs
    <2>3. Effect(Program[at], dev) = [dev EXCEPT !.up = @ \ {Services[1]}, !.fw = @ /\ Services[1] # KeenPBR]  BY <2>2 DEF Effect
    <2>4. Effect(Program[at], dev) \in Devices
      BY <1>3, <2>2, StaysDevice
    <2>5. dev' \in Devices  BY <1>1, <2>4, TriedDevice
    <2>6. \/ dev' = dev
          \/ \E z \in BOOLEAN : dev' = [dev EXCEPT !.up = @ \ {Services[1]}, !.fw = z] /\ (z => dev.fw /\ Services[1] # KeenPBR)
      <3> DEFINE z == dev.fw /\ Services[1] # KeenPBR
      <3>1. z \in BOOLEAN /\ (z => dev.fw /\ Services[1] # KeenPBR)  OBVIOUS
      <3>2. dev' = dev \/ dev' = [dev EXCEPT !.up = @ \ {Services[1]}, !.fw = z]  BY <1>2, <2>3
      <3> HIDE DEF z
      <3> QED  BY <3>1, <3>2
    <2>8. /\ dev'.x = dev.x /\ dev'.files = dev.files /\ dev'.plane = dev.plane /\ dev'.conf = dev.conf
          /\ dev'.snap = dev.snap /\ dev'.core = dev.core /\ dev'.routes = dev.routes
          /\ dev'.fw => dev.fw /\ (KeenPBR \in dev.up => KeenPBR \in dev'.up)
      <3>1. CASE dev' = dev  BY <3>1
      <3>2. CASE dev' # dev
        <4>1. PICK z \in BOOLEAN : dev' = [dev EXCEPT !.up = @ \ {Services[1]}, !.fw = z] /\ (z => dev.fw /\ Services[1] # KeenPBR)
          BY <2>6, <3>2
        <4> QED  BY <1>3, <4>1 DEF Devices
      <3> QED  BY <3>1, <3>2
    <2>7. errs' = errs /\ at' = 4 /\ UNCHANGED <<phase, armed, out>>  BY <1>1, <1>9, ForwardMoves
    <2>9. Device'  BY <1>1, <1>2, <1>3, <1>9, <2>5, <2>8, <2>7, Names DEF Device, Forward, Devices, WrFiles, Confs
    <2>10. Forward'  BY <1>1, <1>2, <1>3, <1>9, <2>5, <2>8, <2>7, Names DEF Forward, Devices
    <2> QED  BY <1>6, <1>9, <2>5, <2>9, <2>10
  <1>10. CASE at = 4 /\ ~(f /\ Program[at].must)
    <2>1. Program[at] = Cmd("x-", Services[1])  BY <1>3, <1>4, <1>10, CutoverProgram
    <2>2. Program[at].do = "x-" /\ Program[at].on = Services[1] /\ Program[at].must  BY <2>1, CmdIs
    <2>3. Effect(Program[at], dev) = [dev EXCEPT !.x = @ \ {Services[1]}]  BY <2>2 DEF Effect
    <2>4. Effect(Program[at], dev) \in Devices
      BY <1>3, <2>2, StaysDevice
    <2>5. dev' \in Devices  BY <1>1, <2>4, TriedDevice
    <2>6. dev' = [dev EXCEPT !.x = @ \ {Services[1]}]  BY <1>2, <1>10, <2>2, <2>3
    <2>7. errs' = errs /\ at' = 5 /\ UNCHANGED <<phase, armed, out>>  BY <1>1, <1>10, ForwardMoves
    <2>9. Device'  BY <1>1, <1>2, <1>3, <1>10, <2>5, <2>6, <2>7, Names DEF Device, Forward, Devices, WrFiles, Confs
    <2>10. Forward'  BY <1>1, <1>2, <1>3, <1>10, <2>5, <2>6, <2>7, Names DEF Forward, Devices
    <2> QED  BY <1>6, <1>10, <2>5, <2>9, <2>10
  <1>11. CASE at = 5 /\ ~(f /\ Program[at].must)
    <2>1. Program[at] = Try("stop", Services[2])  BY <1>3, <1>4, <1>11, CutoverProgram
    <2>2. Program[at].do = "stop" /\ Program[at].on = Services[2] /\ ~Program[at].must  BY <2>1, CmdIs
    <2>3. Effect(Program[at], dev) = [dev EXCEPT !.up = @ \ {Services[2]}, !.fw = @ /\ Services[2] # KeenPBR]  BY <2>2 DEF Effect
    <2>4. Effect(Program[at], dev) \in Devices
      BY <1>3, <2>2, StaysDevice
    <2>5. dev' \in Devices  BY <1>1, <2>4, TriedDevice
    <2>6. \/ dev' = dev
          \/ \E z \in BOOLEAN : dev' = [dev EXCEPT !.up = @ \ {Services[2]}, !.fw = z] /\ (z => dev.fw /\ Services[2] # KeenPBR)
      <3> DEFINE z == dev.fw /\ Services[2] # KeenPBR
      <3>1. z \in BOOLEAN /\ (z => dev.fw /\ Services[2] # KeenPBR)  OBVIOUS
      <3>2. dev' = dev \/ dev' = [dev EXCEPT !.up = @ \ {Services[2]}, !.fw = z]  BY <1>2, <2>3
      <3> HIDE DEF z
      <3> QED  BY <3>1, <3>2
    <2>8. /\ dev'.x = dev.x /\ dev'.files = dev.files /\ dev'.plane = dev.plane /\ dev'.conf = dev.conf
          /\ dev'.snap = dev.snap /\ dev'.core = dev.core /\ dev'.routes = dev.routes
          /\ dev'.fw => dev.fw /\ (KeenPBR \in dev.up => KeenPBR \in dev'.up)
      <3>1. CASE dev' = dev  BY <3>1
      <3>2. CASE dev' # dev
        <4>1. PICK z \in BOOLEAN : dev' = [dev EXCEPT !.up = @ \ {Services[2]}, !.fw = z] /\ (z => dev.fw /\ Services[2] # KeenPBR)
          BY <2>6, <3>2
        <4> QED  BY <1>3, <4>1 DEF Devices
      <3> QED  BY <3>1, <3>2
    <2>7. errs' = errs /\ at' = 6 /\ UNCHANGED <<phase, armed, out>>  BY <1>1, <1>11, ForwardMoves
    <2>9. Device'  BY <1>1, <1>2, <1>3, <1>11, <2>5, <2>8, <2>7, Names DEF Device, Forward, Devices, WrFiles, Confs
    <2>10. Forward'  BY <1>1, <1>2, <1>3, <1>11, <2>5, <2>8, <2>7, Names DEF Forward, Devices
    <2> QED  BY <1>6, <1>11, <2>5, <2>9, <2>10
  <1>12. CASE at = 6 /\ ~(f /\ Program[at].must)
    <2>1. Program[at] = Cmd("x-", Services[2])  BY <1>3, <1>4, <1>12, CutoverProgram
    <2>2. Program[at].do = "x-" /\ Program[at].on = Services[2] /\ Program[at].must  BY <2>1, CmdIs
    <2>3. Effect(Program[at], dev) = [dev EXCEPT !.x = @ \ {Services[2]}]  BY <2>2 DEF Effect
    <2>4. Effect(Program[at], dev) \in Devices
      BY <1>3, <2>2, StaysDevice
    <2>5. dev' \in Devices  BY <1>1, <2>4, TriedDevice
    <2>6. dev' = [dev EXCEPT !.x = @ \ {Services[2]}]  BY <1>2, <1>12, <2>2, <2>3
    <2>7. errs' = errs /\ at' = 7 /\ UNCHANGED <<phase, armed, out>>  BY <1>1, <1>12, ForwardMoves
    <2>9. Device'  BY <1>1, <1>2, <1>3, <1>12, <2>5, <2>6, <2>7, Names DEF Device, Forward, Devices, WrFiles, Confs
    <2>10. Forward'  BY <1>1, <1>2, <1>3, <1>12, <2>5, <2>6, <2>7, Names DEF Forward, Devices
    <2> QED  BY <1>6, <1>12, <2>5, <2>9, <2>10
  <1>13. CASE at = 7 /\ ~(f /\ Program[at].must)
    <2>1. Program[at] = Try("stop", Services[3])  BY <1>3, <1>4, <1>13, CutoverProgram
    <2>2. Program[at].do = "stop" /\ Program[at].on = Services[3] /\ ~Program[at].must  BY <2>1, CmdIs
    <2>3. Effect(Program[at], dev) = [dev EXCEPT !.up = @ \ {Services[3]}, !.fw = @ /\ Services[3] # KeenPBR]  BY <2>2 DEF Effect
    <2>4. Effect(Program[at], dev) \in Devices
      BY <1>3, <2>2, StaysDevice
    <2>5. dev' \in Devices  BY <1>1, <2>4, TriedDevice
    <2>6. \/ dev' = dev
          \/ \E z \in BOOLEAN : dev' = [dev EXCEPT !.up = @ \ {Services[3]}, !.fw = z] /\ (z => dev.fw /\ Services[3] # KeenPBR)
      <3> DEFINE z == dev.fw /\ Services[3] # KeenPBR
      <3>1. z \in BOOLEAN /\ (z => dev.fw /\ Services[3] # KeenPBR)  OBVIOUS
      <3>2. dev' = dev \/ dev' = [dev EXCEPT !.up = @ \ {Services[3]}, !.fw = z]  BY <1>2, <2>3
      <3> HIDE DEF z
      <3> QED  BY <3>1, <3>2
    <2>8. /\ dev'.x = dev.x /\ dev'.files = dev.files /\ dev'.plane = dev.plane /\ dev'.conf = dev.conf
          /\ dev'.snap = dev.snap /\ dev'.core = dev.core /\ dev'.routes = dev.routes
          /\ dev'.fw => dev.fw /\ (KeenPBR \in dev.up => KeenPBR \in dev'.up)
      <3>1. CASE dev' = dev  BY <3>1
      <3>2. CASE dev' # dev
        <4>1. PICK z \in BOOLEAN : dev' = [dev EXCEPT !.up = @ \ {Services[3]}, !.fw = z] /\ (z => dev.fw /\ Services[3] # KeenPBR)
          BY <2>6, <3>2
        <4> QED  BY <1>3, <4>1 DEF Devices
      <3> QED  BY <3>1, <3>2
    <2>7. errs' = errs /\ at' = 8 /\ UNCHANGED <<phase, armed, out>>  BY <1>1, <1>13, ForwardMoves
    <2>9. Device'  BY <1>1, <1>2, <1>3, <1>13, <2>5, <2>8, <2>7, Names DEF Device, Forward, Devices, WrFiles, Confs
    <2>10. Forward'  BY <1>1, <1>2, <1>3, <1>13, <2>5, <2>8, <2>7, Names DEF Forward, Devices
    <2> QED  BY <1>6, <1>13, <2>5, <2>9, <2>10
  <1>14. CASE at = 8 /\ ~(f /\ Program[at].must)
    <2>1. Program[at] = Cmd("x-", Services[3])  BY <1>3, <1>4, <1>14, CutoverProgram
    <2>2. Program[at].do = "x-" /\ Program[at].on = Services[3] /\ Program[at].must  BY <2>1, CmdIs
    <2>3. Effect(Program[at], dev) = [dev EXCEPT !.x = @ \ {Services[3]}]  BY <2>2 DEF Effect
    <2>4. Effect(Program[at], dev) \in Devices
      BY <1>3, <2>2, StaysDevice
    <2>5. dev' \in Devices  BY <1>1, <2>4, TriedDevice
    <2>6. dev' = [dev EXCEPT !.x = @ \ {Services[3]}]  BY <1>2, <1>14, <2>2, <2>3
    <2>7. errs' = errs /\ at' = 9 /\ UNCHANGED <<phase, armed, out>>  BY <1>1, <1>14, ForwardMoves
    <2>9. Device'  BY <1>1, <1>2, <1>3, <1>14, <2>5, <2>6, <2>7, Names DEF Device, Forward, Devices, WrFiles, Confs
    <2>10. Forward'  BY <1>1, <1>2, <1>3, <1>14, <2>5, <2>6, <2>7, Names DEF Forward, Devices
    <2> QED  BY <1>6, <1>14, <2>5, <2>9, <2>10
  <1>15. CASE at = 9 /\ ~(f /\ Program[at].must)
    <2>1. Program[at] = Cmd("put", "hook")  BY <1>3, <1>4, <1>15, CutoverProgram
    <2>2. Program[at].do = "put" /\ Program[at].on = "hook" /\ Program[at].must  BY <2>1, CmdIs
    <2>3. Effect(Program[at], dev) = [dev EXCEPT !.files = @ \cup {"hook"}]  BY <2>2 DEF Effect
    <2>4. Effect(Program[at], dev) \in Devices
      <3>1. "hook" \in WrFiles  BY <1>3, Names DEF WrFiles
      <3> QED  BY <1>3, <2>2, <3>1, StaysDevice
    <2>5. dev' \in Devices  BY <1>1, <2>4, TriedDevice
    <2>6. dev' = [dev EXCEPT !.files = @ \cup {"hook"}]  BY <1>2, <1>15, <2>2, <2>3
    <2>7. errs' = errs /\ at' = 10 /\ UNCHANGED <<phase, armed, out>>  BY <1>1, <1>15, ForwardMoves
    <2>9. Device'  BY <1>1, <1>2, <1>3, <1>15, <2>5, <2>6, <2>7, Names DEF Device, Forward, Devices, WrFiles, Confs
    <2>10. Forward'  BY <1>1, <1>2, <1>3, <1>15, <2>5, <2>6, <2>7, Names DEF Forward, Devices
    <2> QED  BY <1>6, <1>15, <2>5, <2>9, <2>10
  <1>16. CASE at = 10 /\ ~(f /\ Program[at].must)
    <2>1. Program[at] = Cmd("scan", "dir")  BY <1>3, <1>4, <1>16, CutoverProgram
    <2>2. Program[at].do = "scan" /\ Program[at].on = "dir" /\ Program[at].must  BY <2>1, CmdIs
    <2>3. Effect(Program[at], dev) = dev  BY <2>2 DEF Effect
    <2>4. Effect(Program[at], dev) \in Devices
      BY <1>3, <2>2, StaysDevice
    <2>5. dev' \in Devices  BY <1>1, <2>4, TriedDevice
    <2>6. dev' = dev  BY <1>2, <1>16, <2>2, <2>3
    <2>7. errs' = errs /\ at' = 11 /\ UNCHANGED <<phase, armed, out>>  BY <1>1, <1>16, ForwardMoves
    <2>9. Device'  BY <1>1, <1>2, <1>3, <1>16, <2>5, <2>6, <2>7, Names DEF Device, Forward, Devices, WrFiles, Confs
    <2>10. Forward'  BY <1>1, <1>2, <1>3, <1>16, <2>5, <2>6, <2>7, Names DEF Forward, Devices
    <2> QED  BY <1>6, <1>16, <2>5, <2>9, <2>10
  <1>17. CASE at = 11 /\ ~(f /\ Program[at].must)
    <2>1. Program[at] = Cmd("snap", "config")  BY <1>3, <1>4, <1>17, CutoverProgram
    <2>2. Program[at].do = "snap" /\ Program[at].on = "config" /\ Program[at].must  BY <2>1, CmdIs
    <2>3. Effect(Program[at], dev) = IF dev.snap = "none" THEN [dev EXCEPT !.snap = dev.conf] ELSE dev  BY <2>2 DEF Effect
    <2>4. Effect(Program[at], dev) \in Devices
      BY <1>3, <2>2, StaysDevice
    <2>5. dev' \in Devices  BY <1>1, <2>4, TriedDevice
    <2>6. dev' = IF dev.snap = "none" THEN [dev EXCEPT !.snap = dev.conf] ELSE dev  BY <1>2, <1>17, <2>2, <2>3
    <2>7. errs' = errs /\ at' = 12 /\ UNCHANGED <<phase, armed, out>>  BY <1>1, <1>17, ForwardMoves
    <2>9. Device'  BY <1>1, <1>2, <1>3, <1>17, <2>5, <2>6, <2>7, Names DEF Device, Forward, Devices, WrFiles, Confs
    <2>10. Forward'  BY <1>1, <1>2, <1>3, <1>17, <2>5, <2>6, <2>7, Names DEF Forward, Devices, Device
    <2> QED  BY <1>6, <1>17, <2>5, <2>9, <2>10
  <1>18. CASE at = 12 /\ ~(f /\ Program[at].must)
    <2>1. Program[at] = Cmd("write", want)  BY <1>3, <1>4, <1>18, CutoverProgram
    <2>2. Program[at].do = "write" /\ Program[at].on = want /\ Program[at].must  BY <2>1, CmdIs
    <2>3. Effect(Program[at], dev) = [dev EXCEPT !.conf = want]  BY <2>2 DEF Effect
    <2>4. Effect(Program[at], dev) \in Devices
      <3>1. want \in Confs  BY <1>3, Names DEF Confs
      <3> QED  BY <1>3, <2>2, <3>1, StaysDevice
    <2>5. dev' \in Devices  BY <1>1, <2>4, TriedDevice
    <2>6. dev' = [dev EXCEPT !.conf = want]  BY <1>2, <1>18, <2>2, <2>3
    <2>7. errs' = errs /\ at' = 13 /\ UNCHANGED <<phase, armed, out>>  BY <1>1, <1>18, ForwardMoves
    <2>9. Device'  BY <1>1, <1>2, <1>3, <1>18, <2>5, <2>6, <2>7, Names DEF Device, Forward, Devices, WrFiles, Confs
    <2>10. Forward'  BY <1>1, <1>2, <1>3, <1>18, <2>5, <2>6, <2>7, Names DEF Forward, Devices
    <2> QED  BY <1>6, <1>18, <2>5, <2>9, <2>10
  <1>19. CASE at = 13 /\ ~(f /\ Program[at].must)
    <2>1. Program[at] = Cmd("check", "config")  BY <1>3, <1>4, <1>19, CutoverProgram
    <2>2. Program[at].do = "check" /\ Program[at].on = "config" /\ Program[at].must  BY <2>1, CmdIs
    <2>3. Effect(Program[at], dev) = dev  BY <2>2 DEF Effect
    <2>4. Effect(Program[at], dev) \in Devices
      BY <1>3, <2>2, StaysDevice
    <2>5. dev' \in Devices  BY <1>1, <2>4, TriedDevice
    <2>6. dev' = dev  BY <1>2, <1>19, <2>2, <2>3
    <2>8. dev.conf # "bad"  BY <1>19, <2>2 DEF Tried, Fails
    <2>7. errs' = errs /\ at' = 14 /\ UNCHANGED <<phase, armed, out>>  BY <1>1, <1>19, ForwardMoves
    <2>9. Device'  BY <1>1, <1>2, <1>3, <1>19, <2>5, <2>6, <2>7, <2>8, Names DEF Device, Forward, Devices, WrFiles, Confs
    <2>10. Forward'  BY <1>1, <1>2, <1>3, <1>19, <2>5, <2>6, <2>7, <2>8, Names DEF Forward, Devices
    <2> QED  BY <1>6, <1>19, <2>5, <2>9, <2>10
  <1>20. CASE at = 14 /\ ~(f /\ Program[at].must)
    <2>1. Program[at] = Cmd("restart", "sing-box")  BY <1>3, <1>4, <1>20, CutoverProgram
    <2>2. Program[at].do = "restart" /\ Program[at].on = "sing-box" /\ Program[at].must  BY <2>1, CmdIs
    <2>3. Effect(Program[at], dev) = [dev EXCEPT !.core = Running(dev.conf), !.routes = @ \ {"default"}]  BY <2>2 DEF Effect
    <2>4. Effect(Program[at], dev) \in Devices
      BY <1>3, <2>2, StaysDevice
    <2>5. dev' \in Devices  BY <1>1, <2>4, TriedDevice
    <2>6. dev' = [dev EXCEPT !.core = Running(dev.conf), !.routes = @ \ {"default"}]  BY <1>2, <1>20, <2>2, <2>3
    <2>8. Running(dev.conf) = "good"  BY <1>1, <1>20 DEF Forward, Running
    <2>13. /\ dev'.x = dev.x /\ dev'.files = dev.files /\ dev'.plane = dev.plane /\ dev'.conf = dev.conf
           /\ dev'.snap = dev.snap /\ dev'.core = "good" /\ dev'.up = dev.up /\ dev'.fw = dev.fw
      BY <1>3, <2>6, <2>8 DEF Devices
    <2>7. errs' = errs /\ at' = 15 /\ UNCHANGED <<phase, armed, out>>  BY <1>1, <1>20, ForwardMoves
    <2>9. Device'  BY <1>1, <1>2, <1>3, <1>20, <2>5, <2>13, <2>7, Names DEF Device, Forward, Devices, WrFiles, Confs
    <2>10. Forward'  BY <1>1, <1>2, <1>3, <1>20, <2>5, <2>13, <2>7, Names DEF Forward, Devices
    <2> QED  BY <1>6, <1>20, <2>5, <2>9, <2>10
  <1>21. CASE at = 15 /\ ~(f /\ Program[at].must)
    <2>1. Program[at] = Cmd("gateway", "wan")  BY <1>3, <1>4, <1>21, CutoverProgram
    <2>2. Program[at].do = "gateway" /\ Program[at].on = "wan" /\ Program[at].must  BY <2>1, CmdIs
    <2>3. Effect(Program[at], dev) = dev  BY <2>2 DEF Effect
    <2>4. Effect(Program[at], dev) \in Devices
      BY <1>3, <2>2, StaysDevice
    <2>5. dev' \in Devices  BY <1>1, <2>4, TriedDevice
    <2>6. dev' = dev  BY <1>2, <1>21, <2>2, <2>3
    <2>7. errs' = errs /\ at' = 16 /\ UNCHANGED <<phase, armed, out>>  BY <1>1, <1>21, ForwardMoves
    <2>9. Device'  BY <1>1, <1>2, <1>3, <1>21, <2>5, <2>6, <2>7, Names DEF Device, Forward, Devices, WrFiles, Confs
    <2>10. Forward'  BY <1>1, <1>2, <1>3, <1>21, <2>5, <2>6, <2>7, Names DEF Forward, Devices
    <2> QED  BY <1>6, <1>21, <2>5, <2>9, <2>10
  <1>22. CASE at = 16 /\ ~(f /\ Program[at].must)
    <2>1. Program[at] = Cmd("route", "bypass")  BY <1>3, <1>4, <1>22, CutoverProgram
    <2>2. Program[at].do = "route" /\ Program[at].on = "bypass" /\ Program[at].must  BY <2>1, CmdIs
    <2>3. Effect(Program[at], dev) = [dev EXCEPT !.routes = @ \cup {"bypass"}]  BY <2>2 DEF Effect
    <2>4. Effect(Program[at], dev) \in Devices
      <3>1. "bypass" \in Routes  BY <1>3, Names DEF Routes
      <3> QED  BY <1>3, <2>2, <3>1, StaysDevice
    <2>5. dev' \in Devices  BY <1>1, <2>4, TriedDevice
    <2>6. dev' = [dev EXCEPT !.routes = @ \cup {"bypass"}]  BY <1>2, <1>22, <2>2, <2>3
    <2>7. errs' = errs /\ at' = 17 /\ UNCHANGED <<phase, armed, out>>  BY <1>1, <1>22, ForwardMoves
    <2>9. Device'  BY <1>1, <1>2, <1>3, <1>22, <2>5, <2>6, <2>7, Names DEF Device, Forward, Devices, WrFiles, Confs
    <2>10. Forward'  BY <1>1, <1>2, <1>3, <1>22, <2>5, <2>6, <2>7, Names DEF Forward, Devices
    <2> QED  BY <1>6, <1>22, <2>5, <2>9, <2>10
  <1>23. CASE at = 17 /\ ~(f /\ Program[at].must)
    <2>1. Program[at] = Cmd("route", "local")  BY <1>3, <1>4, <1>23, CutoverProgram
    <2>2. Program[at].do = "route" /\ Program[at].on = "local" /\ Program[at].must  BY <2>1, CmdIs
    <2>3. Effect(Program[at], dev) = [dev EXCEPT !.routes = @ \cup {"local"}]  BY <2>2 DEF Effect
    <2>4. Effect(Program[at], dev) \in Devices
      <3>1. "local" \in Routes  BY <1>3, Names DEF Routes
      <3> QED  BY <1>3, <2>2, <3>1, StaysDevice
    <2>5. dev' \in Devices  BY <1>1, <2>4, TriedDevice
    <2>6. dev' = [dev EXCEPT !.routes = @ \cup {"local"}]  BY <1>2, <1>23, <2>2, <2>3
    <2>7. errs' = errs /\ at' = 18 /\ UNCHANGED <<phase, armed, out>>  BY <1>1, <1>23, ForwardMoves
    <2>9. Device'  BY <1>1, <1>2, <1>3, <1>23, <2>5, <2>6, <2>7, Names DEF Device, Forward, Devices, WrFiles, Confs
    <2>10. Forward'  BY <1>1, <1>2, <1>3, <1>23, <2>5, <2>6, <2>7, Names DEF Forward, Devices
    <2> QED  BY <1>6, <1>23, <2>5, <2>9, <2>10
  <1>24. CASE at = 18 /\ ~(f /\ Program[at].must)
    <2>1. Program[at] = Cmd("route", "mgmt")  BY <1>3, <1>4, <1>24, CutoverProgram
    <2>2. Program[at].do = "route" /\ Program[at].on = "mgmt" /\ Program[at].must  BY <2>1, CmdIs
    <2>3. Effect(Program[at], dev) = [dev EXCEPT !.routes = @ \cup {"mgmt"}]  BY <2>2 DEF Effect
    <2>4. Effect(Program[at], dev) \in Devices
      <3>1. "mgmt" \in Routes  BY <1>3, Names DEF Routes
      <3> QED  BY <1>3, <2>2, <3>1, StaysDevice
    <2>5. dev' \in Devices  BY <1>1, <2>4, TriedDevice
    <2>6. dev' = [dev EXCEPT !.routes = @ \cup {"mgmt"}]  BY <1>2, <1>24, <2>2, <2>3
    <2>7. errs' = errs /\ at' = 19 /\ UNCHANGED <<phase, armed, out>>  BY <1>1, <1>24, ForwardMoves
    <2>9. Device'  BY <1>1, <1>2, <1>3, <1>24, <2>5, <2>6, <2>7, Names DEF Device, Forward, Devices, WrFiles, Confs
    <2>10. Forward'  BY <1>1, <1>2, <1>3, <1>24, <2>5, <2>6, <2>7, Names DEF Forward, Devices
    <2> QED  BY <1>6, <1>24, <2>5, <2>9, <2>10
  <1>25. CASE at = 19 /\ ~(f /\ Program[at].must)
    <2>1. Program[at] = Cmd("route", "default")  BY <1>3, <1>4, <1>25, CutoverProgram
    <2>2. Program[at].do = "route" /\ Program[at].on = "default" /\ Program[at].must  BY <2>1, CmdIs
    <2>3. Effect(Program[at], dev) = [dev EXCEPT !.routes = @ \cup {"default"}]  BY <2>2 DEF Effect
    <2>4. Effect(Program[at], dev) \in Devices
      <3>1. "default" \in Routes  BY <1>3, Names DEF Routes
      <3> QED  BY <1>3, <2>2, <3>1, StaysDevice
    <2>5. dev' \in Devices  BY <1>1, <2>4, TriedDevice
    <2>6. dev' = [dev EXCEPT !.routes = @ \cup {"default"}]  BY <1>2, <1>25, <2>2, <2>3
    <2>7. errs' = errs /\ at' = 0 /\ phase' = "idle" /\ armed' = TRUE /\ out' = "ok"  BY <1>1, <1>25, ForwardMoves
    <2>9. Device'  BY <1>1, <1>2, <1>3, <1>25, <2>5, <2>6, <2>7, Names DEF Device, Forward, Devices, WrFiles, Confs
    <2>10. TakenOver'  BY <1>1, <1>2, <1>3, <1>25, <2>5, <2>6, <2>7, <2>9, Names DEF TakenOver, Device, Forward, Devices, Routes
    <2>11. AllOrNothing'  BY <2>7, <2>10 DEF AllOrNothing
    <2>12. CutTypeOK'  BY <1>1, <1>2, <1>3, <2>5, <2>7 DEF CutTypeOK
    <2> QED  BY <1>2, <2>7, <2>9, <2>11, <2>12 DEF CutInv, Forward, Script, Backward, ScriptBack
  <1> QED  BY <1>3, <1>5, <1>7, <1>8, <1>9, <1>10, <1>11, <1>12, <1>13, <1>14, <1>15, <1>16, <1>17, <1>18, <1>19, <1>20, <1>21, <1>22, <1>23, <1>24, <1>25

LEMMA PartsAre ==
  /\ Parts[1] = "config" /\ Parts[2] = "config" /\ Parts[3] = "restart" /\ Parts[4] = "hook"
  /\ \A i \in 5 .. 8 : Parts[i] = "kernel"
  /\ \A i \in 9 .. 16 : Parts[i] = "old"
  BY DEF Parts

LEMMA RollbackStep ==
  ASSUME CutInv, kind = "tun", phase = "rollback", NEW f \in BOOLEAN, Tried(f), tally' \in [cut : Nat, fault : Nat, reboot : Nat]
  PROVE  CutInv'
  <1>1. CutTypeOK /\ Device /\ out = "none"  BY DEF CutInv
  <1>2. UNCHANGED <<kind, site, want>> /\ dev' = IF f THEN dev ELSE Effect(Program[at], dev)  BY DEF Tried
  <1>3. dev \in Devices /\ at \in 1 .. 16 /\ errs \in SUBSET {"config", "restart", "hook", "kernel", "old"}
    BY <1>1 DEF CutTypeOK
  <1>4. Program = RollbackSteps  BY DEF Program
  <1>5. Undone(at) /\ \A i \in at .. 16 : Parts[i] \notin errs  BY DEF CutInv, Backward
  <1>go. ~(f /\ Program[at].must) => errs' = errs /\ (at < 16 => at' = at + 1 /\ UNCHANGED <<phase, armed, out>>)
    BY <1>1, RollbackMoves
  <1>6. CASE f /\ Program[at].must
    <2>1. dev' = dev /\ errs' = errs \cup {Parts[at]} /\ errs' # {}  BY <1>1, <1>2, <1>6, RollbackMoves
    <2>2. Parts[at] \in {"config", "restart", "hook", "kernel", "old"}  BY <1>3, PartsAre
    <2>3. errs' \in SUBSET {"config", "restart", "hook", "kernel", "old"}  BY <1>3, <2>1, <2>2
    <2>4. Device'  BY <1>1, <1>2, <2>1 DEF Device
    <2>5. CASE at < 9
      <3>1. /\ at' = IF at <= 2 THEN 3 ELSE IF at = 3 THEN 4 ELSE IF at = 4 THEN 5 ELSE 9
            /\ UNCHANGED <<phase, armed, out>>
        BY <1>1, <1>6, <2>5, RollbackMoves
      <3>2. CutTypeOK'  BY <1>1, <1>2, <1>3, <2>1, <2>3, <3>1 DEF CutTypeOK
      <3>3. \A i \in at' .. 16 : Parts[i] \notin errs'
        <4>1. CASE at \in {1, 2}  BY <1>5, <2>1, <3>1, <4>1, PartsAre
        <4>2. CASE at \in {3, 4}  BY <1>5, <2>1, <3>1, <4>2, PartsAre
        <4>3. CASE at \in 5 .. 8  BY <1>5, <2>1, <3>1, <4>3, PartsAre
        <4> QED  BY <1>3, <2>5, <4>1, <4>2, <4>3
      <3>4. Undone(at)'
        <4>1. CASE at \in {1, 2}  BY <2>1, <3>1, <4>1, PartsAre DEF Undone
        <4>2. CASE at = 3  BY <1>2, <1>5, <2>1, <3>1, <4>2, PartsAre DEF Undone
        <4>3. CASE at = 4  BY <1>2, <1>5, <2>1, <3>1, <4>3, PartsAre DEF Undone
        <4>4. CASE at \in 5 .. 8  BY <1>2, <1>5, <2>1, <3>1, <4>4 DEF Undone
        <4> QED  BY <1>3, <2>5, <4>1, <4>2, <4>3, <4>4
      <3>5. Backward'  BY <3>3, <3>4 DEF Backward
      <3> QED  BY <1>1, <1>2, <2>4, <3>1, <3>2, <3>5 DEF CutInv, Forward, Script, ScriptBack, AllOrNothing
    <2>6. CASE at >= 9
      <3>1. at' = 0 /\ phase' = "idle" /\ armed' = FALSE /\ out' = "failed"
        BY <1>1, <1>6, <2>1, <2>6, RollbackMoves
      <3>2. CutTypeOK'
        <4>1. armed' \in BOOLEAN /\ out' \in {"none", "ok", "undone", "failed", "cut", "booted"}  BY <3>1
        <4>2. at' = 0 /\ phase' = "idle" /\ kind' = "tun"  BY <1>2, <3>1
        <4> QED  BY <1>1, <1>2, <2>1, <2>3, <4>1, <4>2 DEF CutTypeOK
      <3>3. Parts[at] = "old"  BY <1>3, <2>6, PartsAre
      <3>4. ~dev.plane  BY <1>1 DEF Device
      <3>5. AllOrNothing'  BY <1>2, <1>3, <1>5, <2>1, <2>6, <3>1, <3>3, <3>4 DEF AllOrNothing, Undone
      <3> QED  BY <1>2, <2>4, <3>1, <3>2, <3>5 DEF CutInv, Forward, Script, Backward, ScriptBack
    <2> QED  BY <1>3, <2>5, <2>6
  <1>7. CASE at = 1 /\ ~(f /\ Program[at].must)
    <2>1. Program[at] = Of("config", Cmd("restore", "config"))  BY <1>3, <1>4, <1>7, RollbackProgram
    <2>2. Program[at].do = "restore" /\ Program[at].on = "config" /\ Program[at].must  BY <2>1, CmdIs
    <2>3. Effect(Program[at], dev) = IF dev.snap = "none" THEN dev ELSE [dev EXCEPT !.conf = dev.snap]  BY <2>2 DEF Effect
    <2>4. Effect(Program[at], dev) \in Devices
      BY <1>3, <2>2, StaysDevice
    <2>5. dev' \in Devices  BY <1>1, <2>4, TriedDevice
    <2>6. /\ dev'.x = dev.x /\ dev'.up = dev.up /\ dev'.fw = dev.fw /\ dev'.files = dev.files /\ dev'.plane = dev.plane
          /\ dev'.snap = dev.snap /\ dev'.core = dev.core /\ dev'.routes = dev.routes
          /\ dev'.conf = IF dev.snap = "none" THEN dev.conf ELSE dev.snap
      BY <1>2, <1>3, <1>7, <2>2, <2>3 DEF Devices
    <2>7. errs' = errs /\ at' = 2 /\ UNCHANGED <<phase, armed, out>>  BY <1>go, <1>7
    <2>9. Device'  BY <1>1, <1>2, <1>3, <1>5, <1>7, <2>5, <2>6, <2>7, Names DEF Device, Undone, Devices
    <2>10. Undone(at)'  BY <1>1, <1>2, <1>3, <1>5, <1>7, <2>5, <2>6, <2>7, Names DEF Device, Undone, Devices
    <2>11. Backward'  BY <1>5, <1>7, <2>7, <2>10 DEF Backward
    <2>12. CutTypeOK'  BY <1>1, <1>2, <1>3, <1>7, <2>5, <2>7 DEF CutTypeOK
    <2> QED  BY <1>1, <1>2, <2>7, <2>9, <2>11, <2>12 DEF CutInv, Forward, Script, ScriptBack, AllOrNothing
  <1>8. CASE at = 2 /\ ~(f /\ Program[at].must)
    <2>1. Program[at] = Of("config", Try("unsnap", "config"))  BY <1>3, <1>4, <1>8, RollbackProgram
    <2>2. Program[at].do = "unsnap" /\ Program[at].on = "config" /\ ~Program[at].must  BY <2>1, CmdIs
    <2>3. Effect(Program[at], dev) = [dev EXCEPT !.snap = "none"]  BY <2>2 DEF Effect
    <2>4. Effect(Program[at], dev) \in Devices
      BY <1>3, <2>2, StaysDevice
    <2>5. dev' \in Devices  BY <1>1, <2>4, TriedDevice
    <2>6. /\ dev'.x = dev.x /\ dev'.up = dev.up /\ dev'.fw = dev.fw /\ dev'.files = dev.files /\ dev'.plane = dev.plane
          /\ dev'.conf = dev.conf /\ dev'.core = dev.core /\ dev'.routes = dev.routes
          /\ dev'.snap \in {dev.snap, "none"}
      BY <1>2, <1>3, <2>3 DEF Devices
    <2>7. errs' = errs /\ at' = 3 /\ UNCHANGED <<phase, armed, out>>  BY <1>go, <1>8
    <2>8. "config" \notin errs  BY <1>5, <1>8, PartsAre
    <2>9. Device'  BY <1>1, <1>2, <1>3, <1>5, <1>8, <2>5, <2>6, <2>7, <2>8, Names DEF Device, Undone, Devices
    <2>10. Undone(at)'  BY <1>1, <1>2, <1>3, <1>5, <1>8, <2>5, <2>6, <2>7, <2>8, Names DEF Device, Undone, Devices
    <2>11. Backward'  BY <1>5, <1>8, <2>7, <2>10 DEF Backward
    <2>12. CutTypeOK'  BY <1>1, <1>2, <1>3, <1>8, <2>5, <2>7 DEF CutTypeOK
    <2> QED  BY <1>1, <1>2, <2>7, <2>9, <2>11, <2>12 DEF CutInv, Forward, Script, ScriptBack, AllOrNothing
  <1>9. CASE at = 3 /\ ~(f /\ Program[at].must)
    <2>1. Program[at] = Of("restart", Cmd("restart", "sing-box"))  BY <1>3, <1>4, <1>9, RollbackProgram
    <2>2. Program[at].do = "restart" /\ Program[at].on = "sing-box" /\ Program[at].must  BY <2>1, CmdIs
    <2>3. Effect(Program[at], dev) = [dev EXCEPT !.core = Running(dev.conf), !.routes = @ \ {"default"}]  BY <2>2 DEF Effect
    <2>4. Effect(Program[at], dev) \in Devices
      BY <1>3, <2>2, StaysDevice
    <2>5. dev' \in Devices  BY <1>1, <2>4, TriedDevice
    <2>6. /\ dev'.x = dev.x /\ dev'.up = dev.up /\ dev'.fw = dev.fw /\ dev'.files = dev.files /\ dev'.plane = dev.plane
          /\ dev'.conf = dev.conf /\ dev'.snap = dev.snap
          /\ dev'.core = Running(dev.conf) /\ "default" \notin dev'.routes
      BY <1>2, <1>3, <1>9, <2>2, <2>3 DEF Devices
    <2>7. errs' = errs /\ at' = 4 /\ UNCHANGED <<phase, armed, out>>  BY <1>go, <1>9
    <2>8. dev.conf = "orig" => Running(dev.conf) = "orig"  BY DEF Running
    <2>9. Device'  BY <1>1, <1>2, <1>3, <1>5, <1>9, <2>5, <2>6, <2>7, <2>8, Names DEF Device, Undone, Devices
    <2>10. Undone(at)'  BY <1>1, <1>2, <1>3, <1>5, <1>9, <2>5, <2>6, <2>7, <2>8, Names DEF Device, Undone, Devices
    <2>11. Backward'  BY <1>5, <1>9, <2>7, <2>10 DEF Backward
    <2>12. CutTypeOK'  BY <1>1, <1>2, <1>3, <1>9, <2>5, <2>7 DEF CutTypeOK
    <2> QED  BY <1>1, <1>2, <2>7, <2>9, <2>11, <2>12 DEF CutInv, Forward, Script, ScriptBack, AllOrNothing
  <1>10. CASE at = 4 /\ ~(f /\ Program[at].must)
    <2>1. Program[at] = Of("hook", Cmd("rm", "hook"))  BY <1>3, <1>4, <1>10, RollbackProgram
    <2>2. Program[at].do = "rm" /\ Program[at].on = "hook" /\ Program[at].must  BY <2>1, CmdIs
    <2>3. Effect(Program[at], dev) = [dev EXCEPT !.files = @ \ {"hook"}]  BY <2>2 DEF Effect
    <2>4. Effect(Program[at], dev) \in Devices
      BY <1>3, <2>2, StaysDevice
    <2>5. dev' \in Devices  BY <1>1, <2>4, TriedDevice
    <2>6. /\ dev'.x = dev.x /\ dev'.up = dev.up /\ dev'.fw = dev.fw /\ dev'.plane = dev.plane /\ dev'.conf = dev.conf
          /\ dev'.snap = dev.snap /\ dev'.core = dev.core /\ dev'.routes = dev.routes
          /\ dev'.files = dev.files \ {"hook"}
      BY <1>2, <1>3, <1>10, <2>2, <2>3 DEF Devices
    <2>7. errs' = errs /\ at' = 5 /\ UNCHANGED <<phase, armed, out>>  BY <1>go, <1>10
    <2>9. Device'  BY <1>1, <1>2, <1>3, <1>5, <1>10, <2>5, <2>6, <2>7, Names DEF Device, Undone, Devices
    <2>10. Undone(at)'  BY <1>1, <1>2, <1>3, <1>5, <1>10, <2>5, <2>6, <2>7, Names DEF Device, Undone, Devices
    <2>11. Backward'  BY <1>5, <1>10, <2>7, <2>10 DEF Backward
    <2>12. CutTypeOK'  BY <1>1, <1>2, <1>3, <1>10, <2>5, <2>7 DEF CutTypeOK
    <2> QED  BY <1>1, <1>2, <2>7, <2>9, <2>11, <2>12 DEF CutInv, Forward, Script, ScriptBack, AllOrNothing
  <1>11. CASE at = 5 /\ ~(f /\ Program[at].must)
    <2>1. Program[at] = Of("kernel", Try("unroute", "default"))  BY <1>3, <1>4, <1>11, RollbackProgram
    <2>2. Program[at].do = "unroute" /\ Program[at].on = "default" /\ ~Program[at].must  BY <2>1, CmdIs
    <2>3. Effect(Program[at], dev) = [dev EXCEPT !.routes = @ \ {"default"}]  BY <2>2 DEF Effect
    <2>4. Effect(Program[at], dev) \in Devices
      BY <1>3, <2>2, StaysDevice
    <2>5. dev' \in Devices  BY <1>1, <2>4, TriedDevice
    <2>6. /\ dev'.x = dev.x /\ dev'.up = dev.up /\ dev'.fw = dev.fw /\ dev'.files = dev.files /\ dev'.plane = dev.plane
          /\ dev'.conf = dev.conf /\ dev'.snap = dev.snap /\ dev'.core = dev.core
          /\ dev'.routes \subseteq dev.routes
      BY <1>2, <1>3, <2>3 DEF Devices
    <2>7. errs' = errs /\ at' = 6 /\ UNCHANGED <<phase, armed, out>>  BY <1>go, <1>11
    <2>9. Device'  BY <1>1, <1>2, <1>3, <1>5, <1>11, <2>5, <2>6, <2>7, Names DEF Device, Undone, Devices
    <2>10. Undone(at)'  BY <1>1, <1>2, <1>3, <1>5, <1>11, <2>5, <2>6, <2>7, Names DEF Device, Undone, Devices
    <2>11. Backward'  BY <1>5, <1>11, <2>7, <2>10 DEF Backward
    <2>12. CutTypeOK'  BY <1>1, <1>2, <1>3, <1>11, <2>5, <2>7 DEF CutTypeOK
    <2> QED  BY <1>1, <1>2, <2>7, <2>9, <2>11, <2>12 DEF CutInv, Forward, Script, ScriptBack, AllOrNothing
  <1>12. CASE at = 6 /\ ~(f /\ Program[at].must)
    <2>1. Program[at] = Of("kernel", Try("unroute", "mgmt"))  BY <1>3, <1>4, <1>12, RollbackProgram
    <2>2. Program[at].do = "unroute" /\ Program[at].on = "mgmt" /\ ~Program[at].must  BY <2>1, CmdIs
    <2>3. Effect(Program[at], dev) = [dev EXCEPT !.routes = @ \ {"mgmt"}]  BY <2>2 DEF Effect
    <2>4. Effect(Program[at], dev) \in Devices
      BY <1>3, <2>2, StaysDevice
    <2>5. dev' \in Devices  BY <1>1, <2>4, TriedDevice
    <2>6. /\ dev'.x = dev.x /\ dev'.up = dev.up /\ dev'.fw = dev.fw /\ dev'.files = dev.files /\ dev'.plane = dev.plane
          /\ dev'.conf = dev.conf /\ dev'.snap = dev.snap /\ dev'.core = dev.core
          /\ dev'.routes \subseteq dev.routes
      BY <1>2, <1>3, <2>3 DEF Devices
    <2>7. errs' = errs /\ at' = 7 /\ UNCHANGED <<phase, armed, out>>  BY <1>go, <1>12
    <2>9. Device'  BY <1>1, <1>2, <1>3, <1>5, <1>12, <2>5, <2>6, <2>7, Names DEF Device, Undone, Devices
    <2>10. Undone(at)'  BY <1>1, <1>2, <1>3, <1>5, <1>12, <2>5, <2>6, <2>7, Names DEF Device, Undone, Devices
    <2>11. Backward'  BY <1>5, <1>12, <2>7, <2>10 DEF Backward
    <2>12. CutTypeOK'  BY <1>1, <1>2, <1>3, <1>12, <2>5, <2>7 DEF CutTypeOK
    <2> QED  BY <1>1, <1>2, <2>7, <2>9, <2>11, <2>12 DEF CutInv, Forward, Script, ScriptBack, AllOrNothing
  <1>13. CASE at = 7 /\ ~(f /\ Program[at].must)
    <2>1. Program[at] = Of("kernel", Try("unroute", "local"))  BY <1>3, <1>4, <1>13, RollbackProgram
    <2>2. Program[at].do = "unroute" /\ Program[at].on = "local" /\ ~Program[at].must  BY <2>1, CmdIs
    <2>3. Effect(Program[at], dev) = [dev EXCEPT !.routes = @ \ {"local"}]  BY <2>2 DEF Effect
    <2>4. Effect(Program[at], dev) \in Devices
      BY <1>3, <2>2, StaysDevice
    <2>5. dev' \in Devices  BY <1>1, <2>4, TriedDevice
    <2>6. /\ dev'.x = dev.x /\ dev'.up = dev.up /\ dev'.fw = dev.fw /\ dev'.files = dev.files /\ dev'.plane = dev.plane
          /\ dev'.conf = dev.conf /\ dev'.snap = dev.snap /\ dev'.core = dev.core
          /\ dev'.routes \subseteq dev.routes
      BY <1>2, <1>3, <2>3 DEF Devices
    <2>7. errs' = errs /\ at' = 8 /\ UNCHANGED <<phase, armed, out>>  BY <1>go, <1>13
    <2>9. Device'  BY <1>1, <1>2, <1>3, <1>5, <1>13, <2>5, <2>6, <2>7, Names DEF Device, Undone, Devices
    <2>10. Undone(at)'  BY <1>1, <1>2, <1>3, <1>5, <1>13, <2>5, <2>6, <2>7, Names DEF Device, Undone, Devices
    <2>11. Backward'  BY <1>5, <1>13, <2>7, <2>10 DEF Backward
    <2>12. CutTypeOK'  BY <1>1, <1>2, <1>3, <1>13, <2>5, <2>7 DEF CutTypeOK
    <2> QED  BY <1>1, <1>2, <2>7, <2>9, <2>11, <2>12 DEF CutInv, Forward, Script, ScriptBack, AllOrNothing
  <1>14. CASE at = 8 /\ ~(f /\ Program[at].must)
    <2>1. Program[at] = Of("kernel", Try("unroute", "bypass"))  BY <1>3, <1>4, <1>14, RollbackProgram
    <2>2. Program[at].do = "unroute" /\ Program[at].on = "bypass" /\ ~Program[at].must  BY <2>1, CmdIs
    <2>3. Effect(Program[at], dev) = [dev EXCEPT !.routes = @ \ {"bypass"}]  BY <2>2 DEF Effect
    <2>4. Effect(Program[at], dev) \in Devices
      BY <1>3, <2>2, StaysDevice
    <2>5. dev' \in Devices  BY <1>1, <2>4, TriedDevice
    <2>6. /\ dev'.x = dev.x /\ dev'.up = dev.up /\ dev'.fw = dev.fw /\ dev'.files = dev.files /\ dev'.plane = dev.plane
          /\ dev'.conf = dev.conf /\ dev'.snap = dev.snap /\ dev'.core = dev.core
          /\ dev'.routes \subseteq dev.routes
      BY <1>2, <1>3, <2>3 DEF Devices
    <2>7. errs' = errs /\ at' = 9 /\ UNCHANGED <<phase, armed, out>>  BY <1>go, <1>14
    <2>9. Device'  BY <1>1, <1>2, <1>3, <1>5, <1>14, <2>5, <2>6, <2>7, Names DEF Device, Undone, Devices
    <2>10. Undone(at)'  BY <1>1, <1>2, <1>3, <1>5, <1>14, <2>5, <2>6, <2>7, Names DEF Device, Undone, Devices
    <2>11. Backward'  BY <1>5, <1>14, <2>7, <2>10 DEF Backward
    <2>12. CutTypeOK'  BY <1>1, <1>2, <1>3, <1>14, <2>5, <2>7 DEF CutTypeOK
    <2> QED  BY <1>1, <1>2, <2>7, <2>9, <2>11, <2>12 DEF CutInv, Forward, Script, ScriptBack, AllOrNothing
  <1>15. CASE at = 9 /\ ~(f /\ Program[at].must)
    <2>1. Program[at] = Of("old", Cmd("x+", Services[1]))  BY <1>3, <1>4, <1>15, RollbackProgram
    <2>2. Program[at].do = "x+" /\ Program[at].on = Services[1] /\ Program[at].must  BY <2>1, CmdIs
    <2>3. Effect(Program[at], dev) = [dev EXCEPT !.x = @ \cup {Services[1]}]  BY <2>2 DEF Effect
    <2>4. Effect(Program[at], dev) \in Devices
      <3>1. Services[1] \in OldStack  BY <1>3, Names
      <3> QED  BY <1>3, <2>2, <3>1, StaysDevice
    <2>5. dev' \in Devices  BY <1>1, <2>4, TriedDevice
    <2>6. /\ dev'.up = dev.up /\ dev'.fw = dev.fw /\ dev'.files = dev.files /\ dev'.plane = dev.plane /\ dev'.conf = dev.conf
          /\ dev'.snap = dev.snap /\ dev'.core = dev.core /\ dev'.routes = dev.routes
          /\ dev'.x = dev.x \cup {Services[1]}
      BY <1>2, <1>3, <1>15, <2>2, <2>3 DEF Devices
    <2>7. errs' = errs /\ at' = 10 /\ UNCHANGED <<phase, armed, out>>  BY <1>go, <1>15
    <2>8. "old" \notin errs  BY <1>5, <1>15, PartsAre
    <2>9. Device'  BY <1>1, <1>2, <1>3, <1>5, <1>15, <2>5, <2>6, <2>7, <2>8, Names DEF Device, Undone, Devices
    <2>10. Undone(at)'  BY <1>1, <1>2, <1>3, <1>5, <1>15, <2>5, <2>6, <2>7, <2>8, Names DEF Device, Undone, Devices
    <2>11. Backward'  BY <1>5, <1>15, <2>7, <2>10 DEF Backward
    <2>12. CutTypeOK'  BY <1>1, <1>2, <1>3, <1>15, <2>5, <2>7 DEF CutTypeOK
    <2> QED  BY <1>1, <1>2, <2>7, <2>9, <2>11, <2>12 DEF CutInv, Forward, Script, ScriptBack, AllOrNothing
  <1>16. CASE at = 10 /\ ~(f /\ Program[at].must)
    <2>1. Program[at] = Of("old", Cmd("start", Services[1]))  BY <1>3, <1>4, <1>16, RollbackProgram
    <2>2. Program[at].do = "start" /\ Program[at].on = Services[1] /\ Program[at].must  BY <2>1, CmdIs
    <2>3. Effect(Program[at], dev) = [dev EXCEPT !.up = @ \cup {Services[1]}, !.fw = @ \/ Services[1] = KeenPBR]  BY <2>2 DEF Effect
    <2>4. Effect(Program[at], dev) \in Devices
      <3>1. Services[1] \in Units  BY <1>3, Names
      <3> QED  BY <1>3, <2>2, <3>1, StaysDevice
    <2>5. dev' \in Devices  BY <1>1, <2>4, TriedDevice
    <2>6. /\ dev'.x = dev.x /\ dev'.files = dev.files /\ dev'.plane = dev.plane /\ dev'.conf = dev.conf /\ dev'.snap = dev.snap
          /\ dev'.core = dev.core /\ dev'.routes = dev.routes
          /\ dev'.up = dev.up \cup {Services[1]} /\ (dev'.fw => dev.fw \/ Services[1] = KeenPBR)
      <3> DEFINE z == dev.fw \/ Services[1] = KeenPBR
      <3>1. z => dev.fw \/ Services[1] = KeenPBR  OBVIOUS
      <3>2. dev' = [dev EXCEPT !.up = @ \cup {Services[1]}, !.fw = z]  BY <1>2, <1>16, <2>2, <2>3
      <3> HIDE DEF z
      <3> QED  BY <1>3, <3>1, <3>2 DEF Devices
    <2>7. errs' = errs /\ at' = 11 /\ UNCHANGED <<phase, armed, out>>  BY <1>go, <1>16
    <2>8. "old" \notin errs  BY <1>5, <1>16, PartsAre
    <2>9. Device'  BY <1>1, <1>2, <1>3, <1>5, <1>16, <2>5, <2>6, <2>7, <2>8, Names DEF Device, Undone, Devices
    <2>10. Undone(at)'  BY <1>1, <1>2, <1>3, <1>5, <1>16, <2>5, <2>6, <2>7, <2>8, Names DEF Device, Undone, Devices
    <2>11. Backward'  BY <1>5, <1>16, <2>7, <2>10 DEF Backward
    <2>12. CutTypeOK'  BY <1>1, <1>2, <1>3, <1>16, <2>5, <2>7 DEF CutTypeOK
    <2> QED  BY <1>1, <1>2, <2>7, <2>9, <2>11, <2>12 DEF CutInv, Forward, Script, ScriptBack, AllOrNothing
  <1>17. CASE at = 11 /\ ~(f /\ Program[at].must)
    <2>1. Program[at] = Of("old", Cmd("x+", Services[2]))  BY <1>3, <1>4, <1>17, RollbackProgram
    <2>2. Program[at].do = "x+" /\ Program[at].on = Services[2] /\ Program[at].must  BY <2>1, CmdIs
    <2>3. Effect(Program[at], dev) = [dev EXCEPT !.x = @ \cup {Services[2]}]  BY <2>2 DEF Effect
    <2>4. Effect(Program[at], dev) \in Devices
      <3>1. Services[2] \in OldStack  BY <1>3, Names
      <3> QED  BY <1>3, <2>2, <3>1, StaysDevice
    <2>5. dev' \in Devices  BY <1>1, <2>4, TriedDevice
    <2>6. /\ dev'.up = dev.up /\ dev'.fw = dev.fw /\ dev'.files = dev.files /\ dev'.plane = dev.plane /\ dev'.conf = dev.conf
          /\ dev'.snap = dev.snap /\ dev'.core = dev.core /\ dev'.routes = dev.routes
          /\ dev'.x = dev.x \cup {Services[2]}
      BY <1>2, <1>3, <1>17, <2>2, <2>3 DEF Devices
    <2>7. errs' = errs /\ at' = 12 /\ UNCHANGED <<phase, armed, out>>  BY <1>go, <1>17
    <2>8. "old" \notin errs  BY <1>5, <1>17, PartsAre
    <2>9. Device'  BY <1>1, <1>2, <1>3, <1>5, <1>17, <2>5, <2>6, <2>7, <2>8, Names DEF Device, Undone, Devices
    <2>10. Undone(at)'  BY <1>1, <1>2, <1>3, <1>5, <1>17, <2>5, <2>6, <2>7, <2>8, Names DEF Device, Undone, Devices
    <2>11. Backward'  BY <1>5, <1>17, <2>7, <2>10 DEF Backward
    <2>12. CutTypeOK'  BY <1>1, <1>2, <1>3, <1>17, <2>5, <2>7 DEF CutTypeOK
    <2> QED  BY <1>1, <1>2, <2>7, <2>9, <2>11, <2>12 DEF CutInv, Forward, Script, ScriptBack, AllOrNothing
  <1>18. CASE at = 12 /\ ~(f /\ Program[at].must)
    <2>1. Program[at] = Of("old", Cmd("start", Services[2]))  BY <1>3, <1>4, <1>18, RollbackProgram
    <2>2. Program[at].do = "start" /\ Program[at].on = Services[2] /\ Program[at].must  BY <2>1, CmdIs
    <2>3. Effect(Program[at], dev) = [dev EXCEPT !.up = @ \cup {Services[2]}, !.fw = @ \/ Services[2] = KeenPBR]  BY <2>2 DEF Effect
    <2>4. Effect(Program[at], dev) \in Devices
      <3>1. Services[2] \in Units  BY <1>3, Names
      <3> QED  BY <1>3, <2>2, <3>1, StaysDevice
    <2>5. dev' \in Devices  BY <1>1, <2>4, TriedDevice
    <2>6. /\ dev'.x = dev.x /\ dev'.files = dev.files /\ dev'.plane = dev.plane /\ dev'.conf = dev.conf /\ dev'.snap = dev.snap
          /\ dev'.core = dev.core /\ dev'.routes = dev.routes
          /\ dev'.up = dev.up \cup {Services[2]} /\ (dev'.fw => dev.fw \/ Services[2] = KeenPBR)
      <3> DEFINE z == dev.fw \/ Services[2] = KeenPBR
      <3>1. z => dev.fw \/ Services[2] = KeenPBR  OBVIOUS
      <3>2. dev' = [dev EXCEPT !.up = @ \cup {Services[2]}, !.fw = z]  BY <1>2, <1>18, <2>2, <2>3
      <3> HIDE DEF z
      <3> QED  BY <1>3, <3>1, <3>2 DEF Devices
    <2>7. errs' = errs /\ at' = 13 /\ UNCHANGED <<phase, armed, out>>  BY <1>go, <1>18
    <2>8. "old" \notin errs  BY <1>5, <1>18, PartsAre
    <2>9. Device'  BY <1>1, <1>2, <1>3, <1>5, <1>18, <2>5, <2>6, <2>7, <2>8, Names DEF Device, Undone, Devices
    <2>10. Undone(at)'  BY <1>1, <1>2, <1>3, <1>5, <1>18, <2>5, <2>6, <2>7, <2>8, Names DEF Device, Undone, Devices
    <2>11. Backward'  BY <1>5, <1>18, <2>7, <2>10 DEF Backward
    <2>12. CutTypeOK'  BY <1>1, <1>2, <1>3, <1>18, <2>5, <2>7 DEF CutTypeOK
    <2> QED  BY <1>1, <1>2, <2>7, <2>9, <2>11, <2>12 DEF CutInv, Forward, Script, ScriptBack, AllOrNothing
  <1>19. CASE at = 13 /\ ~(f /\ Program[at].must)
    <2>1. Program[at] = Of("old", Cmd("x+", Services[3]))  BY <1>3, <1>4, <1>19, RollbackProgram
    <2>2. Program[at].do = "x+" /\ Program[at].on = Services[3] /\ Program[at].must  BY <2>1, CmdIs
    <2>3. Effect(Program[at], dev) = [dev EXCEPT !.x = @ \cup {Services[3]}]  BY <2>2 DEF Effect
    <2>4. Effect(Program[at], dev) \in Devices
      <3>1. Services[3] \in OldStack  BY <1>3, Names
      <3> QED  BY <1>3, <2>2, <3>1, StaysDevice
    <2>5. dev' \in Devices  BY <1>1, <2>4, TriedDevice
    <2>6. /\ dev'.up = dev.up /\ dev'.fw = dev.fw /\ dev'.files = dev.files /\ dev'.plane = dev.plane /\ dev'.conf = dev.conf
          /\ dev'.snap = dev.snap /\ dev'.core = dev.core /\ dev'.routes = dev.routes
          /\ dev'.x = dev.x \cup {Services[3]}
      BY <1>2, <1>3, <1>19, <2>2, <2>3 DEF Devices
    <2>7. errs' = errs /\ at' = 14 /\ UNCHANGED <<phase, armed, out>>  BY <1>go, <1>19
    <2>8. "old" \notin errs  BY <1>5, <1>19, PartsAre
    <2>9. Device'  BY <1>1, <1>2, <1>3, <1>5, <1>19, <2>5, <2>6, <2>7, <2>8, Names DEF Device, Undone, Devices
    <2>10. Undone(at)'  BY <1>1, <1>2, <1>3, <1>5, <1>19, <2>5, <2>6, <2>7, <2>8, Names DEF Device, Undone, Devices
    <2>11. Backward'  BY <1>5, <1>19, <2>7, <2>10 DEF Backward
    <2>12. CutTypeOK'  BY <1>1, <1>2, <1>3, <1>19, <2>5, <2>7 DEF CutTypeOK
    <2> QED  BY <1>1, <1>2, <2>7, <2>9, <2>11, <2>12 DEF CutInv, Forward, Script, ScriptBack, AllOrNothing
  <1>20. CASE at = 14 /\ ~(f /\ Program[at].must)
    <2>1. Program[at] = Of("old", Cmd("start", Services[3]))  BY <1>3, <1>4, <1>20, RollbackProgram
    <2>2. Program[at].do = "start" /\ Program[at].on = Services[3] /\ Program[at].must  BY <2>1, CmdIs
    <2>3. Effect(Program[at], dev) = [dev EXCEPT !.up = @ \cup {Services[3]}, !.fw = @ \/ Services[3] = KeenPBR]  BY <2>2 DEF Effect
    <2>4. Effect(Program[at], dev) \in Devices
      <3>1. Services[3] \in Units  BY <1>3, Names
      <3> QED  BY <1>3, <2>2, <3>1, StaysDevice
    <2>5. dev' \in Devices  BY <1>1, <2>4, TriedDevice
    <2>6. /\ dev'.x = dev.x /\ dev'.files = dev.files /\ dev'.plane = dev.plane /\ dev'.conf = dev.conf /\ dev'.snap = dev.snap
          /\ dev'.core = dev.core /\ dev'.routes = dev.routes
          /\ dev'.up = dev.up \cup {Services[3]} /\ (dev'.fw => dev.fw \/ Services[3] = KeenPBR)
      <3> DEFINE z == dev.fw \/ Services[3] = KeenPBR
      <3>1. z => dev.fw \/ Services[3] = KeenPBR  OBVIOUS
      <3>2. dev' = [dev EXCEPT !.up = @ \cup {Services[3]}, !.fw = z]  BY <1>2, <1>20, <2>2, <2>3
      <3> HIDE DEF z
      <3> QED  BY <1>3, <3>1, <3>2 DEF Devices
    <2>7. errs' = errs /\ at' = 15 /\ UNCHANGED <<phase, armed, out>>  BY <1>go, <1>20
    <2>8. "old" \notin errs  BY <1>5, <1>20, PartsAre
    <2>9. Device'  BY <1>1, <1>2, <1>3, <1>5, <1>20, <2>5, <2>6, <2>7, <2>8, Names DEF Device, Undone, Devices
    <2>10. Undone(at)'  BY <1>1, <1>2, <1>3, <1>5, <1>20, <2>5, <2>6, <2>7, <2>8, Names DEF Device, Undone, Devices
    <2>11. Backward'  BY <1>5, <1>20, <2>7, <2>10 DEF Backward
    <2>12. CutTypeOK'  BY <1>1, <1>2, <1>3, <1>20, <2>5, <2>7 DEF CutTypeOK
    <2> QED  BY <1>1, <1>2, <2>7, <2>9, <2>11, <2>12 DEF CutInv, Forward, Script, ScriptBack, AllOrNothing
  <1>21. CASE at = 15 /\ ~(f /\ Program[at].must)
    <2>1. Program[at] = Of("old", Cmd("x+", "cron"))  BY <1>3, <1>4, <1>21, RollbackProgram
    <2>2. Program[at].do = "x+" /\ Program[at].on = "cron" /\ Program[at].must  BY <2>1, CmdIs
    <2>3. Effect(Program[at], dev) = [dev EXCEPT !.x = @ \cup {"cron"}]  BY <2>2 DEF Effect
    <2>4. Effect(Program[at], dev) \in Devices
      <3>1. "cron" \in OldStack  BY <1>3, Names
      <3> QED  BY <1>3, <2>2, <3>1, StaysDevice
    <2>5. dev' \in Devices  BY <1>1, <2>4, TriedDevice
    <2>6. /\ dev'.up = dev.up /\ dev'.fw = dev.fw /\ dev'.files = dev.files /\ dev'.plane = dev.plane /\ dev'.conf = dev.conf
          /\ dev'.snap = dev.snap /\ dev'.core = dev.core /\ dev'.routes = dev.routes
          /\ dev'.x = dev.x \cup {"cron"}
      BY <1>2, <1>3, <1>21, <2>2, <2>3 DEF Devices
    <2>7. errs' = errs /\ at' = 16 /\ UNCHANGED <<phase, armed, out>>  BY <1>go, <1>21
    <2>8. "old" \notin errs  BY <1>5, <1>21, PartsAre
    <2>9. Device'  BY <1>1, <1>2, <1>3, <1>5, <1>21, <2>5, <2>6, <2>7, <2>8, Names DEF Device, Undone, Devices
    <2>10. Undone(at)'  BY <1>1, <1>2, <1>3, <1>5, <1>21, <2>5, <2>6, <2>7, <2>8, Names DEF Device, Undone, Devices
    <2>11. Backward'  BY <1>5, <1>21, <2>7, <2>10 DEF Backward
    <2>12. CutTypeOK'  BY <1>1, <1>2, <1>3, <1>21, <2>5, <2>7 DEF CutTypeOK
    <2> QED  BY <1>1, <1>2, <2>7, <2>9, <2>11, <2>12 DEF CutInv, Forward, Script, ScriptBack, AllOrNothing
  <1>22. CASE at = 16 /\ ~(f /\ Program[at].must)
    <2>1. Program[at] = Of("old", Cmd("x+", "hook50"))  BY <1>3, <1>4, <1>22, RollbackProgram
    <2>2. Program[at].do = "x+" /\ Program[at].on = "hook50" /\ Program[at].must  BY <2>1, CmdIs
    <2>3. Effect(Program[at], dev) = [dev EXCEPT !.x = @ \cup {"hook50"}]  BY <2>2 DEF Effect
    <2>4. Effect(Program[at], dev) \in Devices
      <3>1. "hook50" \in OldStack  BY <1>3, Names
      <3> QED  BY <1>3, <2>2, <3>1, StaysDevice
    <2>5. dev' \in Devices  BY <1>1, <2>4, TriedDevice
    <2>6. /\ dev'.up = dev.up /\ dev'.fw = dev.fw /\ dev'.files = dev.files /\ dev'.plane = dev.plane /\ dev'.conf = dev.conf
          /\ dev'.snap = dev.snap /\ dev'.core = dev.core /\ dev'.routes = dev.routes
          /\ dev'.x = dev.x \cup {"hook50"}
      BY <1>2, <1>3, <1>22, <2>2, <2>3 DEF Devices
    <2>7. errs' = errs /\ at' = 0 /\ phase' = "idle" /\ armed' = FALSE /\ out' = IF errs' = {} THEN "undone" ELSE "failed"  BY <1>1, <1>22, RollbackMoves
    <2>8. "old" \notin errs  BY <1>5, <1>22, PartsAre
    <2>9. Device'  BY <1>1, <1>2, <1>3, <1>5, <1>22, <2>5, <2>6, <2>7, <2>8, Names DEF Device, Undone, Devices
    <2>10. dev'.x = OldStack /\ dev'.up = Units /\ ~dev'.plane  BY <1>2, <2>6, <2>9 DEF Device
    <2>11. AllOrNothing'  BY <1>1, <1>2, <1>3, <1>5, <1>22, <2>6, <2>7, <2>10 DEF AllOrNothing, Undone
    <2>12. CutTypeOK'
      <3>1. armed' \in BOOLEAN /\ out' \in {"none", "ok", "undone", "failed", "cut", "booted"}  BY <2>7
      <3>2. at' = 0 /\ phase' = "idle" /\ kind' = "tun" /\ errs' = errs  BY <1>2, <2>7
      <3> QED  BY <1>1, <1>2, <1>3, <2>5, <3>1, <3>2 DEF CutTypeOK
    <2> QED  BY <1>2, <2>7, <2>9, <2>11, <2>12 DEF CutInv, Forward, Script, Backward, ScriptBack
  <1> QED  BY <1>3, <1>6, <1>7, <1>8, <1>9, <1>10, <1>11, <1>12, <1>13, <1>14, <1>15, <1>16, <1>17, <1>18, <1>19, <1>20, <1>21, <1>22

(* The scripts' commands all succeed. *)
LEMMA ScriptTried ==
  ASSUME CutTypeOK, Device, kind = "kernel", Do
  PROVE  Tried(FALSE) /\ phase # "idle" /\ tally' = tally
  <1>1. phase # "idle"  BY DEF Do
  <1>2. at \in 1 .. 8  BY <1>1 DEF CutTypeOK
  <1>3. ~Fails(Program[at], dev)
    <2>1. ~site.stray /\ site.gw  BY DEF Device
    <2>2. \A do, on : Try(do, on).do = do /\ ~Try(do, on).must /\ Cmd(do, on).must  BY CmdIs
    <2>3. Program[at].do # "check" /\ ~Program[at].must
      <3>1. CASE phase = "forward"
        <4>1. Program = EmitCutoverScript  BY <3>1 DEF Program
        <4> QED  BY <1>2, <2>2, <4>1, ScriptProgram
      <3>2. CASE phase # "forward"
        <4>1. Program = EmitRollbackScript  BY <3>2 DEF Program
        <4> QED  BY <1>2, <2>2, <4>1, ScriptBackProgram
      <3> QED  BY <3>1, <3>2
    <2>4. Program[at] # Cmd("route", "default")  BY <2>2, <2>3
    <2> QED  BY <2>1, <2>3, <2>4 DEF Fails
  <1>4. Fails(Program[at], dev) = FALSE  BY <1>3 DEF Fails
  <1>5. Proceed(Fails(Program[at], dev)) /\ UNCHANGED <<kind, site, want, tally>>
        /\ dev' = IF Fails(Program[at], dev) THEN dev ELSE Effect(Program[at], dev)
    BY DEF Do
  <1>6. Proceed(FALSE)  BY <1>4, <1>5, Zenon
  <1> QED  BY <1>1, <1>3, <1>5, <1>6 DEF Tried

LEMMA ScriptStep ==
  ASSUME CutInv, kind = "kernel", phase = "forward", Do
  PROVE  CutInv'
  <1>1. CutTypeOK /\ Device /\ Script /\ errs = {} /\ out = "none"  BY DEF CutInv, Device
  <1>2. Tried(FALSE) /\ tally' = tally  BY <1>1, ScriptTried
  <1>3. dev \in Devices /\ at \in 1 .. 8  BY <1>1 DEF CutTypeOK
  <1>4. Program = EmitCutoverScript  BY DEF Program
  <1>5. UNCHANGED <<kind, site, want>> /\ dev' = Effect(Program[at], dev)  BY <1>2 DEF Tried
  <1>6. /\ errs' = errs
        /\ at < 8 => at' = at + 1 /\ UNCHANGED <<phase, armed, out>>
        /\ at = 8 => at' = 0 /\ phase' = "idle" /\ armed' = FALSE /\ out' = "ok"
    BY <1>1, <1>2, ScriptMoves
  <1>7. CASE at = 1
    <2>1. Program[at] = Try("stop", Services[1])  BY <1>3, <1>4, <1>7, ScriptProgram
    <2>2. Program[at].do = "stop" /\ Program[at].on = Services[1] /\ ~Program[at].must  BY <2>1, CmdIs
    <2>3. Effect(Program[at], dev) = [dev EXCEPT !.up = @ \ {Services[1]}, !.fw = @ /\ Services[1] # KeenPBR]  BY <2>2 DEF Effect
    <2>4. Effect(Program[at], dev) \in Devices
      BY <1>3, <2>2, StaysDevice
    <2>5. dev' \in Devices  BY <1>5, <2>4
    <2>6. /\ dev'.x = dev.x /\ dev'.files = dev.files /\ dev'.plane = dev.plane /\ dev'.conf = dev.conf /\ dev'.snap = dev.snap
          /\ dev'.core = dev.core /\ dev'.routes = dev.routes
          /\ dev'.up = dev.up \ {Services[1]}
      <3> DEFINE z == dev.fw /\ Services[1] # KeenPBR
      <3>1. dev' = [dev EXCEPT !.up = @ \ {Services[1]}, !.fw = z]  BY <1>5, <2>3
      <3> HIDE DEF z
      <3> QED  BY <1>3, <3>1 DEF Devices
    <2>7. Device'  BY <1>1, <1>3, <1>5, <1>6, <1>7, <2>6, Names DEF Device, Devices
    <2>8. Script'  BY <1>1, <1>3, <1>5, <1>6, <1>7, <2>6, Names DEF Script, Devices
    <2>9. CutTypeOK'  BY <1>1, <1>2, <1>3, <1>5, <1>6, <1>7, <2>5 DEF CutTypeOK
    <2> QED  BY <1>1, <1>5, <1>6, <1>7, <2>7, <2>8, <2>9 DEF CutInv, Forward, Script, Backward, ScriptBack, AllOrNothing
  <1>8. CASE at = 2
    <2>1. Program[at] = Try("x-", Services[1])  BY <1>3, <1>4, <1>8, ScriptProgram
    <2>2. Program[at].do = "x-" /\ Program[at].on = Services[1] /\ ~Program[at].must  BY <2>1, CmdIs
    <2>3. Effect(Program[at], dev) = [dev EXCEPT !.x = @ \ {Services[1]}]  BY <2>2 DEF Effect
    <2>4. Effect(Program[at], dev) \in Devices
      BY <1>3, <2>2, StaysDevice
    <2>5. dev' \in Devices  BY <1>5, <2>4
    <2>6. /\ dev'.up = dev.up /\ dev'.fw = dev.fw /\ dev'.files = dev.files /\ dev'.plane = dev.plane /\ dev'.conf = dev.conf
          /\ dev'.snap = dev.snap /\ dev'.core = dev.core /\ dev'.routes = dev.routes
          /\ dev'.x = dev.x \ {Services[1]}
      BY <1>3, <1>5, <2>3 DEF Devices
    <2>7. Device'  BY <1>1, <1>3, <1>5, <1>6, <1>8, <2>6, Names DEF Device, Devices
    <2>8. Script'  BY <1>1, <1>3, <1>5, <1>6, <1>8, <2>6, Names DEF Script, Devices
    <2>9. CutTypeOK'  BY <1>1, <1>2, <1>3, <1>5, <1>6, <1>8, <2>5 DEF CutTypeOK
    <2> QED  BY <1>1, <1>5, <1>6, <1>8, <2>7, <2>8, <2>9 DEF CutInv, Forward, Script, Backward, ScriptBack, AllOrNothing
  <1>9. CASE at = 3
    <2>1. Program[at] = Try("x-", "hook50")  BY <1>3, <1>4, <1>9, ScriptProgram
    <2>2. Program[at].do = "x-" /\ Program[at].on = "hook50" /\ ~Program[at].must  BY <2>1, CmdIs
    <2>3. Effect(Program[at], dev) = [dev EXCEPT !.x = @ \ {"hook50"}]  BY <2>2 DEF Effect
    <2>4. Effect(Program[at], dev) \in Devices
      BY <1>3, <2>2, StaysDevice
    <2>5. dev' \in Devices  BY <1>5, <2>4
    <2>6. /\ dev'.up = dev.up /\ dev'.fw = dev.fw /\ dev'.files = dev.files /\ dev'.plane = dev.plane /\ dev'.conf = dev.conf
          /\ dev'.snap = dev.snap /\ dev'.core = dev.core /\ dev'.routes = dev.routes
          /\ dev'.x = dev.x \ {"hook50"}
      BY <1>3, <1>5, <2>3 DEF Devices
    <2>7. Device'  BY <1>1, <1>3, <1>5, <1>6, <1>9, <2>6, Names DEF Device, Devices
    <2>8. Script'  BY <1>1, <1>3, <1>5, <1>6, <1>9, <2>6, Names DEF Script, Devices
    <2>9. CutTypeOK'  BY <1>1, <1>2, <1>3, <1>5, <1>6, <1>9, <2>5 DEF CutTypeOK
    <2> QED  BY <1>1, <1>5, <1>6, <1>9, <2>7, <2>8, <2>9 DEF CutInv, Forward, Script, Backward, ScriptBack, AllOrNothing
  <1>10. CASE at = 4
    <2>1. Program[at] = Try("plane", "on")  BY <1>3, <1>4, <1>10, ScriptProgram
    <2>2. Program[at].do = "plane" /\ Program[at].on = "on" /\ ~Program[at].must  BY <2>1, CmdIs
    <2>3. Effect(Program[at], dev) = [dev EXCEPT !.plane = "on" = "on"]  BY <2>2 DEF Effect
    <2>4. Effect(Program[at], dev) \in Devices
      BY <1>3, <2>2, StaysDevice
    <2>5. dev' \in Devices  BY <1>5, <2>4
    <2>6. /\ dev'.x = dev.x /\ dev'.up = dev.up /\ dev'.fw = dev.fw /\ dev'.files = dev.files /\ dev'.conf = dev.conf
          /\ dev'.snap = dev.snap /\ dev'.core = dev.core /\ dev'.routes = dev.routes
      BY <1>3, <1>5, <2>3 DEF Devices
    <2>7. Device'  BY <1>1, <1>3, <1>5, <1>6, <1>10, <2>6, Names DEF Device, Devices
    <2>8. Script'  BY <1>1, <1>3, <1>5, <1>6, <1>10, <2>6, Names DEF Script, Devices
    <2>9. CutTypeOK'  BY <1>1, <1>2, <1>3, <1>5, <1>6, <1>10, <2>5 DEF CutTypeOK
    <2> QED  BY <1>1, <1>5, <1>6, <1>10, <2>7, <2>8, <2>9 DEF CutInv, Forward, Script, Backward, ScriptBack, AllOrNothing
  <1>11. CASE at = 5
    <2>1. Program[at] = Try("put", "dns")  BY <1>3, <1>4, <1>11, ScriptProgram
    <2>2. Program[at].do = "put" /\ Program[at].on = "dns" /\ ~Program[at].must  BY <2>1, CmdIs
    <2>3. Effect(Program[at], dev) = [dev EXCEPT !.files = @ \cup {"dns"}]  BY <2>2 DEF Effect
    <2>4. Effect(Program[at], dev) \in Devices
      <3>1. "dns" \in WrFiles  BY <1>3, Names DEF WrFiles
      <3> QED  BY <1>3, <2>2, <3>1, StaysDevice
    <2>5. dev' \in Devices  BY <1>5, <2>4
    <2>6. /\ dev'.x = dev.x /\ dev'.up = dev.up /\ dev'.fw = dev.fw /\ dev'.plane = dev.plane /\ dev'.conf = dev.conf
          /\ dev'.snap = dev.snap /\ dev'.core = dev.core /\ dev'.routes = dev.routes
          /\ dev'.files = dev.files \cup {"dns"}
      BY <1>3, <1>5, <2>3 DEF Devices
    <2>7. Device'  BY <1>1, <1>3, <1>5, <1>6, <1>11, <2>6, Names DEF Device, Devices
    <2>8. Script'  BY <1>1, <1>3, <1>5, <1>6, <1>11, <2>6, Names DEF Script, Devices
    <2>9. CutTypeOK'  BY <1>1, <1>2, <1>3, <1>5, <1>6, <1>11, <2>5 DEF CutTypeOK
    <2> QED  BY <1>1, <1>5, <1>6, <1>11, <2>7, <2>8, <2>9 DEF CutInv, Forward, Script, Backward, ScriptBack, AllOrNothing
  <1>12. CASE at = 6
    <2>1. Program[at] = Try("put", "cron")  BY <1>3, <1>4, <1>12, ScriptProgram
    <2>2. Program[at].do = "put" /\ Program[at].on = "cron" /\ ~Program[at].must  BY <2>1, CmdIs
    <2>3. Effect(Program[at], dev) = [dev EXCEPT !.files = @ \cup {"cron"}]  BY <2>2 DEF Effect
    <2>4. Effect(Program[at], dev) \in Devices
      <3>1. "cron" \in WrFiles  BY <1>3, Names DEF WrFiles
      <3> QED  BY <1>3, <2>2, <3>1, StaysDevice
    <2>5. dev' \in Devices  BY <1>5, <2>4
    <2>6. /\ dev'.x = dev.x /\ dev'.up = dev.up /\ dev'.fw = dev.fw /\ dev'.plane = dev.plane /\ dev'.conf = dev.conf
          /\ dev'.snap = dev.snap /\ dev'.core = dev.core /\ dev'.routes = dev.routes
          /\ dev'.files = dev.files \cup {"cron"}
      BY <1>3, <1>5, <2>3 DEF Devices
    <2>7. Device'  BY <1>1, <1>3, <1>5, <1>6, <1>12, <2>6, Names DEF Device, Devices
    <2>8. Script'  BY <1>1, <1>3, <1>5, <1>6, <1>12, <2>6, Names DEF Script, Devices
    <2>9. CutTypeOK'  BY <1>1, <1>2, <1>3, <1>5, <1>6, <1>12, <2>5 DEF CutTypeOK
    <2> QED  BY <1>1, <1>5, <1>6, <1>12, <2>7, <2>8, <2>9 DEF CutInv, Forward, Script, Backward, ScriptBack, AllOrNothing
  <1>13. CASE at = 7
    <2>1. Program[at] = Try("put", "hook")  BY <1>3, <1>4, <1>13, ScriptProgram
    <2>2. Program[at].do = "put" /\ Program[at].on = "hook" /\ ~Program[at].must  BY <2>1, CmdIs
    <2>3. Effect(Program[at], dev) = [dev EXCEPT !.files = @ \cup {"hook"}]  BY <2>2 DEF Effect
    <2>4. Effect(Program[at], dev) \in Devices
      <3>1. "hook" \in WrFiles  BY <1>3, Names DEF WrFiles
      <3> QED  BY <1>3, <2>2, <3>1, StaysDevice
    <2>5. dev' \in Devices  BY <1>5, <2>4
    <2>6. /\ dev'.x = dev.x /\ dev'.up = dev.up /\ dev'.fw = dev.fw /\ dev'.plane = dev.plane /\ dev'.conf = dev.conf
          /\ dev'.snap = dev.snap /\ dev'.core = dev.core /\ dev'.routes = dev.routes
          /\ dev'.files = dev.files \cup {"hook"}
      BY <1>3, <1>5, <2>3 DEF Devices
    <2>7. Device'  BY <1>1, <1>3, <1>5, <1>6, <1>13, <2>6, Names DEF Device, Devices
    <2>8. Script'  BY <1>1, <1>3, <1>5, <1>6, <1>13, <2>6, Names DEF Script, Devices
    <2>9. CutTypeOK'  BY <1>1, <1>2, <1>3, <1>5, <1>6, <1>13, <2>5 DEF CutTypeOK
    <2> QED  BY <1>1, <1>5, <1>6, <1>13, <2>7, <2>8, <2>9 DEF CutInv, Forward, Script, Backward, ScriptBack, AllOrNothing
  <1>14. CASE at = 8
    <2>1. Program[at] = Try("put", "boot")  BY <1>3, <1>4, <1>14, ScriptProgram
    <2>2. Program[at].do = "put" /\ Program[at].on = "boot" /\ ~Program[at].must  BY <2>1, CmdIs
    <2>3. Effect(Program[at], dev) = [dev EXCEPT !.files = @ \cup {"boot"}]  BY <2>2 DEF Effect
    <2>4. Effect(Program[at], dev) \in Devices
      <3>1. "boot" \in WrFiles  BY <1>3, Names DEF WrFiles
      <3> QED  BY <1>3, <2>2, <3>1, StaysDevice
    <2>5. dev' \in Devices  BY <1>5, <2>4
    <2>6. /\ dev'.x = dev.x /\ dev'.up = dev.up /\ dev'.fw = dev.fw /\ dev'.plane = dev.plane /\ dev'.conf = dev.conf
          /\ dev'.snap = dev.snap /\ dev'.core = dev.core /\ dev'.routes = dev.routes
          /\ dev'.files = dev.files \cup {"boot"}
      BY <1>3, <1>5, <2>3 DEF Devices
    <2>7. Device'  BY <1>1, <1>3, <1>5, <1>6, <1>14, <2>6, Names DEF Device, Devices
    <2>8. AllOrNothing'
      <3>1. dev'.files = WrFiles  BY <1>1, <1>3, <1>5, <1>6, <1>14, <2>6, <2>5 DEF Script, Devices, WrFiles
      <3>2. {KeenPBR, "hook50"} \cap dev'.x = {}  BY <1>1, <1>3, <1>5, <1>6, <1>14, <2>6 DEF Script
      <3> QED  BY <1>5, <1>6, <1>14, <3>1, <3>2 DEF AllOrNothing, TakenOver
    <2>9. CutTypeOK'
      <3>1. armed' \in BOOLEAN /\ out' \in {"none", "ok", "undone", "failed", "cut", "booted"}  BY <1>6, <1>14
      <3>2. at' = 0 /\ phase' = "idle" /\ kind' = "kernel" /\ errs' = errs  BY <1>5, <1>6, <1>14
      <3> QED  BY <1>1, <1>2, <1>5, <2>5, <3>1, <3>2 DEF CutTypeOK
    <2> QED  BY <1>5, <1>6, <1>14, <2>7, <2>8, <2>9 DEF CutInv, Forward, Script, Backward, ScriptBack
  <1> QED  BY <1>3, <1>7, <1>8, <1>9, <1>10, <1>11, <1>12, <1>13, <1>14

LEMMA ScriptBackStep ==
  ASSUME CutInv, kind = "kernel", phase = "rollback", Do
  PROVE  CutInv'
  <1>1. CutTypeOK /\ Device /\ ScriptBack /\ errs = {} /\ out = "none"  BY DEF CutInv, Device
  <1>2. Tried(FALSE) /\ tally' = tally  BY <1>1, ScriptTried
  <1>3. dev \in Devices /\ at \in 1 .. 8  BY <1>1 DEF CutTypeOK
  <1>4. Program = EmitRollbackScript  BY DEF Program
  <1>5. UNCHANGED <<kind, site, want>> /\ dev' = Effect(Program[at], dev)  BY <1>2 DEF Tried
  <1>6. /\ errs' = errs
        /\ at < 8 => at' = at + 1 /\ UNCHANGED <<phase, armed, out>>
        /\ at = 8 => at' = 0 /\ phase' = "idle" /\ armed' = FALSE /\ out' = "undone"
    BY <1>1, <1>2, ScriptMoves
  <1>7. CASE at = 1
    <2>1. Program[at] = Try("rm", "cron")  BY <1>3, <1>4, <1>7, ScriptBackProgram
    <2>2. Program[at].do = "rm" /\ Program[at].on = "cron" /\ ~Program[at].must  BY <2>1, CmdIs
    <2>3. Effect(Program[at], dev) = [dev EXCEPT !.files = @ \ {"cron"}]  BY <2>2 DEF Effect
    <2>4. Effect(Program[at], dev) \in Devices
      BY <1>3, <2>2, StaysDevice
    <2>5. dev' \in Devices  BY <1>5, <2>4
    <2>6. /\ dev'.x = dev.x /\ dev'.up = dev.up /\ dev'.fw = dev.fw /\ dev'.plane = dev.plane /\ dev'.conf = dev.conf
          /\ dev'.snap = dev.snap /\ dev'.core = dev.core /\ dev'.routes = dev.routes
          /\ dev'.files = dev.files \ {"cron"}
      BY <1>3, <1>5, <2>3 DEF Devices
    <2>7. Device'  BY <1>1, <1>3, <1>5, <1>6, <1>7, <2>6, Names DEF Device, Devices
    <2>8. ScriptBack'  BY <1>1, <1>3, <1>5, <1>6, <1>7, <2>6, Names DEF ScriptBack, Devices
    <2>9. CutTypeOK'  BY <1>1, <1>2, <1>3, <1>5, <1>6, <1>7, <2>5 DEF CutTypeOK
    <2> QED  BY <1>1, <1>5, <1>6, <1>7, <2>7, <2>8, <2>9 DEF CutInv, Forward, Script, Backward, ScriptBack, AllOrNothing
  <1>8. CASE at = 2
    <2>1. Program[at] = Try("rm", "hook")  BY <1>3, <1>4, <1>8, ScriptBackProgram
    <2>2. Program[at].do = "rm" /\ Program[at].on = "hook" /\ ~Program[at].must  BY <2>1, CmdIs
    <2>3. Effect(Program[at], dev) = [dev EXCEPT !.files = @ \ {"hook"}]  BY <2>2 DEF Effect
    <2>4. Effect(Program[at], dev) \in Devices
      BY <1>3, <2>2, StaysDevice
    <2>5. dev' \in Devices  BY <1>5, <2>4
    <2>6. /\ dev'.x = dev.x /\ dev'.up = dev.up /\ dev'.fw = dev.fw /\ dev'.plane = dev.plane /\ dev'.conf = dev.conf
          /\ dev'.snap = dev.snap /\ dev'.core = dev.core /\ dev'.routes = dev.routes
          /\ dev'.files = dev.files \ {"hook"}
      BY <1>3, <1>5, <2>3 DEF Devices
    <2>7. Device'  BY <1>1, <1>3, <1>5, <1>6, <1>8, <2>6, Names DEF Device, Devices
    <2>8. ScriptBack'  BY <1>1, <1>3, <1>5, <1>6, <1>8, <2>6, Names DEF ScriptBack, Devices
    <2>9. CutTypeOK'  BY <1>1, <1>2, <1>3, <1>5, <1>6, <1>8, <2>5 DEF CutTypeOK
    <2> QED  BY <1>1, <1>5, <1>6, <1>8, <2>7, <2>8, <2>9 DEF CutInv, Forward, Script, Backward, ScriptBack, AllOrNothing
  <1>9. CASE at = 3
    <2>1. Program[at] = Try("rm", "dns")  BY <1>3, <1>4, <1>9, ScriptBackProgram
    <2>2. Program[at].do = "rm" /\ Program[at].on = "dns" /\ ~Program[at].must  BY <2>1, CmdIs
    <2>3. Effect(Program[at], dev) = [dev EXCEPT !.files = @ \ {"dns"}]  BY <2>2 DEF Effect
    <2>4. Effect(Program[at], dev) \in Devices
      BY <1>3, <2>2, StaysDevice
    <2>5. dev' \in Devices  BY <1>5, <2>4
    <2>6. /\ dev'.x = dev.x /\ dev'.up = dev.up /\ dev'.fw = dev.fw /\ dev'.plane = dev.plane /\ dev'.conf = dev.conf
          /\ dev'.snap = dev.snap /\ dev'.core = dev.core /\ dev'.routes = dev.routes
          /\ dev'.files = dev.files \ {"dns"}
      BY <1>3, <1>5, <2>3 DEF Devices
    <2>7. Device'  BY <1>1, <1>3, <1>5, <1>6, <1>9, <2>6, Names DEF Device, Devices
    <2>8. ScriptBack'  BY <1>1, <1>3, <1>5, <1>6, <1>9, <2>6, Names DEF ScriptBack, Devices
    <2>9. CutTypeOK'  BY <1>1, <1>2, <1>3, <1>5, <1>6, <1>9, <2>5 DEF CutTypeOK
    <2> QED  BY <1>1, <1>5, <1>6, <1>9, <2>7, <2>8, <2>9 DEF CutInv, Forward, Script, Backward, ScriptBack, AllOrNothing
  <1>10. CASE at = 4
    <2>1. Program[at] = Try("rm", "boot")  BY <1>3, <1>4, <1>10, ScriptBackProgram
    <2>2. Program[at].do = "rm" /\ Program[at].on = "boot" /\ ~Program[at].must  BY <2>1, CmdIs
    <2>3. Effect(Program[at], dev) = [dev EXCEPT !.files = @ \ {"boot"}]  BY <2>2 DEF Effect
    <2>4. Effect(Program[at], dev) \in Devices
      BY <1>3, <2>2, StaysDevice
    <2>5. dev' \in Devices  BY <1>5, <2>4
    <2>6. /\ dev'.x = dev.x /\ dev'.up = dev.up /\ dev'.fw = dev.fw /\ dev'.plane = dev.plane /\ dev'.conf = dev.conf
          /\ dev'.snap = dev.snap /\ dev'.core = dev.core /\ dev'.routes = dev.routes
          /\ dev'.files = dev.files \ {"boot"}
      BY <1>3, <1>5, <2>3 DEF Devices
    <2>7. Device'  BY <1>1, <1>3, <1>5, <1>6, <1>10, <2>6, Names DEF Device, Devices
    <2>8. ScriptBack'  BY <1>1, <1>3, <1>5, <1>6, <1>10, <2>6, Names DEF ScriptBack, Devices
    <2>9. CutTypeOK'  BY <1>1, <1>2, <1>3, <1>5, <1>6, <1>10, <2>5 DEF CutTypeOK
    <2> QED  BY <1>1, <1>5, <1>6, <1>10, <2>7, <2>8, <2>9 DEF CutInv, Forward, Script, Backward, ScriptBack, AllOrNothing
  <1>11. CASE at = 5
    <2>1. Program[at] = Try("plane", "off")  BY <1>3, <1>4, <1>11, ScriptBackProgram
    <2>2. Program[at].do = "plane" /\ Program[at].on = "off" /\ ~Program[at].must  BY <2>1, CmdIs
    <2>3. Effect(Program[at], dev) = [dev EXCEPT !.plane = "off" = "on"]  BY <2>2 DEF Effect
    <2>4. Effect(Program[at], dev) \in Devices
      BY <1>3, <2>2, StaysDevice
    <2>5. dev' \in Devices  BY <1>5, <2>4
    <2>6. /\ dev'.x = dev.x /\ dev'.up = dev.up /\ dev'.fw = dev.fw /\ dev'.files = dev.files /\ dev'.conf = dev.conf
          /\ dev'.snap = dev.snap /\ dev'.core = dev.core /\ dev'.routes = dev.routes
          /\ ~dev'.plane
      BY <1>3, <1>5, <2>3 DEF Devices
    <2>7. Device'  BY <1>1, <1>3, <1>5, <1>6, <1>11, <2>6, Names DEF Device, Devices
    <2>8. ScriptBack'  BY <1>1, <1>3, <1>5, <1>6, <1>11, <2>6, Names DEF ScriptBack, Devices
    <2>9. CutTypeOK'  BY <1>1, <1>2, <1>3, <1>5, <1>6, <1>11, <2>5 DEF CutTypeOK
    <2> QED  BY <1>1, <1>5, <1>6, <1>11, <2>7, <2>8, <2>9 DEF CutInv, Forward, Script, Backward, ScriptBack, AllOrNothing
  <1>12. CASE at = 6
    <2>1. Program[at] = Try("x+", "hook50")  BY <1>3, <1>4, <1>12, ScriptBackProgram
    <2>2. Program[at].do = "x+" /\ Program[at].on = "hook50" /\ ~Program[at].must  BY <2>1, CmdIs
    <2>3. Effect(Program[at], dev) = [dev EXCEPT !.x = @ \cup {"hook50"}]  BY <2>2 DEF Effect
    <2>4. Effect(Program[at], dev) \in Devices
      <3>1. "hook50" \in OldStack  BY <1>3, Names
      <3> QED  BY <1>3, <2>2, <3>1, StaysDevice
    <2>5. dev' \in Devices  BY <1>5, <2>4
    <2>6. /\ dev'.up = dev.up /\ dev'.fw = dev.fw /\ dev'.files = dev.files /\ dev'.plane = dev.plane /\ dev'.conf = dev.conf
          /\ dev'.snap = dev.snap /\ dev'.core = dev.core /\ dev'.routes = dev.routes
          /\ dev'.x = dev.x \cup {"hook50"}
      BY <1>3, <1>5, <2>3 DEF Devices
    <2>7. Device'  BY <1>1, <1>3, <1>5, <1>6, <1>12, <2>6, Names DEF Device, Devices
    <2>8. ScriptBack'  BY <1>1, <1>3, <1>5, <1>6, <1>12, <2>6, Names DEF ScriptBack, Devices
    <2>9. CutTypeOK'  BY <1>1, <1>2, <1>3, <1>5, <1>6, <1>12, <2>5 DEF CutTypeOK
    <2> QED  BY <1>1, <1>5, <1>6, <1>12, <2>7, <2>8, <2>9 DEF CutInv, Forward, Script, Backward, ScriptBack, AllOrNothing
  <1>13. CASE at = 7
    <2>1. Program[at] = Try("x+", Services[1])  BY <1>3, <1>4, <1>13, ScriptBackProgram
    <2>2. Program[at].do = "x+" /\ Program[at].on = Services[1] /\ ~Program[at].must  BY <2>1, CmdIs
    <2>3. Effect(Program[at], dev) = [dev EXCEPT !.x = @ \cup {Services[1]}]  BY <2>2 DEF Effect
    <2>4. Effect(Program[at], dev) \in Devices
      <3>1. Services[1] \in OldStack  BY <1>3, Names
      <3> QED  BY <1>3, <2>2, <3>1, StaysDevice
    <2>5. dev' \in Devices  BY <1>5, <2>4
    <2>6. /\ dev'.up = dev.up /\ dev'.fw = dev.fw /\ dev'.files = dev.files /\ dev'.plane = dev.plane /\ dev'.conf = dev.conf
          /\ dev'.snap = dev.snap /\ dev'.core = dev.core /\ dev'.routes = dev.routes
          /\ dev'.x = dev.x \cup {Services[1]}
      BY <1>3, <1>5, <2>3 DEF Devices
    <2>7. Device'  BY <1>1, <1>3, <1>5, <1>6, <1>13, <2>6, Names DEF Device, Devices
    <2>8. ScriptBack'  BY <1>1, <1>3, <1>5, <1>6, <1>13, <2>6, Names DEF ScriptBack, Devices
    <2>9. CutTypeOK'  BY <1>1, <1>2, <1>3, <1>5, <1>6, <1>13, <2>5 DEF CutTypeOK
    <2> QED  BY <1>1, <1>5, <1>6, <1>13, <2>7, <2>8, <2>9 DEF CutInv, Forward, Script, Backward, ScriptBack, AllOrNothing
  <1>14. CASE at = 8
    <2>1. Program[at] = Try("start", Services[1])  BY <1>3, <1>4, <1>14, ScriptBackProgram
    <2>2. Program[at].do = "start" /\ Program[at].on = Services[1] /\ ~Program[at].must  BY <2>1, CmdIs
    <2>3. Effect(Program[at], dev) = [dev EXCEPT !.up = @ \cup {Services[1]}, !.fw = @ \/ Services[1] = KeenPBR]  BY <2>2 DEF Effect
    <2>4. Effect(Program[at], dev) \in Devices
      <3>1. Services[1] \in Units  BY <1>3, Names
      <3> QED  BY <1>3, <2>2, <3>1, StaysDevice
    <2>5. dev' \in Devices  BY <1>5, <2>4
    <2>6. /\ dev'.x = dev.x /\ dev'.files = dev.files /\ dev'.plane = dev.plane /\ dev'.conf = dev.conf /\ dev'.snap = dev.snap
          /\ dev'.core = dev.core /\ dev'.routes = dev.routes
          /\ dev'.up = dev.up \cup {Services[1]}
      <3> DEFINE z == dev.fw \/ Services[1] = KeenPBR
      <3>1. dev' = [dev EXCEPT !.up = @ \cup {Services[1]}, !.fw = z]  BY <1>5, <2>3
      <3> HIDE DEF z
      <3> QED  BY <1>3, <3>1 DEF Devices
    <2>7. Device'  BY <1>1, <1>3, <1>5, <1>6, <1>14, <2>6, Names DEF Device, Devices
    <2>8. AllOrNothing'
      <3>1. dev'.files = {} /\ ~dev'.plane  BY <1>1, <1>3, <1>5, <1>6, <1>14, <2>6 DEF ScriptBack, Devices, WrFiles
      <3>2. dev'.x = OldStack  BY <1>1, <1>3, <1>5, <1>6, <1>14, <2>6, Names DEF ScriptBack, Device, Devices
      <3>3. dev'.up = Units  BY <1>1, <1>3, <1>5, <1>6, <1>14, <2>6, Names DEF Device, Devices
      <3>4. dev'.conf = "orig" /\ dev'.core = "orig" /\ dev'.routes = {}  BY <1>5, <2>7 DEF Device
      <3> QED  BY <1>6, <1>14, <3>1, <3>2, <3>3, <3>4 DEF AllOrNothing
    <2>9. CutTypeOK'
      <3>1. armed' \in BOOLEAN /\ out' \in {"none", "ok", "undone", "failed", "cut", "booted"}  BY <1>6, <1>14
      <3>2. at' = 0 /\ phase' = "idle" /\ kind' = "kernel" /\ errs' = errs  BY <1>5, <1>6, <1>14
      <3> QED  BY <1>1, <1>2, <1>5, <2>5, <3>1, <3>2 DEF CutTypeOK
    <2> QED  BY <1>5, <1>6, <1>14, <2>7, <2>8, <2>9 DEF CutInv, Forward, Script, Backward, ScriptBack
  <1> QED  BY <1>3, <1>7, <1>8, <1>9, <1>10, <1>11, <1>12, <1>13, <1>14

-----------------------------------------------------------------------------
LEMMA CutInitially == CutInit => CutInv
  <1> SUFFICES ASSUME CutInit PROVE CutInv  OBVIOUS
  <1>1. /\ dev.x = OldStack /\ dev.up = Units /\ dev.fw = TRUE /\ dev.files = {} /\ dev.plane = FALSE
        /\ dev.conf = site.conf /\ dev.snap = "none" /\ dev.core = Running(site.conf) /\ dev.routes = {}
    BY DEF CutInit
  <1>2. site.conf \in {"orig", "none"} /\ Running("orig") = "orig" /\ Running("none") = "down"  BY DEF CutInit, Running
  <1>3. dev \in Devices  BY <1>2 DEF CutInit, Devices, Confs
  <1>4. CutTypeOK
    <2>1. tally \in [cut : Nat, fault : Nat, reboot : Nat]  BY DEF CutInit
    <2>2. /\ kind \in {"tun", "kernel"} /\ site \in [conf : {"orig", "none"}, stray : BOOLEAN, gw : BOOLEAN]
          /\ want = "good" /\ phase = "idle" /\ at = 0 /\ armed = FALSE /\ errs = {} /\ out = "none"
      BY DEF CutInit
    <2>3. at \in 0 .. (IF kind = "kernel" THEN 8 ELSE IF phase = "forward" THEN 19 ELSE 16)
      <3>1. CASE kind = "kernel"  BY <2>2, <3>1
      <3>2. CASE kind # "kernel"  BY <2>2, <3>2
      <3> QED  BY <3>1, <3>2
    <2> QED  BY <1>3, <2>1, <2>2, <2>3 DEF CutTypeOK
  <1>5. Device  BY <1>1, <1>2, Names DEF CutInit, Device
  <1> QED  BY <1>4, <1>5 DEF CutInit, CutInv, Forward, Script, Backward, ScriptBack, AllOrNothing

LEMMA Starts == ASSUME CutInv, NEW cfg \in {"good", "bad"}, StartCutover(cfg) PROVE CutInv'
  <1>1. CutTypeOK /\ Device  BY DEF CutInv
  <1>2. CutTypeOK'
    <2>1. tally' \in [cut : Nat, fault : Nat, reboot : Nat]  BY <1>1 DEF CutTypeOK, StartCutover
    <2> QED  BY <1>1, <2>1 DEF CutTypeOK, StartCutover
  <1>3. Device'  BY <1>1 DEF Device, StartCutover
  <1> QED  BY <1>2, <1>3 DEF StartCutover, CutInv, Forward, Script, Backward, ScriptBack, AllOrNothing

LEMMA RollsBack == ASSUME CutInv, Rollback PROVE CutInv'
  <1>1. CutTypeOK /\ Device  BY DEF CutInv
  <1>2. CutTypeOK'  BY <1>1 DEF CutTypeOK, Rollback
  <1>3. Device'  BY <1>1 DEF Device, Rollback
  <1>4. Backward'  BY DEF Backward, Undone, Rollback
  <1> QED  BY <1>2, <1>3, <1>4 DEF Rollback, CutInv, Forward, Script, ScriptBack, AllOrNothing

LEMMA Confirms == ASSUME CutInv, ConfirmSafe PROVE CutInv'
  <1>1. CutTypeOK /\ Device  BY DEF CutInv
  <1>2. CutTypeOK'  BY <1>1 DEF CutTypeOK, ConfirmSafe
  <1>3. Device'  BY <1>1 DEF Device, ConfirmSafe
  <1>4. AllOrNothing'  BY DEF AllOrNothing, TakenOver, CutInv, ConfirmSafe
  <1> QED  BY <1>2, <1>3, <1>4 DEF ConfirmSafe, CutInv, Forward, Script, Backward, ScriptBack

LEMMA Rebuilds == ASSUME CutInv, Netfilter PROVE CutInv'
  <1>1. CutTypeOK /\ Device /\ dev \in Devices  BY DEF CutInv, CutTypeOK, Devices
  <1>2. UNCHANGED <<kind, site, want, phase, at, armed, errs, out, tally>>  BY DEF Netfilter
  <1>3. /\ dev' \in Devices
        /\ dev'.x = dev.x /\ dev'.up = dev.up /\ dev'.files = dev.files /\ dev'.conf = dev.conf
        /\ dev'.snap = dev.snap /\ dev'.core = dev.core /\ dev'.routes = dev.routes
        /\ dev'.fw => {"hook50", KeenPBR} \subseteq dev.x
        /\ dev'.plane <=> kind = "kernel" /\ "hook" \in dev.files
    <2> DEFINE y == {"hook50", KeenPBR} \subseteq dev.x
               z == kind = "kernel" /\ "hook" \in dev.files
    <2>1. dev' = [dev EXCEPT !.fw = y, !.plane = z]  BY DEF Netfilter
    <2>2. /\ y \in BOOLEAN /\ z \in BOOLEAN /\ (y => {"hook50", KeenPBR} \subseteq dev.x)
          /\ (z <=> kind = "kernel" /\ "hook" \in dev.files)
      OBVIOUS
    <2> HIDE DEF y, z
    <2>3. dev'.fw = y /\ dev'.plane = z  BY <1>1, <2>1 DEF Devices
    <2>4. /\ dev'.x = dev.x /\ dev'.up = dev.up /\ dev'.files = dev.files /\ dev'.conf = dev.conf
          /\ dev'.snap = dev.snap /\ dev'.core = dev.core /\ dev'.routes = dev.routes
      BY <1>1, <2>1 DEF Devices
    <2>5. dev' \in Devices  BY <1>1, <2>1, <2>2 DEF Devices
    <2> QED  BY <2>2, <2>3, <2>4, <2>5
  <1>4. CutTypeOK'  BY <1>1, <1>2, <1>3 DEF CutTypeOK
  <1>5. Device'  BY <1>1, <1>2, <1>3, Names DEF Device
  <1>6. Forward' /\ Script'  BY <1>2, <1>3 DEF CutInv, Forward, Script
  <1>7. Backward' /\ ScriptBack'
    <2>1. Undone(at) => Undone(at)'  BY <1>2, <1>3 DEF Undone
    <2>2. Backward'  BY <1>2, <2>1 DEF CutInv, Backward
    <2>3. at > 5 => at > 2  BY <1>1 DEF CutTypeOK
    <2>4. ScriptBack'  BY <1>2, <1>3, <2>3 DEF CutInv, ScriptBack
    <2> QED  BY <2>2, <2>4
  <1>8. AllOrNothing'
    <2>1. TakenOver => TakenOver'  BY <1>2, <1>3 DEF TakenOver
    <2>2. out = "booted" => kind = "kernel"
      BY <1>1 DEF CutInv, AllOrNothing, Device, CutTypeOK
    <2>3. out = "booted" => dev'.plane  BY <1>3, <2>2 DEF CutInv, AllOrNothing, TakenOver, WrFiles
    <2>4. out \in {"undone", "failed"} => ~dev'.plane  BY <1>1, <1>3 DEF CutInv, AllOrNothing, Device
    <2> QED  BY <1>2, <1>3, <2>1, <2>3, <2>4 DEF CutInv, AllOrNothing
  <1> QED  BY <1>2, <1>4, <1>5, <1>6, <1>7, <1>8 DEF CutInv

LEMMA Reboots == ASSUME CutInv, Reboot PROVE CutInv'
  <1>1. CutTypeOK /\ Device /\ dev \in Devices  BY DEF CutInv, CutTypeOK, Devices
  <1>2. /\ UNCHANGED <<kind, site, want>> /\ phase' = "idle" /\ at' = 0 /\ armed' = FALSE /\ errs' = {}
        /\ out' = IF kind = "kernel" /\ out \in {"ok", "booted"} THEN "booted" ELSE "cut"
    BY DEF Reboot
  <1>3. /\ dev' \in Devices
        /\ dev'.x = dev.x /\ dev'.up = Units \cap dev.x /\ dev'.files = dev.files /\ dev'.conf = dev.conf
        /\ dev'.snap = dev.snap /\ dev'.core = Running(dev.conf) /\ dev'.routes = {}
        /\ dev'.fw => KeenPBR \in dev.x
        /\ dev'.plane <=> kind = "kernel" /\ {"boot", "hook"} \subseteq dev.files
    <2> DEFINE y == KeenPBR \in dev.x
               z == kind = "kernel" /\ {"boot", "hook"} \subseteq dev.files
    <2>1. dev' = [dev EXCEPT !.up = Units \cap dev.x, !.fw = y, !.plane = z, !.core = Running(dev.conf), !.routes = {}]
      BY DEF Reboot
    <2>2. /\ y \in BOOLEAN /\ z \in BOOLEAN /\ (y => KeenPBR \in dev.x)
          /\ (z <=> kind = "kernel" /\ {"boot", "hook"} \subseteq dev.files)
      OBVIOUS
    <2>3. Running(dev.conf) \in {"orig", "good", "down"}  BY DEF Running
    <2> HIDE DEF y, z
    <2>4. dev'.fw = y /\ dev'.plane = z  BY <1>1, <2>1 DEF Devices
    <2>5. /\ dev'.x = dev.x /\ dev'.up = Units \cap dev.x /\ dev'.files = dev.files /\ dev'.conf = dev.conf
          /\ dev'.snap = dev.snap /\ dev'.core = Running(dev.conf) /\ dev'.routes = {}
      BY <1>1, <2>1 DEF Devices
    <2>6. dev' \in Devices  BY <1>1, <2>1, <2>2, <2>3 DEF Devices
    <2> QED  BY <2>2, <2>4, <2>5, <2>6
  <1>4. CutTypeOK'
    <2>1. tally' \in [cut : Nat, fault : Nat, reboot : Nat]  BY <1>1 DEF CutTypeOK, Reboot
    <2>2. out' \in {"none", "ok", "undone", "failed", "cut", "booted"}  BY <1>2
    <2>3. phase' = "idle" /\ at' = 0 /\ armed' = FALSE /\ errs' = {}  BY <1>2
    <2>4. /\ kind' \in {"tun", "kernel"} /\ site' \in [conf : {"orig", "none"}, stray : BOOLEAN, gw : BOOLEAN]
          /\ want' \in {"good", "bad"}
      BY <1>1, <1>2 DEF CutTypeOK
    <2>5. (at \in 0 .. (IF kind = "kernel" THEN 8 ELSE IF phase = "forward" THEN 19 ELSE 16))'
      <3>1. CASE kind' = "kernel"  BY <2>3, <3>1
      <3>2. CASE kind' # "kernel"  BY <2>3, <3>2
      <3> QED  BY <3>1, <3>2
    <2> QED  BY <1>3, <2>1, <2>2, <2>3, <2>4, <2>5 DEF CutTypeOK
  <1>5. Device'
    <2>1. dev.conf = "orig" => Running(dev.conf) = "orig"  BY DEF Running
    <2>2. CASE kind = "tun"  BY <1>1, <1>2, <1>3, <2>2, Names DEF Device
    <2>3. CASE kind = "kernel"  BY <1>1, <1>2, <1>3, <2>1, <2>3, Names DEF Device
    <2> QED  BY <1>1, <2>2, <2>3 DEF CutTypeOK
  <1>6. AllOrNothing'
    <2>1. CASE out' = "cut"  BY <2>1 DEF AllOrNothing
    <2>2. CASE out' = "booted"
      <3>1. kind = "kernel" /\ TakenOver  BY <1>2, <2>2 DEF CutInv, AllOrNothing
      <3>2. dev.files = WrFiles /\ {KeenPBR, "hook50"} \cap dev.x = {}  BY <3>1 DEF TakenOver
      <3>3. dev'.plane  BY <1>3, <3>1, <3>2 DEF WrFiles
      <3>4. TakenOver'  BY <1>2, <1>3, <3>1, <3>2 DEF TakenOver
      <3> QED  BY <2>2, <3>3, <3>4 DEF AllOrNothing
    <2> QED  BY <1>2, <2>1, <2>2
  <1> QED  BY <1>2, <1>4, <1>5, <1>6 DEF CutInv, Forward, Script, Backward, ScriptBack

LEMMA CutStep == CutInv /\ [CutNext]_cutVars => CutInv'
  <1> SUFFICES ASSUME CutInv, [CutNext]_cutVars PROVE CutInv'  OBVIOUS
  <1>1. CutTypeOK /\ Device  BY DEF CutInv
  <1>2. ASSUME Do \/ CommandFails PROVE CutInv'
    <2>1. phase \in {"forward", "rollback"} /\ kind \in {"tun", "kernel"}  BY <1>1, <1>2 DEF Do, CommandFails, CutTypeOK
    <2>2. tally' \in [cut : Nat, fault : Nat, reboot : Nat]
      <3>1. tally \in [cut : Nat, fault : Nat, reboot : Nat]  BY <1>1 DEF CutTypeOK
      <3>2. CASE Do  BY <3>1, <3>2 DEF Do
      <3>3. CASE CommandFails
        <4>1. tally' = [tally EXCEPT !.fault = @ + 1]  BY <3>3 DEF CommandFails
        <4> QED  BY <3>1, <4>1
      <3> QED  BY <1>2, <3>2, <3>3
    <2>3. CASE kind = "tun"
      <3>1. PICK f \in BOOLEAN : Tried(f)  BY <1>2, OneTried
      <3> QED  BY <2>1, <2>2, <2>3, <3>1, ForwardStep, RollbackStep
    <2>4. CASE kind = "kernel"
      <3>1. Do  BY <1>2, <2>4 DEF CommandFails
      <3> QED  BY <2>1, <2>4, <3>1, ScriptStep, ScriptBackStep
    <2> QED  BY <2>1, <2>3, <2>4
  <1>3. CASE UNCHANGED cutVars
    BY <1>3 DEF cutVars, CutInv, CutTypeOK, Device, Forward, Script, Backward, Undone, ScriptBack, AllOrNothing, TakenOver
  <1> QED  BY <1>2, <1>3, Starts, RollsBack, Confirms, Rebuilds, Reboots DEF CutNext

(* A cutover takes the router over or leaves it as it was, part by part,    *)
(* for any number of cutovers, failing commands, firewall rebuilds and      *)
(* reboots (cutover.go Cutover, RetireOldStack, RestoreOldStack;            *)
(* kpbr_cutover.go).                                                        *)
THEOREM CutoverIsWhole == CutSpec => []AllOrNothing
  <1>1. CutInv => AllOrNothing  BY DEF CutInv
  <1> QED  BY <1>1, CutInitially, CutStep, PTL DEF CutSpec
-----------------------------------------------------------------------------
(* A set of numbers has a least one. *)
LEMMA LeastOf ==
    ASSUME NEW T, T \subseteq Nat, T # {}
    PROVE  \E x \in T : \A y \in T : x <= y
<1>. DEFINE R == OpToRel(<, Nat)
<1>1. IsWellFoundedOn(R, Nat)
  BY NatLessThanWellFounded
<1>2. \A x, y \in Nat : y < x => <<y, x>> \in R
  BY Zenon DEF OpToRel
<1>. HIDE DEF R
<1>3. PICK x \in T : \A y \in T : ~(<<y, x>> \in R)
  BY <1>1, WFMin
<1>4. \A y \in T : ~(y < x)
  BY <1>2, <1>3
<1>. QED
  BY <1>4

(* First gives an element, if there is one. *)
LEMMA FirstIs ==
    ASSUME NEW f, DOMAIN f \subseteq Nat, DOMAIN f # {}
    PROVE  First(f) \in Range(f)
<1>1. \E i \in DOMAIN f : \A j \in DOMAIN f : i <= j
  BY LeastOf
<1>. DEFINE k == CHOOSE i \in DOMAIN f : \A j \in DOMAIN f : i <= j
<1>2. k \in DOMAIN f
  BY <1>1, Zenon
<1>3. First(f) = f[k]
  BY Zenon DEF First
<1>. HIDE DEF k
<1>. QED
  BY <1>2, <1>3 DEF Range

(* Among keeps what is in the set. *)
LEMMA AmongIs ==
    ASSUME NEW f, NEW S
    PROVE  DOMAIN Among(f, S) \subseteq DOMAIN f /\ Range(Among(f, S)) = Range(f) \cap S
  BY DEF Among, Restrict, Range

(* A member that is named again is named where it came first. *)
LEMMA DistinctIs ==
    ASSUME NEW ms, DOMAIN ms \subseteq Nat
    PROVE  DOMAIN Distinct(ms) \subseteq Nat /\ Range(Distinct(ms)) = Range(ms)
<1>. DEFINE S == {i \in DOMAIN ms : \A j \in DOMAIN ms : j < i => ms[j] # ms[i]}
<1>1. DOMAIN Distinct(ms) = S /\ \A i \in S : Distinct(ms)[i] = ms[i]
  BY DEF Distinct, Restrict
<1>2. ASSUME NEW i \in DOMAIN ms PROVE \E k \in S : ms[k] = ms[i]
  <2>. DEFINE T == {j \in DOMAIN ms : ms[j] = ms[i]}
  <2>1. T \subseteq Nat /\ T # {}
    BY <1>2
  <2>2. PICK k \in T : \A y \in T : k <= y
    <3>. HIDE DEF T
    <3>. QED
      BY <2>1, LeastOf
  <2>3. \A j \in DOMAIN ms : j < k => ms[j] # ms[k]
    BY <2>1, <2>2
  <2>. QED
    BY <2>2, <2>3
<1>3. S \subseteq DOMAIN ms
  OBVIOUS
<1>. HIDE DEF S
<1>4. Range(Distinct(ms)) \subseteq Range(ms)
  BY <1>1, <1>3 DEF Range
<1>5. Range(ms) \subseteq Range(Distinct(ms))
  BY <1>1, <1>2 DEF Range
<1>. QED
  BY <1>1, <1>3, <1>4, <1>5

-----------------------------------------------------------------------------
(* The fixed skeleton of the router. *)
AllEndpoints == {"keentest", "netherlands", "nd_vps", "nl_failover", "hy2_main", "vless_main"}
GroupIds == {"blocked_rf", "failover_with_wan", "failover_strict", "default_3tier"}

(* The tunnels that are interfaces of the router.                           *)
LEMMA NativeIs == Native = {"keentest", "netherlands", "nd_vps", "nl_failover"}
  BY DEF Native, LiveAdoptInterfaces

(* The endpoints of the skeleton.                                           *)
LEMMA EndpointsAre == Range(liveEndpoints) = AllEndpoints /\ DOMAIN liveEndpoints \subseteq Nat
<1>1. DOMAIN liveEndpoints = 1 .. 6
  BY DEF liveEndpoints
<1>2. /\ liveEndpoints[1] = "keentest" /\ liveEndpoints[2] = "netherlands" /\ liveEndpoints[3] = "nd_vps"
      /\ liveEndpoints[4] = "nl_failover" /\ liveEndpoints[5] = "hy2_main" /\ liveEndpoints[6] = "vless_main"
  BY DEF liveEndpoints
<1>3. \A i \in 1 .. 6 : i = 1 \/ i = 2 \/ i = 3 \/ i = 4 \/ i = 5 \/ i = 6
  OBVIOUS
<1>. QED
  BY <1>1, <1>2, <1>3 DEF Range, AllEndpoints

(* The members of its groups.                                               *)
LEMMA GroupsAre ==
    /\ DOMAIN liveGroups = GroupIds
    /\ \A g \in GroupIds : DOMAIN liveGroups[g] \subseteq Nat /\ Range(liveGroups[g]) # {}
    /\ Range(liveGroups["blocked_rf"]) = {"keentest", "nd_vps"}
    /\ Range(liveGroups["failover_with_wan"]) = {"keentest", "netherlands", "nd_vps"}
    /\ Range(liveGroups["failover_strict"]) = {"keentest", "netherlands", "nd_vps"}
    /\ Range(liveGroups["default_3tier"]) = {"hy2_main", "nl_failover", "vless_main", "direct"}
<1>. DEFINE two == <<"keentest", "nd_vps">>
            three == <<"keentest", "netherlands", "nd_vps">>
            four == <<"hy2_main", "nl_failover", "vless_main", "direct">>
<1>1. /\ DOMAIN liveGroups = GroupIds
      /\ liveGroups["blocked_rf"] = two /\ liveGroups["failover_with_wan"] = three
      /\ liveGroups["failover_strict"] = three /\ liveGroups["default_3tier"] = four
  BY DEF liveGroups, GroupIds
<1>2. DOMAIN two \subseteq Nat /\ Range(two) = {"keentest", "nd_vps"}
  <2>1. DOMAIN two = {1, 2} /\ two[1] = "keentest" /\ two[2] = "nd_vps"
    OBVIOUS
  <2>. QED
    BY <2>1 DEF Range
<1>3. DOMAIN three \subseteq Nat /\ Range(three) = {"keentest", "netherlands", "nd_vps"}
  <2>1. DOMAIN three = {1, 2, 3} /\ three[1] = "keentest" /\ three[2] = "netherlands" /\ three[3] = "nd_vps"
    OBVIOUS
  <2>. QED
    BY <2>1 DEF Range
<1>4. DOMAIN four \subseteq Nat /\ Range(four) = {"hy2_main", "nl_failover", "vless_main", "direct"}
  <2>1. DOMAIN four = {1, 2, 3, 4} /\ four[1] = "hy2_main" /\ four[2] = "nl_failover" /\ four[3] = "vless_main" /\ four[4] = "direct"
    OBVIOUS
  <2>. QED
    BY <2>1 DEF Range
<1>. HIDE DEF two, three, four
<1>. QED
  BY <1>1, <1>2, <1>3, <1>4 DEF GroupIds

-----------------------------------------------------------------------------
(* What a name becomes when the missing endpoints are remapped. *)
Moved(x, miss, t) == IF x \in miss THEN t ELSE x

Resent(l, miss, t) == [l EXCEPT !.out = Moved(@, miss, t)]

(* A profile of the skeleton, remapped: its endpoints and its groups. *)
Remapped(p, miss, t) ==
    /\ Range(p.eps) = AllEndpoints \ miss /\ DOMAIN p.eps \subseteq Nat
    /\ DOMAIN p.groups = GroupIds
    /\ \A g \in GroupIds : Range(p.groups[g]) = {Moved(x, miss, t) : x \in Range(liveGroups[g])}
    /\ p.default = "default_3tier"

(* remapMissing on the skeleton with some lists. *)
LEMMA RemapIs ==
    ASSUME NEW L, NEW miss, NEW t
    PROVE  LET p == remapMissing([LiveProfile EXCEPT !.lists = L], miss, t) IN
           Remapped(p, miss, t) /\ p.lists = {Resent(l, miss, t) : l \in L}
<1>. DEFINE p0 == [LiveProfile EXCEPT !.lists = L]
            ms(g) == [i \in DOMAIN liveGroups[g] |-> Moved(liveGroups[g][i], miss, t)]
            p == remapMissing(p0, miss, t)
<1>1. p0.eps = liveEndpoints /\ p0.groups = liveGroups /\ p0.lists = L /\ p0.default = "default_3tier"
  BY DEF LiveProfile
<1>. HIDE DEF p0
<1>2. /\ p.eps = Among(liveEndpoints, Range(liveEndpoints) \ miss)
      /\ p.groups = [g \in DOMAIN liveGroups |-> Distinct(ms(g))]
      /\ p.lists = {Resent(l, miss, t) : l \in L}
      /\ p.default = "default_3tier"
  BY <1>1 DEF remapMissing, Resent, Moved
<1>. HIDE DEF p
<1>3. Range(p.eps) = AllEndpoints \ miss /\ DOMAIN p.eps \subseteq Nat
  BY <1>2, AmongIs, EndpointsAre
<1>4. ASSUME NEW g \in GroupIds
      PROVE  Range(p.groups[g]) = {Moved(x, miss, t) : x \in Range(liveGroups[g])}
  <2>1. DOMAIN ms(g) \subseteq Nat
    BY GroupsAre
  <2>2. Range(ms(g)) = {Moved(x, miss, t) : x \in Range(liveGroups[g])}
    BY DEF Range
  <2>3. p.groups[g] = Distinct(ms(g))
    BY <1>2, GroupsAre
  <2>. HIDE DEF ms
  <2>. QED
    BY <2>1, <2>2, <2>3, DistinctIs
<1>5. DOMAIN p.groups = GroupIds
  BY <1>2, GroupsAre
<1>6. Remapped(p, miss, t)
  BY <1>2, <1>3, <1>4, <1>5 DEF Remapped
<1>. QED
  BY <1>2, <1>6 DEF p, p0

(* A profile that validates was remapped to an endpoint that is there. *)
LEMMA TargetIsThere ==
    ASSUME NEW p, NEW miss \in SUBSET Native, NEW t \in AllEndpoints, Remapped(p, miss, t),
           \A g \in DOMAIN p.groups : Range(p.groups[g]) \subseteq Resolvable(p)
    PROVE  t \notin miss
<1>. SUFFICES ASSUME t \in miss PROVE FALSE
  OBVIOUS
<1>1. t \notin Resolvable(p)
  BY NativeIs DEF Resolvable, Remapped, GroupIds
<1>2. PICK g \in GroupIds : t \in Range(liveGroups[g])
  BY GroupsAre, NativeIs DEF GroupIds
<1>3. Moved(t, miss, t) = t
  BY DEF Moved
<1>4. t \in Range(p.groups[g])
  BY <1>2, <1>3 DEF Remapped
<1>. QED
  BY <1>1, <1>2, <1>4 DEF Remapped

(* A routing list. *)
ListOf(id, src, feed, manual, srs, dst, on) ==
    [id |-> id, src |-> src, feed |-> feed, manual |-> manual, srs |-> srs, out |-> dst, on |-> on]
ListRec(l) == l = ListOf(l.id, l.src, l.feed, l.manual, l.srs, l.out, l.on)

Fields(l, id, src, feed, manual, srs, dst, on) ==
    /\ l.id = id /\ l.src = src /\ l.feed = feed /\ l.manual = manual /\ l.srs = srs /\ l.out = dst /\ l.on = on
    /\ ListRec(l)

(* A routing list has the fields it is made of.                             *)
LEMMA FieldsAre ==
    ASSUME NEW id, NEW src, NEW feed, NEW manual, NEW srs, NEW dst, NEW on
    PROVE  Fields(ListOf(id, src, feed, manual, srs, dst, on), id, src, feed, manual, srs, dst, on)
<1>. DEFINE l == ListOf(id, src, feed, manual, srs, dst, on)
<1>1. l.id = id /\ l.src = src /\ l.feed = feed /\ l.manual = manual /\ l.srs = srs /\ l.out = dst /\ l.on = on
  BY DEF ListOf
<1>. QED
  BY <1>1, Zenon DEF ListRec, Fields

(* A list as ImportKeenPBR makes it from list id. *)
FromKeen(l, id, a) ==
    ListRec(l) /\ l.id[1] = id /\ l.out = a.out /\ l.on = a.on /\ l.srs = FALSE

(* An entry that a list has, here or where it is to be fetched. *)
Has(l, e) ==
    \/ e \in l.manual
    \/ l.feed # "" /\ e \in ParseDomainFeed(FeedBody[l.feed])
    \/ l.src # "" /\ e \in ParseDomainFeed(FeedBody[l.src])

HasContent(l) == l.src # "" \/ l.feed # "" \/ l.manual # {}

(* A list that ImportKeenPBR adds. *)
Added(id, a, tag, src, feed, manual) == ListOf(<<id, tag>>, src, feed, manual, FALSE, a.out, a.on)

Given(l, id, a, src, feed, manual) == FromKeen(l, id, a) /\ l.src = src /\ l.feed = feed /\ l.manual = manual

(* What such a list has.                                                    *)
LEMMA AddedIs ==
    ASSUME NEW id, NEW a, NEW tag, NEW src, NEW feed, NEW manual
    PROVE  Given(Added(id, a, tag, src, feed, manual), id, a, src, feed, manual)
<1>. DEFINE l == Added(id, a, tag, src, feed, manual)
<1>1. Fields(ListOf(<<id, tag>>, src, feed, manual, FALSE, a.out, a.on), <<id, tag>>, src, feed, manual, FALSE, a.out, a.on)
  BY FieldsAre, Zenon
<1>2. Fields(l, <<id, tag>>, src, feed, manual, FALSE, a.out, a.on)
  BY <1>1, Zenon DEF Added
<1>3. <<id, tag>>[1] = id
  OBVIOUS
<1>. QED
  BY <1>2, <1>3, Zenon DEF FromKeen, Fields, Given

(* ImportKeenPBR: what the lists of one keen-pbr list are, that none is     *)
(* empty, and that each entry is in one.                                    *)
LEMMA ListsAre ==
    ASSUME NEW cfg, NEW id
    PROVE  LET k == cfg.lists[id]
               a == Assigned(cfg, id)
               ls == RoutingLists(cfg, id)
           IN /\ \A l \in ls : FromKeen(l, id, a)
              /\ k.file \in {""} \cup DOMAIN Files => \A l \in ls : HasContent(l)
              /\ \A e \in KeenEntries(k) : \E l \in ls : Has(l, e)
<1>. DEFINE k == cfg.lists[id]
            a == Assigned(cfg, id)
            ls == RoutingLists(cfg, id)
            lines == IF k.file \in DOMAIN Files THEN Files[k.file] ELSE {}
            last == IF k.domains = {} THEN "" ELSE "_ip"
            empty == {Added(id, a, tag, "", "", {}) : tag \in {"", "_ip"}}
<1>1. /\ k.url # "" /\ isCIDRFeedURL(k.url) => ls = {Added(id, a, "", "", k.url, {})}
      /\ k.url # "" /\ ~isCIDRFeedURL(k.url) => ls = {Added(id, a, "", k.url, "", {})}
      /\ k.url = "" /\ k.file # "" => ls = {Added(id, a, "", "", "", lines)}
      /\ k.url = "" /\ k.file = "" =>
            ls = {Added(id, a, "", "", "", k.domains), Added(id, a, last, "", "", k.cidrs)} \ empty
  BY DEF RoutingLists, Added, ListOf
<1>2. KeenEntries(k) = IF k.url # "" THEN ParseDomainFeed(FeedBody[k.url])
                       ELSE IF k.file # "" THEN lines ELSE k.domains \cup k.cidrs
  BY DEF KeenEntries
<1>3. k.file \in DOMAIN Files => lines # {}
  BY MigrateAssumption
<1>4. Added(id, a, "", "", "", {}) \in empty /\ Added(id, a, last, "", "", {}) \in empty
  OBVIOUS
<1>5. \A m \in empty : m.manual = {}
  <2>1. \A tag : Given(Added(id, a, tag, "", "", {}), id, a, "", "", {})
    BY AddedIs, Zenon
  <2>. QED
    BY <2>1, Zenon DEF Given
<1>. HIDE DEF k, a, ls, lines, empty, last
<1>6. CASE k.url # "" /\ isCIDRFeedURL(k.url)
  <2>. DEFINE l == Added(id, a, "", "", k.url, {})
  <2>1. FromKeen(l, id, a) /\ l.feed = k.url
    <3>1. Given(l, id, a, "", k.url, {})
      BY AddedIs, Zenon
    <3>. QED
      BY <3>1, Zenon DEF Given
  <2>. HIDE DEF l
  <2>2. HasContent(l) /\ \A e \in KeenEntries(k) : Has(l, e)
    BY <1>2, <1>6, <2>1 DEF HasContent, Has
  <2>3. ls = {l}
    BY <1>1, <1>6 DEF l
  <2>. QED
    BY <2>1, <2>2, <2>3 DEF k, a, ls
<1>7. CASE k.url # "" /\ ~isCIDRFeedURL(k.url)
  <2>. DEFINE l == Added(id, a, "", k.url, "", {})
  <2>1. FromKeen(l, id, a) /\ l.src = k.url
    <3>1. Given(l, id, a, k.url, "", {})
      BY AddedIs, Zenon
    <3>. QED
      BY <3>1, Zenon DEF Given
  <2>. HIDE DEF l
  <2>2. HasContent(l) /\ \A e \in KeenEntries(k) : Has(l, e)
    BY <1>2, <1>7, <2>1 DEF HasContent, Has
  <2>3. ls = {l}
    BY <1>1, <1>7 DEF l
  <2>. QED
    BY <2>1, <2>2, <2>3 DEF k, a, ls
<1>8. CASE k.url = "" /\ k.file # ""
  <2>. DEFINE l == Added(id, a, "", "", "", lines)
  <2>1. FromKeen(l, id, a) /\ l.manual = lines
    <3>1. Given(l, id, a, "", "", lines)
      BY AddedIs, Zenon
    <3>. QED
      BY <3>1, Zenon DEF Given
  <2>. HIDE DEF l
  <2>2. (k.file \in DOMAIN Files => HasContent(l)) /\ \A e \in KeenEntries(k) : Has(l, e)
    BY <1>2, <1>3, <1>8, <2>1 DEF HasContent, Has
  <2>3. ls = {l}
    BY <1>1, <1>8 DEF l
  <2>. QED
    BY <1>8, <2>1, <2>2, <2>3 DEF k, a, ls
<1>9. CASE k.url = "" /\ k.file = ""
  <2>. DEFINE l == Added(id, a, "", "", "", k.domains)
              m == Added(id, a, last, "", "", k.cidrs)
  <2>1. FromKeen(l, id, a) /\ l.manual = k.domains
    <3>1. Given(l, id, a, "", "", k.domains)
      BY AddedIs, Zenon
    <3>. QED
      BY <3>1, Zenon DEF Given
  <2>2. FromKeen(m, id, a) /\ m.manual = k.cidrs
    <3>1. Given(m, id, a, "", "", k.cidrs)
      BY AddedIs, Zenon
    <3>. QED
      BY <3>1, Zenon DEF Given
  <2>3. ls = {l, m} \ empty
    BY <1>1, <1>9
  <2>4. (k.domains = {} => l \in empty) /\ (k.cidrs = {} => m \in empty)
    BY <1>4
  <2>. HIDE DEF l, m
  <2>5. (k.domains # {} => l \in ls) /\ (k.cidrs # {} => m \in ls)
    BY <1>5, <2>1, <2>2, <2>3
  <2>6. \A x \in ls : FromKeen(x, id, a) /\ HasContent(x)
    BY <2>1, <2>2, <2>3, <2>4 DEF HasContent
  <2>7. \A e \in KeenEntries(k) : \E x \in ls : Has(x, e)
    <3>1. KeenEntries(k) = k.domains \cup k.cidrs
      BY <1>2, <1>9
    <3>2. (\A e \in k.domains : Has(l, e)) /\ (\A e \in k.cidrs : Has(m, e))
      BY <2>1, <2>2 DEF Has
    <3>. QED
      BY <2>5, <3>1, <3>2
  <2>. QED
    BY <2>6, <2>7 DEF k, a, ls
<1>. QED
  BY <1>6, <1>7, <1>8, <1>9

(* The lists in use, and what they become on the way to a config. *)
LEMMA ActiveAre ==
    ASSUME NEW cfg
    PROVE  /\ \A l \in Active(cfg) : \E id \in DOMAIN cfg.lists :
                 /\ l \in RoutingLists(cfg, id) /\ FromKeen(l, id, Assigned(cfg, id)) /\ l.out # ""
           /\ \A id \in DOMAIN cfg.lists : Assigned(cfg, id).out # "" =>
                 \A e \in KeenEntries(cfg.lists[id]) : \E l \in Active(cfg) : FromKeen(l, id, Assigned(cfg, id)) /\ Has(l, e)
<1>1. \A l : l \in Active(cfg) <=> l.out # "" /\ \E id \in DOMAIN cfg.lists : l \in RoutingLists(cfg, id)
  BY DEF Active, ImportKeenPBR
<1>2. ASSUME NEW l \in Active(cfg)
      PROVE  \E id \in DOMAIN cfg.lists :
                 l \in RoutingLists(cfg, id) /\ FromKeen(l, id, Assigned(cfg, id)) /\ l.out # ""
  BY <1>1, <1>2, ListsAre
<1>3. ASSUME NEW id \in DOMAIN cfg.lists, Assigned(cfg, id).out # "", NEW e \in KeenEntries(cfg.lists[id])
      PROVE  \E l \in Active(cfg) : FromKeen(l, id, Assigned(cfg, id)) /\ Has(l, e)
  <2>1. PICK l \in RoutingLists(cfg, id) : Has(l, e)
    BY <1>3, ListsAre
  <2>2. FromKeen(l, id, Assigned(cfg, id))
    BY <2>1, ListsAre
  <2>3. l.out # ""
    BY <1>3, <2>2 DEF FromKeen
  <2>. QED
    BY <1>1, <2>1, <2>2, <2>3
<1>. QED
  BY <1>2, <1>3

(* The same list, with the catalog's rule set perhaps. *)
SameList(m, l) ==
    /\ ListRec(m) /\ m.id = l.id /\ m.src = l.src /\ m.feed = l.feed /\ m.manual = l.manual /\ m.out = l.out /\ m.on = l.on
    /\ m.srs \in BOOLEAN /\ (m.srs => m.src # "")

(* applyCatalogSRS sets nothing else.                                       *)
LEMMA CatalogIs ==
    ASSUME NEW ls, \A l \in ls : ListRec(l)
    PROVE  /\ \A l \in ls : \E m \in applyCatalogSRS(ls) : SameList(m, l)
           /\ \A m \in applyCatalogSRS(ls) : \E l \in ls : SameList(m, l)
<1>1. ASSUME NEW l \in ls
      PROVE  SameList([l EXCEPT !.srs = l.src # "" /\ l.id[1] \in Catalog], l)
  <2>. DEFINE s == l.src # "" /\ l.id[1] \in Catalog
              m == ListOf(l.id, l.src, l.feed, l.manual, s, l.out, l.on)
  <2>1. s \in BOOLEAN /\ (s => l.src # "")
    OBVIOUS
  <2>. HIDE DEF s
  <2>2. [l EXCEPT !.srs = s] = m
    BY <1>1 DEF ListRec, ListOf
  <2>3. Fields(m, l.id, l.src, l.feed, l.manual, s, l.out, l.on)
    BY FieldsAre, Zenon
  <2>. HIDE DEF m
  <2>4. SameList(m, l)
    BY <2>1, <2>3, Zenon DEF SameList, Fields
  <2>. QED
    BY <2>2, <2>4 DEF s
<1>. QED
  BY <1>1 DEF applyCatalogSRS

(* InlineCIDRSources and InlineDomainSources on one list; all three steps. *)
InlineCIDR(l) == IF l.feed = "" THEN l ELSE [l EXCEPT !.feed = "", !.manual = @ \cup ParseDomainFeed(FeedBody[l.feed])]
InlineDomain(l) == IF l.src = "" \/ l.srs THEN l ELSE [l EXCEPT !.src = "", !.manual = @ \cup ParseDomainFeed(FeedBody[l.src])]
Made(l, miss, t) == InlineDomain(InlineCIDR(Resent(l, miss, t)))

(* What a list is once its references are remapped and its feeds inlined. *)
MadeFrom(m, l, miss, t) ==
    /\ m.id = l.id /\ m.on = l.on /\ m.out = Moved(l.out, miss, t) /\ m.srs = l.srs
    /\ m.src # "" => m.srs /\ m.src = l.src
    /\ l.srs => m.src = l.src
    /\ \A e : Has(l, e) => e \in m.manual \/ m.srs

(* What the three steps make of a list.                                     *)
LEMMA MadeIs ==
    ASSUME NEW l, ListRec(l), l.srs \in BOOLEAN, l.srs => l.src # "", NEW miss, NEW t
    PROVE  /\ ListRec(Resent(l, miss, t)) /\ ListRec(Made(l, miss, t))
           /\ MadeFrom(Made(l, miss, t), l, miss, t)
<1>. DEFINE P(u) == ParseDomainFeed(FeedBody[u])
            o == Moved(l.out, miss, t)
            r == Resent(l, miss, t)
            c == InlineCIDR(r)
            d == InlineDomain(c)
<1>1. r = ListOf(l.id, l.src, l.feed, l.manual, l.srs, o, l.on)
  <2>. HIDE DEF o
  <2>1. r = [l EXCEPT !.out = o]
    BY DEF Resent, o
  <2>2. l = ListOf(l.id, l.src, l.feed, l.manual, l.srs, l.out, l.on)
    BY Zenon DEF ListRec
  <2>. QED
    BY <2>1, <2>2 DEF ListOf
<1>. HIDE DEF r, o
<1>2. /\ r.id = l.id /\ r.src = l.src /\ r.feed = l.feed /\ r.manual = l.manual /\ r.srs = l.srs /\ r.out = o /\ r.on = l.on
      /\ ListRec(r)
  <2>1. Fields(ListOf(l.id, l.src, l.feed, l.manual, l.srs, o, l.on), l.id, l.src, l.feed, l.manual, l.srs, o, l.on)
    BY FieldsAre, Zenon
  <2>. QED
    BY <1>1, <2>1, Zenon DEF Fields
<1>. DEFINE got == IF r.feed = "" THEN r.manual ELSE r.manual \cup P(r.feed)
<1>3. c = ListOf(r.id, r.src, "", got, r.srs, r.out, r.on)
  BY <1>2 DEF InlineCIDR, ListRec, ListOf
<1>. HIDE DEF c
<1>4. /\ c.id = r.id /\ c.src = r.src /\ c.feed = "" /\ c.srs = r.srs /\ c.out = r.out /\ c.on = r.on
      /\ c.manual = got /\ ListRec(c)
  <2>1. Fields(ListOf(r.id, r.src, "", got, r.srs, r.out, r.on), r.id, r.src, "", got, r.srs, r.out, r.on)
    BY FieldsAre, Zenon
  <2>. QED
    BY <1>3, <2>1, Zenon DEF Fields
<1>5. CASE c.src = "" \/ c.srs
  <2>1. d = c
    BY <1>5 DEF InlineDomain
  <2>2. \A e : Has(l, e) => e \in c.manual \/ c.srs
    BY <1>2, <1>4, <1>5 DEF Has
  <2>3. ListRec(d) /\ MadeFrom(d, l, miss, t)
    BY <1>2, <1>4, <1>5, <2>1, <2>2, Zenon DEF MadeFrom, o
  <2>. QED
    BY <1>2, <2>3 DEF Made, d, c, r
<1>6. CASE ~(c.src = "" \/ c.srs)
  <2>1. d = ListOf(c.id, "", c.feed, c.manual \cup P(c.src), c.srs, c.out, c.on)
    BY <1>4, <1>6 DEF InlineDomain, ListRec, ListOf
  <2>2. /\ d.id = c.id /\ d.src = "" /\ d.srs = c.srs /\ d.out = c.out /\ d.on = c.on /\ d.manual = c.manual \cup P(c.src)
        /\ ListRec(d)
    <3>. DEFINE all == c.manual \cup P(c.src)
    <3>1. Fields(ListOf(c.id, "", c.feed, all, c.srs, c.out, c.on), c.id, "", c.feed, all, c.srs, c.out, c.on)
      BY FieldsAre, Zenon
    <3>. HIDE DEF d
    <3>. QED
      BY <2>1, <3>1, Zenon DEF Fields
  <2>. HIDE DEF d
  <2>3. \A e : Has(l, e) => e \in d.manual \/ d.srs
    BY <1>2, <1>4, <1>6, <2>2 DEF Has
  <2>4. ~l.srs
    BY <1>2, <1>4, <1>6, Zenon
  <2>5. MadeFrom(d, l, miss, t)
    BY <1>2, <1>4, <2>2, <2>3, <2>4, Zenon DEF MadeFrom, o
  <2>. QED
    BY <1>2, <2>2, <2>5 DEF Made, d, c, r
<1>. QED
  BY <1>5, <1>6

(* The lists a profile starts from are the lists in use. *)
Like(L, cfg) ==
    /\ \A l \in Active(cfg) : \E k \in L : SameList(k, l)
    /\ \A k \in L : \E l \in Active(cfg) : SameList(k, l)

(* So are those of BuildKernelPlan and, with the catalog, of BuildProfile.  *)
LEMMA LikeIs == ASSUME NEW cfg PROVE Like(Active(cfg), cfg) /\ Like(applyCatalogSRS(Active(cfg)), cfg)
<1>1. ASSUME NEW l \in Active(cfg) PROVE ListRec(l) /\ l.srs = FALSE
  <2>1. PICK id : FromKeen(l, id, Assigned(cfg, id))
    BY <1>1, ActiveAre
  <2>. QED
    BY <2>1, Zenon DEF FromKeen
<1>2. ASSUME NEW l \in Active(cfg) PROVE SameList(l, l)
  BY <1>1, <1>2, Zenon DEF SameList
<1>. QED
  BY <1>1, <1>2, CatalogIs DEF Like

(* The lists of p are those of L, remapped and inlined, but for some that   *)
(* came out empty.                                                          *)
MadeOf(p, L, miss, t) ==
    /\ \A m \in p.lists : \E k \in L : m = Made(k, miss, t)
    /\ \A k \in L : Made(k, miss, t).manual # {} \/ Made(k, miss, t).srs => Made(k, miss, t) \in p.lists

(* Rules that send what keen-pbr's enabled lists have where it did. *)
RulesLike(cfg, rules, miss, t) ==
    /\ \A r \in rules : r.remote => r.srs
    /\ \A id \in DOMAIN cfg.lists : Assigned(cfg, id).on /\ Assigned(cfg, id).out # "" =>
          \A e \in KeenEntries(cfg.lists[id]) : \E r \in rules :
             /\ r.id[1] = id /\ (e \in r.entries \/ r.srs)
             /\ r.out = Moved(Assigned(cfg, id).out, miss, t)

(* The rules of a profile whose lists are the lists in use, remapped and    *)
(* inlined, but for some that came out empty: no plain-text list is remote, *)
(* and every entry of an enabled list has its rule.                         *)
LEMMA RulesAre ==
    ASSUME NEW cfg, NEW L, Like(L, cfg), NEW miss, NEW t, NEW p, MadeOf(p, L, miss, t)
    PROVE  RulesLike(cfg, ListRules(p), miss, t)
<1>0. /\ \A m \in p.lists : \E k \in L : m = Made(k, miss, t)
      /\ \A k \in L : Made(k, miss, t).manual # {} \/ Made(k, miss, t).srs => Made(k, miss, t) \in p.lists
  BY DEF MadeOf
<1>. DEFINE rule(m) == [id |-> m.id, remote |-> m.src # "", srs |-> m.srs, entries |-> m.manual, out |-> m.out]
<1>1. ASSUME NEW k \in L
      PROVE  MadeFrom(Made(k, miss, t), k, miss, t) /\ (k.srs => k.src # "")
  <2>1. ListRec(k) /\ k.srs \in BOOLEAN /\ (k.srs => k.src # "")
    BY <1>1, Zenon DEF Like, SameList
  <2>. QED
    BY <2>1, MadeIs
<1>2. ASSUME NEW r \in ListRules(p), r.remote PROVE r.srs
  <2>1. PICK m \in p.lists : r = rule(m)
    BY <1>2 DEF ListRules
  <2>2. m.src # ""
    BY <1>2, <2>1
  <2>3. m.srs
    BY <1>0, <1>1, <2>2, Zenon DEF MadeFrom
  <2>. QED
    BY <2>1, <2>3
<1>3. ASSUME NEW id \in DOMAIN cfg.lists, Assigned(cfg, id).on, Assigned(cfg, id).out # "", NEW e \in KeenEntries(cfg.lists[id])
      PROVE  \E r \in ListRules(p) : /\ r.id[1] = id /\ (e \in r.entries \/ r.srs)
                                     /\ r.out = Moved(Assigned(cfg, id).out, miss, t)
  <2>1. PICK l \in Active(cfg) : FromKeen(l, id, Assigned(cfg, id)) /\ Has(l, e)
    BY <1>3, ActiveAre
  <2>2. PICK k \in L : SameList(k, l)
    BY <2>1 DEF Like
  <2>. DEFINE m == Made(k, miss, t)
  <2>3. MadeFrom(m, k, miss, t) /\ (k.srs => k.src # "")
    BY <1>1, <2>2
  <2>4. Has(k, e)
    BY <2>1, <2>2, Zenon DEF Has, SameList
  <2>. HIDE DEF m
  <2>5. e \in m.manual \/ m.srs
    BY <2>3, <2>4, Zenon DEF MadeFrom
  <2>6. m.srs => m.src # ""
    BY <2>3, Zenon DEF MadeFrom
  <2>7. m \in p.lists
    BY <1>0, <2>2, <2>5 DEF m
  <2>8. m.on
    BY <1>3, <2>1, <2>2, <2>3, Zenon DEF MadeFrom, SameList, FromKeen
  <2>9. m.id[1] = id /\ m.out = Moved(Assigned(cfg, id).out, miss, t)
    BY <2>1, <2>2, <2>3, Zenon DEF MadeFrom, SameList, FromKeen
  <2>10. rule(m) \in ListRules(p)
    BY <2>5, <2>6, <2>7, <2>8 DEF ListRules
  <2>11. rule(m).id = m.id /\ rule(m).entries = m.manual /\ rule(m).out = m.out /\ rule(m).srs = m.srs
    OBVIOUS
  <2>. HIDE DEF rule
  <2>12. rule(m).id[1] = id /\ (e \in rule(m).entries \/ rule(m).srs) /\ rule(m).out = Moved(Assigned(cfg, id).out, miss, t)
    BY <2>5, <2>9, <2>11, Zenon
  <2>. QED
    BY <2>10, <2>12, Zenon
<1>. QED
  BY <1>2, <1>3 DEF RulesLike

-----------------------------------------------------------------------------
(* The endpoints and groups of a config or plan are the skeleton's, remapped.*)
Framed(c, miss, t) ==
    /\ c.eps = AllEndpoints \ miss /\ DOMAIN c.groups = GroupIds
    /\ \A g \in GroupIds : Range(c.groups[g]) = {Moved(x, miss, t) : x \in Range(liveGroups[g])}

(* One that is remapped to a live endpoint and has such rules routes as     *)
(* keen-pbr did.                                                            *)
LEMMA AlikeIs ==
    ASSUME NEW in, in.cfg \in KeenConfigs, NEW t \in AllEndpoints \ ReconcileAdopt(in.live), NEW c,
           Framed(c, ReconcileAdopt(in.live), t), RulesLike(in.cfg, c.rules, ReconcileAdopt(in.live), t)
    PROVE  RoutesAlike(in, c)
<1>. DEFINE miss == ReconcileAdopt(in.live)
<1>0. miss \subseteq Native
  BY DEF ReconcileAdopt
<1>. USE DEF Framed, RulesLike
<1>1. \A g \in GroupIds : Range(c.groups[g]) # {} /\ Range(c.groups[g]) \subseteq c.eps \cup {"direct"}
  <2>1. \A g \in GroupIds : \A x \in Range(liveGroups[g]) : x \in AllEndpoints \cup {"direct"}
    BY GroupsAre DEF GroupIds, AllEndpoints
  <2>2. \A x \in AllEndpoints \cup {"direct"} : Moved(x, miss, t) \in c.eps \cup {"direct"}
    BY DEF Moved
  <2>3. ASSUME NEW g \in GroupIds
        PROVE  Range(c.groups[g]) # {} /\ Range(c.groups[g]) \subseteq c.eps \cup {"direct"}
    <3>1. Range(c.groups[g]) = {Moved(x, miss, t) : x \in Range(liveGroups[g])}
      BY <2>3
    <3>2. Range(liveGroups[g]) # {}
      BY <2>3, GroupsAre
    <3>3. \A x \in Range(liveGroups[g]) : Moved(x, miss, t) \in c.eps \cup {"direct"}
      BY <2>1, <2>2, <2>3
    <3>. DEFINE G == Range(c.groups[g])
                H == Range(liveGroups[g])
                E == c.eps \cup {"direct"}
    <3>4. G = {Moved(x, miss, t) : x \in H} /\ H # {} /\ \A x \in H : Moved(x, miss, t) \in E
      BY <3>1, <3>2, <3>3
    <3>. HIDE DEF G, H, E
    <3>5. G # {} /\ G \subseteq E
      <4>1. PICK x \in H : TRUE
        BY <3>4, Zenon
      <4>2. Moved(x, miss, t) \in G
        BY <3>4, Zenon
      <4>3. \A y \in G : \E z \in H : y = Moved(z, miss, t)
        BY <3>4, Zenon
      <4>4. ASSUME NEW y \in G PROVE y \in E
        <5>1. PICK z \in H : y = Moved(z, miss, t)
          BY <4>3
        <5>2. Moved(z, miss, t) \in E
          BY <3>4
        <5>. QED
          BY <5>1, <5>2
      <4>. QED
        BY <4>2, <4>4
    <3>. QED
      BY <3>5 DEF G, E
  <2>. QED
    BY <2>3
<1>2. \A e \in c.eps \cap Native : LiveAdoptInterfaces[e] \in in.live
  BY DEF ReconcileAdopt
<1>3. \A g \in GroupIds \ {"default_3tier"} : "direct" \notin Range(c.groups[g])
  <2>1. \A g \in GroupIds \ {"default_3tier"} : "direct" \notin Range(liveGroups[g])
    BY GroupsAre DEF GroupIds
  <2>2. t # "direct"
    BY DEF AllEndpoints
  <2>3. ASSUME NEW g \in GroupIds \ {"default_3tier"}
        PROVE  "direct" \notin Range(c.groups[g])
    <3>1. Range(c.groups[g]) = {Moved(x, miss, t) : x \in Range(liveGroups[g])}
      BY <2>3
    <3>. QED
      BY <2>1, <2>2, <3>1 DEF Moved
  <2>. QED
    BY <2>3
<1>4. ASSUME NEW id \in DOMAIN in.cfg.lists, Assigned(in.cfg, id).on, NEW e \in KeenEntries(in.cfg.lists[id])
      PROVE  \E r \in c.rules :
              /\ r.id[1] = id /\ (e \in r.entries \/ r.srs)
              /\ r.out = Assigned(in.cfg, id).out \/ (Assigned(in.cfg, id).out \in Native \ c.eps /\ r.out \in c.eps)
              /\ Assigned(in.cfg, id).out \in DOMAIN c.groups => "direct" \notin Range(c.groups[Assigned(in.cfg, id).out])
  <2>. DEFINE o == Assigned(in.cfg, id).out
  <2>1. o # "" /\ o # "default_3tier"
    BY <1>4, MigrateAssumption
  <2>2. PICK r \in c.rules : r.id[1] = id /\ (e \in r.entries \/ r.srs) /\ r.out = Moved(o, miss, t)
    BY <1>4, <2>1
  <2>. HIDE DEF o
  <2>3. r.out = o \/ (o \in Native \ c.eps /\ r.out \in c.eps)
    BY <1>0, <2>2 DEF Moved
  <2>4. o \in DOMAIN c.groups => "direct" \notin Range(c.groups[o])
    BY <1>3, <2>1
  <2>. QED
    BY <2>2, <2>3, <2>4, Zenon DEF o
<1>. HIDE DEF miss
<1>. QED
  BY <1>1, <1>2, <1>4 DEF RoutesAlike

(* firstLiveTunnel finds a live tunnel if there is one. *)
LEMMA LiveTunnel ==
    ASSUME NEW miss \in SUBSET Native
    PROVE  /\ miss = Native => firstLiveTunnel(miss) = ""
           /\ miss # Native => firstLiveTunnel(miss) \in Native \ miss
<1>. DEFINE order == <<"netherlands", "nd_vps", "nl_failover", "keentest">>
            up == Among(order, Native \ miss)
<1>1. Range(order) = Native /\ DOMAIN order \subseteq Nat
  <2>1. DOMAIN order = {1, 2, 3, 4} /\ order[1] = "netherlands" /\ order[2] = "nd_vps" /\ order[3] = "nl_failover" /\ order[4] = "keentest"
    OBVIOUS
  <2>. QED
    BY <2>1, NativeIs DEF Range
<1>. HIDE DEF order
<1>2. DOMAIN up \subseteq Nat /\ Range(up) = Native \ miss
  BY <1>1, AmongIs
<1>3. firstLiveTunnel(miss) = First(up)
  BY DEF firstLiveTunnel, order
<1>. HIDE DEF up
<1>4. DOMAIN up = {} <=> Range(up) = {}
  BY DEF Range
<1>5. CASE miss = Native
  BY <1>2, <1>3, <1>4, <1>5 DEF First
<1>6. CASE miss # Native
  BY <1>2, <1>3, <1>4, <1>6, FirstIs
<1>. QED
  BY <1>5, <1>6

(* dohDetourFor finds an endpoint. *)
LEMMA DetourIs ==
    ASSUME NEW p, DOMAIN p.eps \subseteq Nat, Range(p.eps) # {}, NEW to
    PROVE  dohDetourFor(p, to) \in Range(p.eps)
<1>. DEFINE native == Among(p.eps, Native)
            f == IF DOMAIN native # {} THEN native ELSE p.eps
<1>1. DOMAIN native \subseteq Nat /\ Range(native) \subseteq Range(p.eps)
  BY AmongIs
<1>2. DOMAIN p.eps # {}
  BY DEF Range
<1>. HIDE DEF native
<1>3. DOMAIN f \subseteq Nat /\ DOMAIN f # {} /\ Range(f) \subseteq Range(p.eps)
  BY <1>1, <1>2
<1>. HIDE DEF f
<1>4. First(f) \in Range(p.eps)
  BY <1>3, FirstIs
<1>5. \/ dohDetourFor(p, to) = "netherlands" /\ "netherlands" \in Range(p.eps)
      \/ dohDetourFor(p, to) = to /\ to \in Range(p.eps)
      \/ dohDetourFor(p, to) = First(f)
  BY DEF dohDetourFor, f, native
<1>. QED
  BY <1>4, <1>5

(* The profile of a plan once its feeds are inlined. *)
LEMMA InlinedIs ==
    ASSUME NEW L, NEW miss, NEW t
    PROVE  LET p == remapMissing([LiveProfile EXCEPT !.lists = L], miss, t)
               q == Inlined(p)
           IN /\ q = [eps |-> p.eps, groups |-> p.groups, default |-> p.default, lists |-> {Made(l, miss, t) : l \in L}]
              /\ p.lists = {Resent(l, miss, t) : l \in L}
<1>. DEFINE p0 == [LiveProfile EXCEPT !.lists = L]
            p == remapMissing(p0, miss, t)
            q == Inlined(p)
<1>1. p.lists = {Resent(l, miss, t) : l \in L}
  BY RemapIs
<1>2. p = [eps |-> p.eps, groups |-> p.groups, lists |-> p.lists, default |-> p.default]
  BY DEF remapMissing
<1>. HIDE DEF p, p0
<1>3. q = [p EXCEPT !.lists = InlineDomainSources(InlineCIDRSources(@))]
  BY DEF Inlined
<1>4. q = [eps |-> p.eps, groups |-> p.groups, lists |-> InlineDomainSources(InlineCIDRSources(p.lists)), default |-> p.default]
  BY <1>2, <1>3
<1>5. InlineDomainSources(InlineCIDRSources(p.lists)) = {Made(l, miss, t) : l \in L}
  <2>1. InlineCIDRSources(p.lists) = {InlineCIDR(Resent(l, miss, t)) : l \in L}
    BY <1>1 DEF InlineCIDRSources, InlineCIDR
  <2>2. InlineDomainSources({InlineCIDR(Resent(l, miss, t)) : l \in L}) = {Made(l, miss, t) : l \in L}
    BY DEF InlineDomainSources, InlineDomain, Made
  <2>. QED
    BY <2>1, <2>2
<1>. QED
  BY <1>1, <1>4, <1>5 DEF p, p0

(* What pre-flight read, and the remap target it was given.                 *)
LEMMA InputIs ==
    ASSUME NEW in \in Inputs
    PROVE  /\ in.cfg \in KeenConfigs /\ in.live \subseteq DOMAIN PeerHost
           /\ (IF in.remap = "" THEN "netherlands" ELSE in.remap) \in AllEndpoints
           /\ ReconcileAdopt(in.live) \in SUBSET Native
<1>1. in.cfg \in KeenConfigs /\ in.live \subseteq DOMAIN PeerHost /\ in.remap \in RemapIds
  BY DEF Inputs
<1>2. in.remap \in {""} \cup AllEndpoints
  BY <1>1, MigrateAssumption, EndpointsAre
<1>. QED
  BY <1>1, <1>2 DEF AllEndpoints, ReconcileAdopt

(* Where BuildProfile sends references to missing endpoints. *)
Target(in) ==
    LET to  == IF in.remap = "" THEN "netherlands" ELSE in.remap
        alt == firstLiveTunnel(ReconcileAdopt(in.live))
    IN IF to \in ReconcileAdopt(in.live) /\ alt # "" THEN alt ELSE to

(* It is an endpoint, and a live one if any tunnel lives.                   *)
LEMMA TargetIs ==
    ASSUME NEW in \in Inputs
    PROVE  /\ Target(in) \in AllEndpoints
           /\ ReconcileAdopt(in.live) # Native => Target(in) \notin ReconcileAdopt(in.live)
<1>1. "" \notin Native /\ Native \subseteq AllEndpoints
  BY NativeIs DEF AllEndpoints
<1>. QED
  BY <1>1, InputIs, LiveTunnel DEF Target

(* A skeleton remapped to a live endpoint, with lists that go somewhere and *)
(* have content, validates.                                                 *)
LEMMA RemappedValid ==
    ASSUME NEW p, NEW miss \in SUBSET Native, NEW t \in AllEndpoints \ miss, Remapped(p, miss, t),
           \A l \in p.lists : l.out \in Resolvable(p) /\ HasContent(l)
    PROVE  Validate(p)
<1>1. Resolvable(p) = (AllEndpoints \ miss) \cup GroupIds \cup {"direct", "block"}
  BY DEF Remapped, Resolvable
<1>2. ASSUME NEW g \in GroupIds PROVE Range(p.groups[g]) \subseteq Resolvable(p) /\ Range(p.groups[g]) # {}
  <2>1. Range(p.groups[g]) = {Moved(x, miss, t) : x \in Range(liveGroups[g])}
    BY <1>2 DEF Remapped
  <2>2. Range(liveGroups[g]) # {} /\ Range(liveGroups[g]) \subseteq AllEndpoints \cup {"direct"}
    BY <1>2, GroupsAre DEF GroupIds, AllEndpoints
  <2>3. \A x \in Range(liveGroups[g]) : Moved(x, miss, t) \in Resolvable(p)
    BY <1>1, <2>2 DEF Moved
  <2>. QED
    BY <2>1, <2>2, <2>3, Zenon
<1>3. p.default \in Resolvable(p)
  BY <1>1 DEF Remapped, GroupIds
<1>4. DOMAIN p.groups = GroupIds
  BY DEF Remapped
<1>. QED
  BY <1>2, <1>3, <1>4 DEF Validate, HasContent

(* What SelfHeals says of an answer of PrepareCutover. *)
Healed(in, a) ==
    /\ Fit(in) => a.ok
    /\ a.ok =>
        /\ RoutesAlike(in, a.plan)
        /\ a.plan.dns.detour \in a.plan.eps
        /\ \A r \in a.plan.rules : r.remote \/ hasDomain(r.entries) =>
              a.plan.dns.fakeip \cap {<<"rs", r.id>>, <<"rsm", r.id>>} # {}
        /\ \A n \in in.live \ {MgmtNumber} : PeerHost[n] \in {""} \cup HostNames \cup a.bypass

(* censoredRuleSetTags names every rule with a domain. *)
LEMMA TagsAre ==
    ASSUME NEW p, NEW r \in ListRules(p), r.remote \/ hasDomain(r.entries)
    PROVE  censoredRuleSetTags(p) \cap {<<"rs", r.id>>, <<"rsm", r.id>>} # {}
<1>1. PICK m \in p.lists : m.on /\ r = [id |-> m.id, remote |-> m.src # "", srs |-> m.srs, entries |-> m.manual, out |-> m.out]
  BY DEF ListRules
<1>2. r.id = m.id /\ r.entries = m.manual /\ (r.remote <=> m.src # "")
  BY <1>1
<1>3. CASE m.src # ""
  <2>1. <<"rs", m.id>> \in censoredRuleSetTags(p)
    BY <1>1, <1>3 DEF censoredRuleSetTags
  <2>. QED
    BY <1>2, <2>1
<1>4. CASE hasDomain(m.manual)
  <2>1. <<"rsm", m.id>> \in censoredRuleSetTags(p)
    BY <1>1, <1>4 DEF censoredRuleSetTags
  <2>. QED
    BY <1>2, <2>1
<1>. QED
  BY <1>2, <1>3, <1>4

(* BuildProfile gives a valid profile when pre-flight's findings fit. *)
LEMMA FitValid ==
    ASSUME NEW in \in Inputs, Fit(in)
    PROVE  Validate(BuildProfile(in.cfg, in.live, in.remap))
<1>. DEFINE miss == ReconcileAdopt(in.live)
            t == Target(in)
            L == applyCatalogSRS(Active(in.cfg))
            p == BuildProfile(in.cfg, in.live, in.remap)
<1>1. p = remapMissing([LiveProfile EXCEPT !.lists = L], miss, t)
  BY DEF BuildProfile, Target
<1>2. Remapped(p, miss, t) /\ p.lists = {Resent(l, miss, t) : l \in L}
  BY <1>1, RemapIs
<1>3. miss \in SUBSET Native /\ miss # Native
  BY DEF Fit, ReconcileAdopt
<1>4. t \in AllEndpoints \ miss
  BY <1>3, TargetIs
<1>. HIDE DEF p, t, miss
<1>5. ASSUME NEW k \in L
      PROVE  Resent(k, miss, t).out \in Resolvable(p) /\ HasContent(Resent(k, miss, t))
  <2>1. PICK l \in Active(in.cfg) : SameList(k, l)
    BY <1>5, LikeIs DEF Like
  <2>2. PICK id \in DOMAIN in.cfg.lists :
          l \in RoutingLists(in.cfg, id) /\ FromKeen(l, id, Assigned(in.cfg, id)) /\ l.out # ""
    BY ActiveAre
  <2>3. HasContent(l)
    BY <2>2, ListsAre DEF Fit
  <2>4. l.out \in Resolvable(LiveProfile)
    <3>1. l.out = Assigned(in.cfg, id).out
      BY <2>2, Zenon DEF FromKeen
    <3>. QED
      BY <2>2, <3>1 DEF Fit
  <2>5. Resolvable(LiveProfile) = AllEndpoints \cup GroupIds \cup {"direct", "block"}
    BY EndpointsAre, GroupsAre DEF Resolvable, LiveProfile
  <2>6. Resolvable(p) = (AllEndpoints \ miss) \cup GroupIds \cup {"direct", "block"}
    BY <1>2 DEF Remapped, Resolvable
  <2>7. ListRec(k) /\ k.out = l.out /\ k.src = l.src /\ k.feed = l.feed /\ k.manual = l.manual
    BY <2>1, Zenon DEF SameList
  <2>8. LET r == Resent(k, miss, t) IN r.out = Moved(k.out, miss, t) /\ r.src = k.src /\ r.feed = k.feed /\ r.manual = k.manual
    BY <2>7 DEF Resent, ListRec, ListOf
  <2>9. Moved(k.out, miss, t) \in Resolvable(p)
    BY <1>4, <2>4, <2>5, <2>6, <2>7 DEF Moved
  <2>. QED
    BY <2>3, <2>7, <2>8, <2>9 DEF HasContent
<1>6. \A l \in p.lists : l.out \in Resolvable(p) /\ HasContent(l)
  BY <1>2, <1>5
<1>. QED
  BY <1>2, <1>3, <1>4, <1>6, RemappedValid DEF p

(* PrepareCutover's answer, whatever pre-flight read.                       *)
LEMMA PrepIs == ASSUME NEW in \in Inputs PROVE Healed(in, PrepareCutover(in))
<1>. DEFINE miss == ReconcileAdopt(in.live)
            t == Target(in)
            L == applyCatalogSRS(Active(in.cfg))
            p == BuildProfile(in.cfg, in.live, in.remap)
            q == Inlined(p)
            doh == dohDetourFor(q, in.remap)
            a == PrepareCutover(in)
            good == [plan |-> AssembleSingboxConfig(q, doh, in.tags), bypass |-> Bypass(in), ok |-> TRUE, why |-> ""]
<1>1. p = remapMissing([LiveProfile EXCEPT !.lists = L], miss, t)
  BY DEF BuildProfile, Target
<1>2. Remapped(p, miss, t)
  BY <1>1, RemapIs
<1>3. q = [eps |-> p.eps, groups |-> p.groups, default |-> p.default, lists |-> {Made(l, miss, t) : l \in L}]
  BY <1>1, InlinedIs
<1>4. q.eps = p.eps /\ q.groups = p.groups /\ q.lists = {Made(l, miss, t) : l \in L}
  BY <1>3
<1>5. t \in AllEndpoints /\ miss \in SUBSET Native /\ in.cfg \in KeenConfigs
  BY TargetIs, InputIs
<1>6. Range(p.eps) # {} /\ DOMAIN p.eps \subseteq Nat
  BY <1>2, <1>5, NativeIs DEF Remapped, AllEndpoints
<1>7. Fit(in) => in.live # {} /\ in.dead = {} /\ Validate(p)
  BY FitValid DEF Fit
<1>. HIDE DEF p, q, t, L
<1>8. doh \in Range(p.eps)
  BY <1>4, <1>6, DetourIs
<1>9. Fit(in) => a = good
  <2>. HIDE DEF good
  <2>1. Fit(in) => ~(in.live = {}) /\ Validate(p) /\ Fetched(p.lists) \cap in.dead = {} /\ doh \in Range(q.eps) \cup DOMAIN q.groups
    BY <1>4, <1>7, <1>8
  <2>. QED
    BY <2>1 DEF PrepareCutover, p, q, good
<1>10. a = good \/ \E w : a = Refused(w)
  BY DEF PrepareCutover, p, q
<1>11. good.ok /\ \A w : ~Refused(w).ok
  BY DEF Refused
<1>12. ASSUME a = good PROVE Validate(p)
  <2>1. \A w : good # Refused(w)
    BY <1>11
  <2>. HIDE DEF good
  <2>. QED
    BY <1>12, <2>1 DEF PrepareCutover, p, q
<1>13. good.plan = AssembleSingboxConfig(q, doh, in.tags) /\ good.bypass = Bypass(in)
  OBVIOUS
<1>. DEFINE c == AssembleSingboxConfig(q, doh, in.tags)
<1>14. /\ c.eps = Range(p.eps) /\ c.groups = p.groups /\ c.rules = ListRules(q)
       /\ c.dns.detour = doh /\ c.dns.fakeip = censoredRuleSetTags(q)
  BY <1>4 DEF AssembleSingboxConfig, fakeipDNS
<1>. HIDE DEF c, good, a, doh, miss
<1>15. ASSUME a = good PROVE RoutesAlike(in, c)
  <2>1. t \notin miss
    <3>1. \A g \in DOMAIN p.groups : Range(p.groups[g]) \subseteq Resolvable(p)
      BY <1>12, <1>15 DEF Validate
    <3>. QED
      BY <1>2, <1>5, <3>1, TargetIsThere
  <2>2. Like(L, in.cfg)
    BY LikeIs DEF L
  <2>3. MadeOf(q, L, miss, t)
    BY <1>4 DEF MadeOf
  <2>4. RulesLike(in.cfg, c.rules, miss, t)
    BY <1>14, <2>2, <2>3, RulesAre
  <2>5. Framed(c, miss, t)
    BY <1>2, <1>14 DEF Remapped, Framed
  <2>. QED
    BY <1>5, <2>1, <2>4, <2>5, AlikeIs DEF miss
<1>16. c.dns.detour \in c.eps
  BY <1>8, <1>14
<1>17. \A r \in c.rules : r.remote \/ hasDomain(r.entries) => c.dns.fakeip \cap {<<"rs", r.id>>, <<"rsm", r.id>>} # {}
  BY <1>14, TagsAre
<1>18. \A n \in in.live \ {MgmtNumber} : PeerHost[n] \in {""} \cup HostNames \cup Bypass(in)
  BY DEF Bypass, BypassHosts
<1>19. a = good => RoutesAlike(in, a.plan) /\ a.plan = c /\ a.bypass = Bypass(in)
  BY <1>13, <1>15 DEF c
<1>20. a.ok => a = good
  BY <1>10, <1>11, Zenon
<1>21. Fit(in) => a.ok
  BY <1>9, <1>11, Zenon
<1>22. Healed(in, a)
  <2>. SUFFICES ASSUME a.ok
                PROVE  /\ RoutesAlike(in, a.plan)
                       /\ a.plan.dns.detour \in a.plan.eps
                       /\ \A r \in a.plan.rules : r.remote \/ hasDomain(r.entries) =>
                             a.plan.dns.fakeip \cap {<<"rs", r.id>>, <<"rsm", r.id>>} # {}
                       /\ \A n \in in.live \ {MgmtNumber} : PeerHost[n] \in {""} \cup HostNames \cup a.bypass
    BY <1>21, Zenon DEF Healed
  <2>1. a = good
    BY <1>20
  <2>2. RoutesAlike(in, a.plan) /\ a.plan = c /\ a.bypass = Bypass(in)
    BY <1>19, <2>1
  <2>. QED
    BY <1>16, <1>17, <1>18, <2>2, Zenon
<1>. QED
  BY <1>22 DEF a

(* What BuildKernelPlan builds routes the lists the same way. *)
LEMMA KernelIs ==
    ASSUME NEW in \in Inputs, BuildKernelPlan(in).ok
    PROVE  RoutesAlike(in, BuildKernelPlan(in)) /\ \A r \in BuildKernelPlan(in).rules : ~r.remote
<1>. DEFINE miss == ReconcileAdopt(in.live)
            t == IF in.remap = "" THEN "netherlands" ELSE in.remap
            L == Active(in.cfg)
            p == remapMissing([LiveProfile EXCEPT !.lists = L], miss, t)
            q == Inlined(p)
            r == [q EXCEPT !.lists = {l \in @ : l.manual # {}}]
            a == BuildKernelPlan(in)
            c == [ok |-> TRUE, why |-> "", eps |-> Range(r.eps), groups |-> r.groups, rules |-> ListRules(r), bypass |-> Bypass(in)]
<1>1. Remapped(p, miss, t)
  BY RemapIs
<1>2. q = [eps |-> p.eps, groups |-> p.groups, default |-> p.default, lists |-> {Made(l, miss, t) : l \in L}]
  <2>. HIDE DEF t, miss, L
  <2>. QED
    BY InlinedIs
<1>3. t \in AllEndpoints /\ miss \in SUBSET Native /\ in.cfg \in KeenConfigs
  BY InputIs
<1>4. a = c \/ \E w : a = Refused(w)
  BY DEF BuildKernelPlan
<1>5. \A w : ~Refused(w).ok
  BY DEF Refused
<1>6. a = c
  <2>. HIDE DEF a, c
  <2>1. a.ok
    BY DEF a
  <2>. QED
    BY <1>4, <1>5, <2>1, Zenon
<1>7. Validate(r)
  <2>1. c.ok
    OBVIOUS
  <2>2. \A w : c # Refused(w)
    BY <1>5, <2>1
  <2>3. a = c /\ \A w : a # Refused(w)
    BY <1>6, <2>2, Zenon
  <2>4. ~Validate(r) => \E w : a = Refused(w)
    <3>. HIDE DEF c
    <3>. QED
      BY DEF BuildKernelPlan
  <2>. QED
    BY <2>3, <2>4, Zenon
<1>. HIDE DEF p, q, t, a
<1>8. r.eps = p.eps /\ r.groups = p.groups /\ r.default = p.default /\ r.lists = {m \in {Made(l, miss, t) : l \in L} : m.manual # {}}
  BY <1>2
<1>. HIDE DEF r
<1>9. c.eps = Range(p.eps) /\ c.groups = p.groups /\ c.rules = ListRules(r)
  BY <1>8
<1>. HIDE DEF c
<1>10. Like(L, in.cfg)
  BY LikeIs
<1>11. ASSUME NEW k \in L PROVE ~Made(k, miss, t).srs
  <2>1. PICK id : FromKeen(k, id, Assigned(in.cfg, id))
    BY <1>11, ActiveAre
  <2>2. ListRec(k) /\ k.srs = FALSE
    BY <2>1, Zenon DEF FromKeen
  <2>3. MadeFrom(Made(k, miss, t), k, miss, t)
    BY <2>2, MadeIs
  <2>. QED
    BY <2>2, <2>3, Zenon DEF MadeFrom
<1>. HIDE DEF L, miss
<1>12. MadeOf(r, L, miss, t)
  BY <1>8, <1>11 DEF MadeOf
<1>13. RulesLike(in.cfg, c.rules, miss, t)
  BY <1>9, <1>10, <1>12, RulesAre
<1>14. \A s \in c.rules : ~s.srs
  <2>. SUFFICES ASSUME NEW s \in ListRules(r) PROVE ~s.srs
    BY <1>9
  <2>1. PICK m \in r.lists : s = [id |-> m.id, remote |-> m.src # "", srs |-> m.srs, entries |-> m.manual, out |-> m.out]
    BY DEF ListRules
  <2>2. s.srs = m.srs
    BY <2>1
  <2>3. ~m.srs
    BY <1>11, <1>12, Zenon DEF MadeOf
  <2>. QED
    BY <2>2, <2>3, Zenon
<1>15. t \notin miss
  <2>1. Remapped(r, miss, t)
    BY <1>1, <1>8 DEF Remapped
  <2>2. \A g \in DOMAIN r.groups : Range(r.groups[g]) \subseteq Resolvable(r)
    BY <1>7 DEF Validate
  <2>. QED
    BY <1>3, <2>1, <2>2, TargetIsThere
<1>16. Framed(c, miss, t)
  BY <1>1, <1>9 DEF Remapped, Framed
<1>17. RoutesAlike(in, c)
  BY <1>3, <1>13, <1>15, <1>16, AlikeIs DEF miss
<1>18. \A s \in c.rules : ~s.remote
  BY <1>13, <1>14 DEF RulesLike
<1>. QED
  BY <1>6, <1>17, <1>18 DEF a

(* Every answer is the answer to what pre-flight read. *)
MigInv ==
    /\ minput \in Inputs
    /\ prep = Pending \/ prep = PrepareCutover(minput)
    /\ kplan = Pending \/ kplan = BuildKernelPlan(minput)

(* SelfHeals, for any keen-pbr config, feeds, catalog and interfaces:       *)
(* whatever tunnels are gone, PrepareCutover builds a config that routes    *)
(* every list as keen-pbr did, over what is live and never over the WAN     *)
(* (BuildProfile's fallback of the remap target, remapMissing), and so does *)
(* what BuildKernelPlan builds.                                             *)
THEOREM CutoverSelfHeals == MigSpec => []SelfHeals
<1>1. MigInit => MigInv
  BY DEF MigInit, MigInv
<1>2. MigInv /\ [MigNext]_migVars => MigInv'
  BY DEF MigInv, MigNext, PreFlight, KernelPreFlight, migVars
<1>3. MigInv => SelfHeals
  <2>. SUFFICES ASSUME MigInv PROVE SelfHeals
    OBVIOUS
  <2>1. ~Pending.ok
    BY DEF Pending
  <2>2. prep # Pending => Healed(minput, prep)
    BY PrepIs, Zenon DEF MigInv
  <2>3. kplan.ok => RoutesAlike(minput, kplan) /\ \A r \in kplan.rules : ~r.remote
    <3>1. kplan.ok => kplan # Pending
      BY <2>1, Zenon
    <3>2. minput \in Inputs /\ (kplan # Pending => kplan = BuildKernelPlan(minput))
      BY DEF MigInv
    <3>. QED
      BY <3>1, <3>2, KernelIs, Zenon
  <2>4. prep.ok => prep # Pending
    BY <2>1, Zenon
  <2>. QED
    BY <2>2, <2>3, <2>4, Zenon DEF SelfHeals, Healed
<1>. QED
  BY <1>1, <1>2, <1>3, PTL DEF MigSpec
=============================================================================
