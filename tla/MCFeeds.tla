------------------------------ MODULE MCFeeds -------------------------------
(* What the router learns from outside: endpoints from subscriptions, CIDRs *)
(* from feeds, health from probes, and which tunnel of a list is up.  The   *)
(* models share no state; part says which of them a behaviour is about.     *)
EXTENDS Subscription, CidrFeed, Health, ListFailover

CONSTANTS b1, c1, c2, c3, u, a1, a2, i1, i2, x1, x2, prx

VARIABLE part

mcVars == <<part, subVars, cidrVars, healthVars, failVars>>

(* A provider that offers two links to one server, then rotates one.        *)
Link(b, c) == [base |-> b, cred |-> c]
MCOffers == {<<Link(b1, c1), Junk, Link(b1, c2)>>, <<Link(b1, c3), Link(b1, c1)>>}

(* No source, a URL, and a source of two ASNs.                              *)
MCSources == {NoSource, <<u>>, <<a1, a2>>}

(* Two tunnels with a proxy between them and a terminal block; and two      *)
(* tables over one tunnel, one of them with a way out over the WAN.         *)
MCKernelIface == [e \in {x1, x2} |-> IF e = x1 THEN i1 ELSE i2]
MCLayouts == {<<<<x1, prx, x2, Block>>>>, <<<<x2, prx>>, <<x2, Direct>>>>}

InSub    == part = "sub"    /\ UNCHANGED <<part, cidrVars, healthVars, failVars>>
InCidr   == part = "cidr"   /\ UNCHANGED <<part, subVars, healthVars, failVars>>
InHealth == part = "health" /\ UNCHANGED <<part, subVars, cidrVars, failVars>>
InFail   == part = "failover" /\ UNCHANGED <<part, subVars, cidrVars, healthVars>>

MCInit ==
    /\ part \in {"sub", "cidr", "health", "failover"}
    /\ SubInit /\ CidrInit /\ HealthInit /\ FailInit
    /\ part # "sub" => ~urlSet /\ hours = 0 /\ offer = CHOOSE o \in Offers : TRUE
    /\ part # "health" => native = {} /\ on = {}
    /\ part # "failover" => load /\ groups = CHOOSE g \in Layouts : TRUE
MCNext == (InSub /\ SubNext) \/ (InCidr /\ CidrNext) \/ (InHealth /\ HealthNext) \/ (InFail /\ FailNext)

(* The hourly and the health ticker tick; every fetch and every probe has a *)
(* timeout, so what is in flight comes to an end.  Cron runs every minute,  *)
(* the script ends, and a handshake grows old.                              *)
MCSpec ==
    /\ MCInit /\ [][MCNext]_mcVars
    /\ WF_mcVars(InSub /\ LoopTick)
    /\ \A w \in Importers : WF_mcVars(InSub /\ ImporterStep(w))
    /\ WF_mcVars(InHealth /\ TickStep) /\ WF_mcVars(InHealth /\ OneStep)
    /\ WF_mcVars(InFail /\ CronTick) /\ WF_mcVars(InFail /\ FailRun)
    /\ \A i \in Tunnels : WF_mcVars(InFail /\ Age(i))
=============================================================================
