------------------------------- MODULE Forward -------------------------------
(***************************************************************************)
(* What the rules of lib/network.py do to packets: network_changes()       *)
(* makes the plan, the worker of hotspot.py puts it into the kernel one    *)
(* command at a time and takes it out again, and Docker or a firewall tool *)
(* changes the same chains in between.  Hotspot.tla has the worker and the *)
(* commands around it; here a session is only off, apply, serve or undo.   *)
(*                                                                         *)
(* A packet is its interfaces, its addresses by class and whether conntrack *)
(* knows its connection.  A rule is a packet with some fields left open, a *)
(* target and the comment that tells whose it is.                          *)
(***************************************************************************)
EXTENDS Naturals, SequencesExt

CONSTANTS
  PRIVATE_NETWORKS,   \* a sequence of address classes
  MaxForeign          \* rules of others in a chain

Open    == "any"
TAG     == "nas-wifi"
Modes   == {"proxy", "direct"}     \* bypass_mihomo = false, true
Tables  == {"rule", "filter", "nat", "ip6"}
Ifaces  == {"wifi", "uplink", "tun", "docker"}
Addrs   == Range(PRIVATE_NETWORKS) \cup {"client", "public", "container"}
Targets == {"ACCEPT", "REJECT", "MASQUERADE", "main"}

Rule(i, o, s, d, est, j) ==
  [i |-> i, o |-> o, s |-> s, d |-> d, est |-> est, j |-> j, tag |-> TAG]
RuleType == [i : Ifaces \cup {Open}, o : Ifaces \cup {Open}, s : Addrs \cup {Open},
             d : Addrs \cup {Open}, est : BOOLEAN, j : Targets, tag : {TAG, "docker", "firewall"}]

\* different networks, and none of them is another class
ASSUME PrivateAssumption ==
  /\ PRIVATE_NETWORKS \in Seq(STRING) /\ IsInjective(PRIVATE_NETWORKS)
  /\ Range(PRIVATE_NETWORKS) \cap {Open, "client", "public", "container"} = {}
ASSUME ForeignAssumption == MaxForeign \in Nat

VARIABLES
  tables,    \* the ip rules, and FORWARD, POSTROUTING and FORWARD of IPv6
  tunUp,     \* Mihomo's TUN takes traffic
  mode,      \* the mode the session was started with
  phase,     \* what the worker does
  done,      \* length of its undo list
  errs       \* cleanup_errors of the last session that ended

vars == <<tables, tunUp, mode, phase, done, errs>>

-----------------------------------------------------------------------------
(* network_changes()                                                         *)

Established(from) == Rule(from, "wifi", Open, "client", TRUE, "ACCEPT")

\* Mutants: the exceptions before the rejection; no rejection; a rejection that
\* names neither the adapter nor the subnet
ForwardsLanFirst(m) ==
  LET lan == [k \in DOMAIN PRIVATE_NETWORKS |->
                Rule("wifi", "uplink", "client", PRIVATE_NETWORKS[k], FALSE, "ACCEPT")]
  IN lan \o <<Rule("wifi", "uplink", "client", Open, FALSE, "REJECT"),
              Rule("wifi", "tun", "client", Open, FALSE, "ACCEPT"), Established("tun")>>
ForwardsOpen(m) == <<Rule("wifi", "uplink", "client", Open, FALSE, "ACCEPT")>>
ForwardsWide(m) == <<Rule(Open, "uplink", Open, Open, FALSE, "REJECT")>>

Forwards(m) ==
  IF m = "direct" THEN <<Rule("wifi", "uplink", "client", Open, FALSE, "ACCEPT")>>
  ELSE <<Rule("wifi", "uplink", "client", Open, FALSE, "REJECT")>>
       \o [k \in DOMAIN PRIVATE_NETWORKS |->
             Rule("wifi", "uplink", "client", PRIVATE_NETWORKS[k], FALSE, "ACCEPT")]
       \o <<Rule("wifi", "tun", "client", Open, FALSE, "ACCEPT"), Established("tun")>>

In(t, rules) == [k \in DOMAIN rules |-> [table |-> t, rule |-> rules[k]]]
network_changes(m) ==
  In("rule", (IF m = "direct" THEN <<Rule("wifi", Open, Open, Open, FALSE, "main")>> ELSE <<>>)
             \o <<Rule(Open, Open, Open, "client", FALSE, "main")>>)
  \o In("ip6", IF m = "proxy" THEN <<Rule("wifi", Open, Open, Open, FALSE, "REJECT")>> ELSE <<>>)
  \o In("filter", Append(Forwards(m), Established("uplink")))
  \o In("nat", <<Rule(Open, "uplink", "client", Open, FALSE, "MASQUERADE")>>)

-----------------------------------------------------------------------------
(* The kernel                                                                *)

Matches(r, p) == /\ r.i \in {Open, p.i} /\ r.o \in {Open, p.o}
                 /\ r.s \in {Open, p.s} /\ r.d \in {Open, p.d}
                 /\ r.est => p.est
\* the first rule that matches
Verdict(chain, p) ==
  LET hits == {k \in DOMAIN chain : Matches(chain[k], p)}
  IN IF hits = {} THEN "DEFAULT" ELSE chain[Min(hits)].j

\* 8000 and 8001 come before Mihomo's ip rules, whose table leaves out the
\* private networks; the main table knows the subnet and the wired gateway
MihomoTakes(p) == tunUp /\ p.d \notin Range(PRIVATE_NETWORKS)
Route(rules, p) ==
  IF Verdict(rules, p) # "main" /\ MihomoTakes(p) THEN "tun"
  ELSE IF p.d = "client" THEN "wifi" ELSE "uplink"

Packet(i, s, d, est) ==
  LET p == [i |-> i, o |-> Open, s |-> s, d |-> d, est |-> est]
  IN [p EXCEPT !.o = Route(tables["rule"], p)]

Init == /\ tables = [t \in Tables |-> <<>>] /\ tunUp \in BOOLEAN
        /\ mode \in Modes /\ phase = "off" /\ done = 0 /\ errs = FALSE

\* `-I chain 1`, and `-D` of a rule by what it says
Insert(c) == [tables EXCEPT ![c.table] = <<c.rule>> \o @]
Delete(c) == [tables EXCEPT ![c.table] = RemoveFirst(@, c.rule)]

\* the configuration may have been edited; check_proxy()
Start == /\ phase = "off" /\ ~errs /\ mode' \in Modes
         /\ mode' = "proxy" => tunUp
         /\ phase' = "apply" /\ UNCHANGED <<tables, tunUp, done, errs>>

\* on the undo list first; a command that fails may have done its work
Apply == /\ phase = "apply" /\ done' = done + 1
         /\ LET plan == network_changes(mode) IN
            \/ /\ tables' = Insert(plan[done'])
               /\ phase' = IF done' = Len(plan) THEN "serve" ELSE "apply"
            \/ tables' \in {tables, Insert(plan[done'])} /\ phase' = "undo"
         /\ UNCHANGED <<tunUp, mode, errs>>

Stop == /\ phase = "serve" /\ phase' = "undo"
        /\ UNCHANGED <<tables, tunUp, mode, done, errs>>

\* Mutants: the rule at the head of the chain is deleted; no failure is noted
UndoHead == /\ phase = "undo" /\ done > 0 /\ done' = done - 1
            /\ LET t == network_changes(mode)[done].table IN
               tables[t] # <<>> /\ tables' = [tables EXCEPT ![t] = Tail(@)]
            /\ UNCHANGED <<tunUp, mode, phase, errs>>
UndoSilent == /\ phase = "undo" /\ done > 0 /\ done' = done - 1
              /\ tables' \in {tables, Delete(network_changes(mode)[done])}
              /\ UNCHANGED <<tunUp, mode, phase, errs>>

Undo == /\ phase = "undo" /\ done > 0 /\ done' = done - 1
        /\ LET c == network_changes(mode)[done] IN
           \/ Contains(tables[c.table], c.rule) /\ tables' = Delete(c) /\ UNCHANGED errs
           \/ errs' = TRUE /\ tables' \in {tables, Delete(c)}
        /\ UNCHANGED <<tunUp, mode, phase>>

Off == /\ phase = "undo" /\ done = 0 /\ phase' = "off"
       /\ UNCHANGED <<tables, tunUp, mode, done, errs>>

Worker == Start \/ Apply \/ Stop \/ Undo \/ Off

\* Docker or a firewall tool; what they put ahead of our rules is about their
\* own interfaces
Docker   == [Rule(Open, Open, "container", Open, FALSE, "ACCEPT") EXCEPT !.tag = "docker"]
Firewall == [Rule(Open, Open, Open, Open, FALSE, "ACCEPT") EXCEPT !.tag = "firewall"]

\* the rules of others, in their order
Theirs(chain) ==
  LET upTo[n \in 0..Len(chain)] ==
        IF n = 0 THEN <<>>
        ELSE IF chain[n].tag # TAG THEN Append(upTo[n - 1], chain[n]) ELSE upTo[n - 1]
  IN  upTo[Len(chain)]

ForeignAdds(t) ==
  /\ Cardinality({k \in DOMAIN tables[t] : tables[t][k].tag # TAG}) < MaxForeign
  /\ tables' \in {[tables EXCEPT ![t] = <<Docker>> \o @]}
                 \cup {[tables EXCEPT ![t] = Append(@, r)] : r \in {Docker, Firewall}}
  /\ UNCHANGED <<tunUp, mode, phase, done, errs>>
ForeignDeletes(t) ==
  /\ \E r \in Range(tables[t]) :
       r.tag # TAG /\ tables' = [tables EXCEPT ![t] = RemoveFirst(@, r)]
  /\ UNCHANGED <<tunUp, mode, phase, done, errs>>

\* Mihomo stops, or comes back
TunToggles == tunUp' = ~tunUp /\ UNCHANGED <<tables, mode, phase, done, errs>>

Next == \/ Worker \/ TunToggles
        \/ \E t \in Tables \ {"rule"} : ForeignAdds(t) \/ ForeignDeletes(t)

Spec == Init /\ [][Next]_vars

-----------------------------------------------------------------------------
TypeOK ==
  /\ tables \in [Tables -> Seq(RuleType)]
  /\ tunUp \in BOOLEAN /\ mode \in Modes /\ errs \in BOOLEAN
  /\ phase \in {"off", "apply", "serve", "undo"}
  /\ done \in 0 .. Len(network_changes(mode))

Serving == phase = "serve"
FromClient(d) == Packet("wifi", "client", d, FALSE)

\* In proxy mode public traffic of a client never leaves by the wire, also when
\* the TUN has stopped, and IPv6 is not forwarded ("Prevent public traffic
\* falling back to the wired gateway if TUN stops", network.py:43).
NoFallback ==
  Serving /\ mode = "proxy" =>
    /\ FromClient("public").o = "uplink" => Verdict(tables["filter"], FromClient("public")) = "REJECT"
    /\ Verdict(tables["ip6"], FromClient("public")) = "REJECT"

\* Everything else works: a client reaches the private networks by the wire and
\* the rest as its mode says, translated on the wire, and the answers come back
\* to the adapter, not into the TUN, whoever else has rules in the chains.
Served ==
  Serving => \A d \in Range(PRIVATE_NETWORKS) \cup {"public"} :
    LET p == FromClient(d)
        r == Packet(p.o, d, "client", TRUE)
    IN \/ mode = "proxy" /\ d = "public" /\ p.o = "uplink"
       \/ /\ Verdict(tables["filter"], p) = "ACCEPT"
          /\ p.o = "uplink" => Verdict(tables["nat"], p) = "MASQUERADE"
          /\ r.o = "wifi" /\ Verdict(tables["filter"], r) = "ACCEPT"

\* Traffic that neither comes from the adapter nor goes to a client is treated
\* as if this project were not there, in the middle of a start or of a stop, and
\* after a stop that failed.
UnrelatedUntouched ==
  \A i \in Ifaces \ {"wifi"}, s, d \in {"container", "public"}, e \in BOOLEAN :
    LET p == Packet(i, s, d, e) IN
    /\ p.o = Route(<<>>, p)
    /\ \A t \in Tables \ {"rule"} : Verdict(tables[t], p) = Verdict(Theirs(tables[t]), p)

\* the rules of the project in a chain, and those that the undo list has for it
Ours(t) == {r \in Range(tables[t]) : r.tag = TAG}
Recorded(t) ==
  LET plan == network_changes(mode)
  IN  {plan[k].rule : k \in {k \in 1..done : plan[k].table = t}}

\* Unless an undo action has failed, the undo list says what is in the kernel:
\* every rule of the project is still on the list, so that none outlives the
\* session, and all that are on it are in place until the first one is undone
\* or a command fails (and every variable has its type).
UndoCovers ==
  /\ TypeOK
  /\ phase = "off" => done = 0
  /\ ~errs => \A t \in Tables :
       /\ Ours(t) \subseteq Recorded(t)
       /\ phase \in {"apply", "serve"} => Recorded(t) \subseteq Ours(t)

\* The worker neither removes nor reorders the rules of others.
TheirsKept ==
  [][Worker => \A t \in Tables : Theirs(tables'[t]) = Theirs(tables[t])]_vars
=============================================================================
