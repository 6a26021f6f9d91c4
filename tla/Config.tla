--------------------------------- MODULE Config --------------------------------
(***************************************************************************)
(* config.c: the hosts that config_read_ini_cb builds from the lines of    *)
(* khttpd.ini, the search of a host for a request, and the deletion of the *)
(* configuration when the server ends.  All three walk the hosts with      *)
(* CONFIG_SERVER_FOREACH_HOST (config.h).  Of a host, its name and its     *)
(* default mark take part in this; its other settings are left out.        *)
(***************************************************************************)
EXTENDS Integers, Sequences

CONSTANTS Name,      \* host names, as strcasecmp tells them apart
          Port,      \* numbers that [Server]listen may give
          None,      \* NULL
          MaxHosts   \* bound on the [Host] sections of the file

ASSUME NameAssumption == None \notin Name
ASSUME PortAssumption == Port \subseteq Nat
ASSUME MaxHostsAssumption == MaxHosts \in Nat

VARIABLES hosts,    \* config->hosts
          port,     \* config->listen_port
          section,  \* the section of the current line
          phase,    \* "reading", "serving" or "deleted"
          result    \* the last search: what it looked for, the host it found

vars == <<hosts, port, section, phase, result>>

\* default is given as yes, as no, or as something else.
Switch == {"yes", "no", "other"}

NewHost == [name |-> None, default |-> FALSE]

Host == [name : Name \cup {None}, default : BOOLEAN]

Init == /\ hosts = <<>>
        /\ port = 80
        /\ section = "none"
        /\ phase = "reading"
        /\ result = [name |-> None, host |-> 0]

\* CONFIG_SERVER_FOREACH_HOST: the host that the k-th of host_count turns
\* visits.  The first host comes twice and the last not at all.
Visit(k) == IF k = 1 THEN 1 ELSE k - 1

Visited == {Visit(k) : k \in 1..Len(hosts)}

Reading == /\ phase = "reading"
           /\ UNCHANGED <<phase, result>>

\* The static variable host: the host of the last [Host] section.
Current == Len(hosts)

InHost == Reading /\ section = "Host" /\ UNCHANGED <<port, section>>

Given(old, v) == CASE v = "yes" -> TRUE [] v = "no" -> FALSE [] OTHER -> old
--------------------------------------------------------------------------------
(* config_read_ini_cb, one action per kind of line. *)

HostSection == /\ Reading
               /\ Len(hosts) < MaxHosts
               /\ hosts' = Append(hosts, NewHost)
               /\ section' = "Host"
               /\ UNCHANGED port

ServerSection == /\ Reading
                 /\ section' = "Server"
                 /\ UNCHANGED <<hosts, port>>

\* Faulty variant: the number is not cut to 16 bits.
Listen_Wide(n) == /\ Reading
                  /\ section = "Server"
                  /\ port' = n
                  /\ UNCHANGED <<hosts, section>>

\* strtol and the conversion to uint16_t.
Listen(n) == /\ Reading
             /\ section = "Server"
             /\ port' = n % 65536
             /\ UNCHANGED <<hosts, section>>

HostName(n) == /\ InHost
               /\ hosts' = [hosts EXCEPT ![Current].name = n]

\* Faulty variant: the earlier default host stays one.
HostDefault_NoClear(v) == /\ InHost
                          /\ hosts' = [hosts EXCEPT ![Current].default = Given(@, v)]

\* "yes" withdraws the mark from the hosts that the walk visits first.
HostDefault(v) ==
  /\ InHost
  /\ hosts' = [i \in DOMAIN hosts |->
                 [hosts[i] EXCEPT !.default =
                    IF i = Current THEN Given(@, v)
                    ELSE @ /\ ~(v = "yes" /\ i \in Visited)]]

\* server_status_new asserts that there is a host and a port.
Serve == /\ phase = "reading"
         /\ Len(hosts) > 0
         /\ port > 0
         /\ phase' = "serving"
         /\ UNCHANGED <<hosts, port, section, result>>
--------------------------------------------------------------------------------
(* config_server_gethost *)

\* The turns at which the walk meets a host of that name.
Matches(n) == {k \in 1..Len(hosts) : n # None /\ hosts[Visit(k)].name = n}

Defaults == {k \in 1..Len(hosts) : hosts[Visit(k)].default}

Least(S) == CHOOSE k \in S : \A j \in S : k <= j
Greatest(S) == CHOOSE k \in S : \A j \in S : k >= j

\* Faulty variant: a later host of the same name hides an earlier one.
GetHost_Last(n) == IF Matches(n) # {} THEN Visit(Greatest(Matches(n)))
                   ELSE IF Defaults # {} THEN Visit(Greatest(Defaults)) ELSE 0

GetHost(n) == IF Matches(n) # {} THEN Visit(Least(Matches(n)))
              ELSE IF Defaults # {} THEN Visit(Greatest(Defaults)) ELSE 0

\* The search compares the name with a host that has none: strcasecmp of NULL.
Nameless(n) == /\ n # None
               /\ \E k \in 1..Len(hosts) : /\ hosts[Visit(k)].name = None
                                           /\ \A j \in Matches(n) : k < j

\* What such a search does is undefined; nothing is said of it.
Lookup(n) == /\ phase = "serving"
             /\ ~Nameless(n)
             /\ result' = [name |-> n, host |-> GetHost(n)]
             /\ UNCHANGED <<hosts, port, section, phase>>

\* config_server_delete: nothing of the configuration is used after it.
Delete == /\ phase = "serving"
          /\ phase' = "deleted"
          /\ UNCHANGED <<hosts, port, section, result>>
--------------------------------------------------------------------------------
Line == \/ HostSection \/ ServerSection
        \/ \E n \in Port : Listen(n)
        \/ \E n \in Name : HostName(n)
        \/ \E v \in Switch : HostDefault(v)

Next == \/ Line \/ Serve \/ Delete
        \/ \E n \in Name \cup {None} : Lookup(n)

Spec == Init /\ [][Next]_vars
--------------------------------------------------------------------------------
TypeOK == /\ hosts \in Seq(Host)
          /\ port \in Nat /\ port < 65536
          /\ section \in {"none", "Server", "Host"}
          /\ phase \in {"reading", "serving", "deleted"}
          /\ result.name \in Name \cup {None}
          /\ result.host \in 0..Len(hosts)

\* There is at most one default host, although the walk that withdraws the
\* mark leaves out one host (config_read_ini_cb).
OneDefault == \A i, j \in DOMAIN hosts : hosts[i].default /\ hosts[j].default => i = j

\* What a search should find in a list of hosts: the first host of the name, or the default one.
Wanted(n, list) == LET named == {i \in DOMAIN list : list[i].name = n}
                       default == {i \in DOMAIN list : list[i].default}
                   IN IF n # None /\ named # {} THEN Least(named)
                      ELSE IF default # {} THEN Least(default) ELSE 0

\* A search finds the host it should, as if the last of several hosts were not there: whatever
\* the walk does twice or leaves out, no other host is hidden and no wrong one is found
\* (CONFIG_SERVER_FOREACH_HOST, config_server_gethost).
HiddenOnlyLast ==
  [][result' # result =>
       result'.host = Wanted(result'.name, IF Len(hosts) > 1 THEN SubSeq(hosts, 1, Len(hosts) - 1)
                                           ELSE hosts)]_vars
================================================================================
