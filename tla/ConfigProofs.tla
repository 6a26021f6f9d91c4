------------------------------ MODULE ConfigProofs -----------------------------
(***************************************************************************)
(* Proofs about config.c as Config models it, for any number of hosts.     *)
(***************************************************************************)
EXTENDS Config, WellFoundedInduction, TLAPS

\* The inductive invariant: the hosts are well formed and one at most is the
\* default.
IInv == hosts \in Seq(Host) /\ OneDefault

\* The walk of CONFIG_SERVER_FOREACH_HOST visits every host before the last.
LEMMA VisitedBefore ==
  ASSUME hosts \in Seq(Host), NEW i \in DOMAIN hosts, i # Len(hosts)
  PROVE  i \in Visited
<1>1. i \in 1..Len(hosts) /\ i + 1 \in 1..Len(hosts)
  OBVIOUS
<1>2. Visit(i + 1) = i
  BY <1>1 DEF Visit
<1> QED BY <1>1, <1>2 DEF Visited

\* A line of the configuration file keeps the invariant: a new host is not
\* the default, and a host that becomes it is the last, whom the walk skips.
LEMMA HostDefaultStep ==
  ASSUME IInv, NEW v \in Switch, HostDefault(v)
  PROVE  IInv'
<1> DEFINE g == [i \in DOMAIN hosts |->
                   [hosts[i] EXCEPT !.default =
                      IF i = Current THEN Given(@, v)
                      ELSE @ /\ ~(v = "yes" /\ i \in Visited)]]
<1>1. hosts' = g /\ hosts \in Seq(Host)
  BY DEF HostDefault, IInv
<1>2. \A i \in DOMAIN hosts : hosts[i] \in Host
  BY <1>1
<1>3. \A i \in DOMAIN hosts : Given(hosts[i].default, v) \in BOOLEAN
  BY <1>2 DEF Given, Host
<1>4. \A i \in DOMAIN hosts : g[i] \in Host
  BY <1>2, <1>3 DEF Host
<1>5. DOMAIN hosts = 1..Len(hosts) /\ Len(hosts) \in Nat
  BY <1>1
<1>6. g \in Seq(Host)
  BY <1>4, <1>5
<1>7. \A i \in DOMAIN hosts :
        g[i].default = IF i = Current THEN Given(hosts[i].default, v)
                       ELSE hosts[i].default /\ ~(v = "yes" /\ i \in Visited)
  BY <1>2 DEF Host
<1>8. ASSUME NEW i \in DOMAIN hosts, NEW j \in DOMAIN hosts,
             g[i].default, g[j].default
      PROVE  i = j
  <2>1. CASE v = "yes"
    <3>1. \A k \in DOMAIN hosts : k # Current => k \in Visited
      BY VisitedBefore, <1>1 DEF Current
    <3> QED BY <2>1, <3>1, <1>7, <1>8
  <2>2. CASE v # "yes"
    <3>1. \A k \in DOMAIN hosts : Given(hosts[k].default, v) => hosts[k].default
      BY <2>2 DEF Given, Switch
    <3>2. hosts[i].default /\ hosts[j].default
      BY <3>1, <1>7, <1>8
    <3> QED BY <3>2 DEF IInv, OneDefault
  <2> QED BY <2>1, <2>2
<1>9. DOMAIN g = DOMAIN hosts
  OBVIOUS
<1> QED BY <1>1, <1>6, <1>8, <1>9 DEF IInv, OneDefault

\* Every step keeps the invariant.
LEMMA Step ==
  ASSUME IInv, [Next]_vars
  PROVE  IInv'
<1>1. ASSUME HostSection PROVE IInv'
  <2>1. hosts' = Append(hosts, NewHost) /\ NewHost \in Host
    BY <1>1 DEF HostSection, NewHost, Host
  <2>2. hosts' \in Seq(Host)
    BY <2>1 DEF IInv
  <2>3. \A i \in DOMAIN hosts' : hosts'[i].default =>
            i \in DOMAIN hosts /\ hosts'[i] = hosts[i]
    BY <2>1 DEF IInv, NewHost
  <2> QED BY <2>2, <2>3 DEF IInv, OneDefault
<1>2. ASSUME NEW n \in Name, HostName(n) PROVE IInv'
  <2>1. hosts' = [hosts EXCEPT ![Current].name = n] /\ hosts \in Seq(Host)
    BY <1>2 DEF HostName, IInv
  <2>2. \A i \in DOMAIN hosts : hosts[i] \in Host
    BY <2>1
  <2>3. \A i \in DOMAIN hosts : /\ hosts'[i] \in Host
                                /\ hosts'[i].default = hosts[i].default
    BY <2>1, <2>2 DEF Host
  <2>4. DOMAIN hosts' = DOMAIN hosts
    BY <2>1
  <2>5. hosts' \in Seq(Host)
    <3>1. Len(hosts) \in Nat /\ DOMAIN hosts = 1..Len(hosts)
      BY <2>1
    <3>2. hosts' = [i \in 1..Len(hosts) |-> hosts'[i]]
      BY <2>1, <2>4, <3>1
    <3>3. hosts' \in [1..Len(hosts) -> Host]
      BY <2>3, <3>1, <3>2
    <3> QED BY <3>1, <3>3
  <2> QED BY <2>3, <2>4, <2>5 DEF IInv, OneDefault
<1>3. ASSUME NEW v \in Switch, HostDefault(v) PROVE IInv'
  BY <1>3, HostDefaultStep
<1>4. ASSUME UNCHANGED hosts PROVE IInv'
  BY <1>4 DEF IInv, OneDefault
<1>5. ServerSection => UNCHANGED hosts
  BY DEF ServerSection
<1>6. \A n \in Port : Listen(n) => UNCHANGED hosts
  BY DEF Listen
<1>7. Serve \/ Delete => UNCHANGED hosts
  BY DEF Serve, Delete
<1>8. \A n \in Name \cup {None} : Lookup(n) => UNCHANGED hosts
  BY DEF Lookup
<1>9. UNCHANGED vars => UNCHANGED hosts
  BY DEF vars
<1> QED BY <1>1, <1>2, <1>3, <1>4, <1>5, <1>6, <1>7, <1>8, <1>9 DEF Next, Line

\* There is at most one default host however many the file defines and
\* however often it says default=yes or no (config_read_ini_cb).
THEOREM OneDefaultCorrect == Spec => []OneDefault
<1>1. Init => IInv
  BY DEF Init, IInv, OneDefault
<1>2. IInv /\ [Next]_vars => IInv'
  BY Step
<1>3. IInv => OneDefault
  BY DEF IInv
<1> QED BY <1>1, <1>2, <1>3, PTL DEF Spec
--------------------------------------------------------------------------------
\* A set of numbers that is not empty has a least element, the one Least chooses.
LEMMA LeastFacts ==
  ASSUME NEW S \in SUBSET Nat, S # {}
  PROVE  Least(S) \in S /\ \A j \in S : Least(S) <= j
<1>1. \E k \in S : \A j \in S : ~(<<j, k>> \in OpToRel(<, Nat))
  BY WFMin, NatLessThanWellFounded, Zenon
<1>2. PICK k \in S : \A j \in S : ~(<<j, k>> \in OpToRel(<, Nat))
  BY <1>1
<1>3. \A j \in S : ~(j < k)
  BY <1>2 DEF OpToRel
<1>4. \A j \in S : k <= j
  BY <1>3
<1> QED BY <1>4 DEF Least

\* There is only one least element.
LEMMA LeastIs ==
  ASSUME NEW S \in SUBSET Nat, NEW k \in S, \A j \in S : k <= j
  PROVE  Least(S) = k
<1>1. Least(S) \in S /\ \A j \in S : Least(S) <= j
  BY LeastFacts
<1>2. Least(S) <= k /\ k <= Least(S) /\ k \in Nat /\ Least(S) \in Nat
  BY <1>1
<1> QED BY <1>2

\* The hosts that a search can find: all but the last of several.
Shown == IF Len(hosts) > 1 THEN SubSeq(hosts, 1, Len(hosts) - 1) ELSE hosts

\* The walk visits those hosts and no others, in their order.
LEMMA WalkFacts ==
  ASSUME hosts \in Seq(Host)
  PROVE  /\ DOMAIN Shown \subseteq Nat
         /\ \A i \in DOMAIN Shown : Shown[i] = hosts[i] /\ i \in DOMAIN hosts
         /\ \A k \in 1..Len(hosts) : Visit(k) \in DOMAIN Shown
         /\ \A i \in DOMAIN Shown : \E k \in 1..Len(hosts) : Visit(k) = i
         /\ \A k, j \in 1..Len(hosts) : k <= j => Visit(k) <= Visit(j)
<1> DEFINE n == Len(hosts)
<1>1. n \in Nat /\ DOMAIN hosts = 1..n
  OBVIOUS
<1>2. CASE n > 1
  <2>1. Shown = SubSeq(hosts, 1, n - 1)
    BY <1>2 DEF Shown
  <2>2. DOMAIN Shown = 1..(n - 1) /\ \A i \in 1..(n - 1) : Shown[i] = hosts[i]
    BY <2>1, <1>1, <1>2
  <2>3. \A k \in 1..n : Visit(k) \in 1..(n - 1)
    BY <1>1, <1>2 DEF Visit
  <2>4. \A i \in 1..(n - 1) : i + 1 \in 1..n /\ Visit(i + 1) = i
    BY <1>1 DEF Visit
  <2>5. \A k, j \in 1..n : k <= j => Visit(k) <= Visit(j)
    BY <1>1 DEF Visit
  <2>6. 1..(n - 1) \subseteq Nat /\ 1..(n - 1) \subseteq 1..n
    BY <1>1
  <2>7. \A i \in 1..(n - 1) : \E k \in 1..n : Visit(k) = i
    BY <2>4
  <2> QED BY <2>2, <2>3, <2>5, <2>6, <2>7, <1>1
<1>3. CASE ~(n > 1)
  <2>1. Shown = hosts
    BY <1>3 DEF Shown
  <2>2. \A k \in 1..n : k = 1 /\ Visit(k) = k
    BY <1>1, <1>3 DEF Visit
  <2> QED BY <2>1, <2>2, <1>1
<1> QED BY <1>2, <1>3

\* The turn at which the default host is found last exists, and it is that host.
LEMMA DefaultFacts ==
  ASSUME IInv, Defaults # {}
  PROVE  Greatest(Defaults) \in Defaults
<1>1. hosts \in Seq(Host) /\ Len(hosts) \in Nat /\ DOMAIN hosts = 1..Len(hosts)
  BY DEF IInv
<1>2. \A k \in 1..Len(hosts) : Visit(k) \in DOMAIN hosts
  BY <1>1, WalkFacts
<1>3. PICK m \in Defaults : TRUE
  OBVIOUS
<1> DEFINE d == Visit(m)
<1>4. \A k \in Defaults : k \in 1..Len(hosts) /\ Visit(k) = d
  BY <1>2, <1>3 DEF Defaults, IInv, OneDefault
<1>5. \E k \in Defaults : \A j \in Defaults : k >= j
  <2>1. CASE \E k \in Defaults : k # 1
    <3>1. PICK k \in Defaults : k # 1
      BY <2>1
    <3>2. Visit(k) = k - 1 /\ k \in Nat /\ k >= 1
      BY <3>1, <1>4, <1>1 DEF Visit
    <3>3. ASSUME NEW j \in Defaults PROVE k >= j
      <4>1. j \in Nat /\ j >= 1 /\ Visit(j) = k - 1
        BY <3>3, <3>2, <1>4, <1>1
      <4>2. j = 1 \/ j - 1 = k - 1
        BY <4>1 DEF Visit
      <4> QED BY <4>1, <4>2, <3>2
    <3> QED BY <3>3
  <2>2. CASE \A k \in Defaults : k = 1
    <3>1. \A j \in Defaults : m >= j
      BY <2>2, <1>3
    <3> QED BY <3>1, <1>3
  <2> QED BY <2>1, <2>2
<1> QED BY <1>5 DEF Greatest

\* The search through the walk is the search in the hosts it shows.
LEMMA SearchFacts ==
  ASSUME IInv, NEW n
  PROVE  GetHost(n) = Wanted(n, Shown)
<1> DEFINE named == {i \in DOMAIN Shown : Shown[i].name = n}
           default == {i \in DOMAIN Shown : Shown[i].default}
<1>1. hosts \in Seq(Host) /\ Len(hosts) \in Nat /\ DOMAIN hosts = 1..Len(hosts)
  BY DEF IInv
<1>2. /\ DOMAIN Shown \subseteq Nat
      /\ \A i \in DOMAIN Shown : Shown[i] = hosts[i] /\ i \in DOMAIN hosts
      /\ \A k \in 1..Len(hosts) : Visit(k) \in DOMAIN Shown
      /\ \A i \in DOMAIN Shown : \E k \in 1..Len(hosts) : Visit(k) = i
      /\ \A k, j \in 1..Len(hosts) : k <= j => Visit(k) <= Visit(j)
  BY <1>1, WalkFacts
<1>3. named \in SUBSET Nat /\ default \in SUBSET Nat
  BY <1>2
<1>4. Matches(n) \in SUBSET Nat /\ Matches(n) \in SUBSET (1..Len(hosts))
  BY <1>1 DEF Matches
<1>5. Wanted(n, Shown) = IF n # None /\ named # {} THEN Least(named)
                         ELSE IF default # {} THEN Least(default) ELSE 0
  BY DEF Wanted
<1>6. \A k \in Matches(n) : n # None /\ Visit(k) \in named
  BY <1>2 DEF Matches
<1>7. n # None => \A i \in named : \E k \in Matches(n) : Visit(k) = i
  BY <1>2 DEF Matches
<1>8. \A k \in Defaults : Visit(k) \in default
  BY <1>2 DEF Defaults
<1>9. \A i \in default : \E k \in Defaults : Visit(k) = i
  BY <1>2 DEF Defaults
<1>10. CASE Matches(n) # {}
  <2> DEFINE k == Least(Matches(n))
  <2>1. k \in Matches(n) /\ \A j \in Matches(n) : k <= j
    BY <1>4, <1>10, LeastFacts
  <2>2. Visit(k) \in named /\ n # None
    BY <2>1, <1>6
  <2>3. ASSUME NEW i \in named PROVE Visit(k) <= i
    <3>1. PICK j \in Matches(n) : Visit(j) = i
      BY <1>7, <2>2, <2>3
    <3> QED BY <3>1, <2>1, <1>2, <1>4
  <2>4. Least(named) = Visit(k)
    <3> HIDE DEF k, named
    <3> QED BY <2>2, <2>3, <1>3, LeastIs
  <2>5. GetHost(n) = Visit(k)
    BY <1>10 DEF GetHost
  <2> QED BY <1>5, <2>2, <2>4, <2>5
<1>11. CASE Matches(n) = {} /\ Defaults # {}
  <2> DEFINE k == Greatest(Defaults)
  <2>1. k \in Defaults
    BY <1>11, DefaultFacts
  <2>2. Visit(k) \in default
    BY <2>1, <1>8
  <2>3. \A i \in default : i = Visit(k)
    BY <2>2, <1>2 DEF IInv, OneDefault
  <2>4. Least(default) = Visit(k)
    <3>1. \A i \in default : Visit(k) <= i
      BY <2>3, <2>2, <1>3
    <3> HIDE DEF k, default
    <3> QED BY <2>2, <3>1, <1>3, LeastIs
  <2>5. GetHost(n) = Visit(k)
    BY <1>11 DEF GetHost
  <2>6. ~(n # None /\ named # {}) /\ default # {}
    BY <1>11, <1>7, <2>2
  <2> QED BY <1>5, <2>4, <2>5, <2>6
<1>12. CASE Matches(n) = {} /\ Defaults = {}
  <2>1. ~(n # None /\ named # {}) /\ default = {}
    BY <1>12, <1>7, <1>9
  <2>2. GetHost(n) = 0
    BY <1>12 DEF GetHost
  <2> QED BY <1>5, <2>1, <2>2
<1> QED BY <1>10, <1>11, <1>12

\* For any number of hosts, however they are named and marked, a search finds the host it should
\* among all but the last of several (config_server_gethost).
THEOREM SearchCorrect == Spec => HiddenOnlyLast
<1>1. Init => IInv
  BY DEF Init, IInv, OneDefault
<1>2. IInv /\ [Next]_vars => IInv'
  BY Step
<1>3. ASSUME IInv, [Next]_vars
      PROVE  [result' # result =>
                result'.host = Wanted(result'.name, IF Len(hosts) > 1
                                                    THEN SubSeq(hosts, 1, Len(hosts) - 1)
                                                    ELSE hosts)]_vars
  <2>1. SUFFICES ASSUME result' # result
                 PROVE  result'.host = Wanted(result'.name, Shown)
    BY DEF Shown
  <2>2. \E n \in Name \cup {None} : Lookup(n)
    BY <1>3, <2>1 DEF Next, Line, HostSection, ServerSection, Listen, HostName, HostDefault,
                      InHost, Reading, Serve, Delete, vars
  <2>3. PICK n \in Name \cup {None} : Lookup(n)
    BY <2>2
  <2>4. result' = [name |-> n, host |-> GetHost(n)]
    BY <2>3 DEF Lookup
  <2>5. GetHost(n) = Wanted(n, Shown)
    BY <1>3, SearchFacts
  <2> QED BY <2>4, <2>5
<1> QED BY <1>1, <1>2, <1>3, PTL DEF Spec, HiddenOnlyLast
--------------------------------------------------------------------------------
\* Before the server runs nothing is searched, and then the hosts stay as they are.
SearchOK == phase = "reading" => result.host = 0

\* What a search returns is one of the hosts, or none.
LEMMA GetHostType ==
  ASSUME IInv, NEW n
  PROVE  GetHost(n) \in 0..Len(hosts)
<1>1. hosts \in Seq(Host) /\ Len(hosts) \in Nat
  BY DEF IInv
<1>2. \A k \in 1..Len(hosts) : Visit(k) \in 0..Len(hosts)
  BY <1>1 DEF Visit
<1>3. CASE Matches(n) # {}
  <2>1. Least(Matches(n)) \in 1..Len(hosts)
    <3>1. Matches(n) \in SUBSET (1..Len(hosts)) /\ Matches(n) \in SUBSET Nat
      BY <1>1 DEF Matches
    <3> QED BY <1>3, <3>1, LeastFacts
  <2> QED BY <1>2, <1>3, <2>1 DEF GetHost
<1>4. CASE Matches(n) = {} /\ Defaults # {}
  <2>1. Greatest(Defaults) \in 1..Len(hosts)
    BY <1>4, DefaultFacts DEF Defaults
  <2> QED BY <1>2, <1>4, <2>1 DEF GetHost
<1>5. CASE Matches(n) = {} /\ Defaults = {}
  BY <1>1, <1>5 DEF GetHost
<1> QED BY <1>3, <1>4, <1>5

\* The lines of the file give a port of 16 bits, and a search returns a host
\* that exists however often hosts are searched (config_server_gethost).
THEOREM TypeCorrect == Spec => []TypeOK
<1> USE DEF TypeOK, SearchOK
<1>1. Init => IInv /\ TypeOK /\ SearchOK
  BY DEF Init, IInv, OneDefault
<1>2. ASSUME IInv, IInv', TypeOK, SearchOK, [Next]_vars
      PROVE  TypeOK' /\ SearchOK'
  <2>1. hosts' \in Seq(Host)
    BY <1>2 DEF IInv
  <2>2. CASE Line
    <3>1. phase = "reading" /\ UNCHANGED <<phase, result>>
      BY <2>2 DEF Line, HostSection, ServerSection, Listen, HostName, HostDefault,
                  InHost, Reading
    <3>2. section' \in {"none", "Server", "Host"}
      BY <2>2 DEF Line, HostSection, ServerSection, Listen, HostName, HostDefault, InHost
    <3>3. port' \in Nat /\ port' < 65536
      <4>1. ASSUME NEW n \in Port, Listen(n) PROVE port' \in Nat /\ port' < 65536
        BY <4>1, PortAssumption DEF Listen
      <4> QED BY <1>2, <2>2, <4>1 DEF Line, HostSection, ServerSection, HostName,
                                      HostDefault, InHost
    <3>4. 0 \in 0..Len(hosts')
      BY <2>1
    <3> QED BY <1>2, <2>1, <3>1, <3>2, <3>3, <3>4
  <2>3. CASE Serve \/ Delete \/ UNCHANGED vars
    <3>1. UNCHANGED <<hosts, port, section, result>>
      BY <2>3 DEF Serve, Delete, vars
    <3>2. phase' \in {"reading", "serving", "deleted"}
      BY <1>2, <2>3 DEF Serve, Delete, vars
    <3>3. phase' = "reading" => phase = "reading"
      BY <2>3 DEF Serve, Delete, vars
    <3>4. UNCHANGED Len(hosts)
      BY <3>1
    <3> QED BY <1>2, <3>1, <3>2, <3>3
  <2>4. ASSUME NEW n \in Name \cup {None}, Lookup(n) PROVE TypeOK' /\ SearchOK'
    <3>1. GetHost(n) \in 0..Len(hosts)
      BY <1>2, GetHostType
    <3> QED BY <1>2, <2>4, <3>1 DEF Lookup
  <2> QED BY <1>2, <2>2, <2>3, <2>4 DEF Next
<1>3. IInv /\ [Next]_vars => IInv'
  BY Step
<1> QED BY <1>1, <1>2, <1>3, PTL DEF Spec
================================================================================
