---------------------------- MODULE ServerSettings ----------------------------
(***************************************************************************)
(* Changes of a server's settings (server-settings.controller.ts): what    *)
(* the panel has in the row and what the agent was told are two copies of  *)
(* limits, ports and configuration, changed one call at a time.  A request *)
(* works on the row it read first; nothing keeps two requests for one      *)
(* server apart.  Installing the JAR of a version writes the same map of   *)
(* variables.  Servers here are on one node; of the variables, "word"      *)
(* stands for those that users edit, "template" for the panel's own.       *)
(***************************************************************************)
EXTENDS Integers, Sequences, SequencesExt, FiniteSetsExt, TLC

CONSTANTS
  Servers, Requests,
  Low, High,     \* the port range of the node
  PrimaryOf,     \* assigned_host_port of each server
  Bodies,        \* what clients send: role, vars, template, memory
  Versions,      \* versions whose JAR can be installed
  None,
  MaxEdits, MaxFaults

ServerSettingsAssumption ==
  /\ {Low, High, MaxEdits, MaxFaults} \subseteq Nat
  /\ PrimaryOf \in [Servers -> Nat \ {0}] /\ IsInjective(PrimaryOf)

VARIABLES
  rows,       \* the table: variables, the limit, and whether a handler holds the row
  agents,     \* what the agent was told of each server, and its JAR
  request,    \* requests under way, with the row each read
  excused,    \* history: servers with a failure between the two copies, or
              \* with two requests at once
  returned,   \* history: servers whose old ports were written back
  edits, faults

vars == <<rows, agents, request, excused, returned, edits, faults>>

Edit == edits < MaxEdits /\ edits' = edits + 1
Fault == faults < MaxFaults /\ faults' = faults + 1
Working(s) == {q \in Requests : request[q] # None /\ request[q].server = s}

\* What the agent gets of the variables.
Config(v) == [word |-> v.word, template |-> v.template, memory |-> v.memory]
\* portMappings(): the host ports, the primary one first.
Mapped(v) == [i \in DOMAIN v.ports |-> v.ports[i].port]
\* The variables ADDITIONAL_PORT_N, which carry their host port as value.
Named(v) == [k \in {v.ports[i].key : i \in DOMAIN v.ports} |-> (CHOOSE m \in ToSet(v.ports) : m.key = k).port]
HostPorts(s) == {PrimaryOf[s]} \cup ToSet(Mapped(rows[s].vars))

-----------------------------------------------------------------------------
(* The registry. *)

\* Seeded fault: the mapped ports of other servers are not looked up.
Used_Assigned(s) == {PrimaryOf[t] : t \in Servers \ {s}}
\* What other servers of the node have.
Used(s) == UNION {HostPorts(t) : t \in Servers \ {s}}

\* allocateRequestedPorts(): a port that is asked for by name is had or the
\* request refused, one that is kept may be lost, and the rest are the first
\* free ones of the range.  <<>> with "wrong" when it cannot be done.
Allocated(s, wanted) ==
  LET old == rows[s].vars.ports
      keys == SetToSortSeq(DOMAIN wanted, <)
      used == Used(s)
      asked(i) == IF i \in DOMAIN old THEN old[i].key ELSE keys[i]
      Chosen[i \in 0..Len(keys)] ==
        IF i = 0 THEN [wrong |-> FALSE, ports |-> <<PrimaryOf[s]>>]
        ELSE LET c == Chosen[i - 1]
                 named == asked(i) \in DOMAIN wanted
                 port == IF named THEN wanted[asked(i)] ELSE old[i].port
                 taken == port \in used \cup ToSet(c.ports)
             IN [wrong |-> c.wrong \/ (named /\ taken), ports |-> IF taken THEN c.ports ELSE Append(c.ports, port)]
      chosen == Chosen[Len(keys)]
      missing == Len(keys) + 1 - Len(chosen.ports)
      free == SetToSortSeq((Low..High) \ (used \cup ToSet(chosen.ports)), <)
  IN IF chosen.wrong \/ Len(free) < missing THEN [wrong |-> TRUE, ports |-> <<>>]
     ELSE [wrong |-> FALSE, ports |-> Tail(chosen.ports \o SubSeq(free, 1, missing))]

\* withPortMappings(): the i-th port goes to the i-th of the variables asked for.
WithPorts(v, wanted, ports) ==
  LET keys == SetToSortSeq(DOMAIN wanted, <) IN
  [v EXCEPT !.ports = [i \in DOMAIN ports |-> [key |-> keys[i], port |-> ports[i]]]]

-----------------------------------------------------------------------------
(* Requests. *)

\* applyVariableUpdate(): users change what the egg lets them; for
\* administrators the map is replaced, but for what the panel keeps in it.
Updated(copy, body) == IF body.vars = None THEN copy ELSE [copy EXCEPT !.word = body.vars.word]
PortsAsked(copy, body) == body.role = "admin" /\ body.vars # None /\ body.vars.ports # Named(copy)
\* Users change no port, limit or command; ports they leave out stay.
Refused(copy, body) ==
  /\ body.role = "user"
  /\ \/ body.template # None \/ body.memory # None
     \/ body.vars # None /\ \E k \in DOMAIN body.vars.ports :
          k \notin DOMAIN Named(copy) \/ Named(copy)[k] # body.vars.ports[k]
\* mergeResourceVariables().
Merged(v, body) ==
  [v EXCEPT !.template = IF body.template = None THEN @ ELSE body.template,
            !.memory = IF body.memory = None THEN @ ELSE body.memory]

\* updateSettings(), up to the first call: what users may not ask for is
\* refused before anything happened.
Begin(q, s, body) ==
  LET copy == rows[s].vars
      configured == body.vars # None \/ body.template # None \/ body.memory # None
  IN
  /\ Edit /\ request[q] = None
  /\ ~Refused(copy, body)
  /\ request' = [request EXCEPT ![q] =
       [server |-> s, copy |-> copy, body |-> body, next |-> Updated(copy, body), done |-> {},
        todo |-> (IF PortsAsked(copy, body) THEN <<"reserve">> ELSE <<>>)
              \o (IF body.memory # None THEN <<"limits">> ELSE <<>>)
              \o (IF PortsAsked(copy, body) THEN <<"ports">> ELSE <<>>)
              \o (IF configured THEN <<"configure">> ELSE <<>>) \o <<"write">>]]
  /\ excused' = IF Working(s) = {} THEN excused ELSE excused \cup {s}
  /\ UNCHANGED <<rows, agents, returned, faults>>

At(q, step) == request[q] # None /\ Head(request[q].todo) = step
\* The next step of a request that has done one more thing.
Goes(r, done) == [r EXCEPT !.todo = Tail(@), !.done = @ \cup done]
\* A request that ends halfway leaves what it has done.
Ends(q, done) ==
  /\ request' = [request EXCEPT ![q] = None]
  /\ excused' = IF request[q].done \cup done = {} THEN excused ELSE excused \cup {request[q].server}

\* A call to the agent: done, refused, or done and the answer lost.
Call(q, done, effect) ==
  \/ /\ agents' = [agents EXCEPT ![request[q].server] = effect]
     /\ request' = [request EXCEPT ![q] = Goes(@, done)]
     /\ UNCHANGED <<excused, faults>>
  \/ Fault /\ Ends(q, {}) /\ UNCHANGED agents
  \/ Fault /\ Ends(q, done) /\ agents' = [agents EXCEPT ![request[q].server] = effect]

\* reconcilePortAllocations(), assignPortAllocations(): the ports are reserved
\* by writing the whole map of variables.
Reserve(q) ==
  LET r == request[q] got == Allocated(r.server, r.body.vars.ports) IN
  /\ At(q, "reserve")
  /\ IF got.wrong THEN Ends(q, {}) /\ UNCHANGED rows
     ELSE LET v == WithPorts(r.next, r.body.vars.ports, got.ports) IN
          /\ rows' = [rows EXCEPT ![r.server].vars = v]
          /\ request' = [request EXCEPT ![q] =
               [Goes(@, {"ports"}) EXCEPT !.next = v, !.todo = SelectSeq(@, LAMBDA step : step # "ports" \/ Mapped(v) # Mapped(r.copy))]]
          /\ UNCHANGED excused
  /\ UNCHANGED <<agents, returned, edits, faults>>

\* updateServerResources().
Limits(q) ==
  /\ At(q, "limits")
  /\ Call(q, {"memory"}, [agents[request[q].server] EXCEPT !.memory = request[q].body.memory])
  /\ UNCHANGED <<rows, returned, edits>>

\* Seeded fault: what was reserved stays when the agent refuses it.
PutBack_Keeps(r) == rows
\* The row gets back the variables that the request read.
PutBack(r) == [rows EXCEPT ![r.server].vars = r.copy]

\* updateServerPorts(): a refusal is undone in the row, unless a handler holds it.
Ports(q) ==
  LET r == request[q] s == r.server effect == [agents[s] EXCEPT !.ports = Mapped(r.next)] IN
  /\ At(q, "ports")
  /\ \/ /\ agents' = [agents EXCEPT ![s] = effect]
        /\ request' = [request EXCEPT ![q] = Goes(@, {"ports"})]
        /\ UNCHANGED <<rows, excused, returned, faults>>
     \/ /\ Fault /\ request' = [request EXCEPT ![q] = None]
        /\ \E lost \in BOOLEAN :
             /\ agents' = IF lost THEN [agents EXCEPT ![s] = effect] ELSE agents
             /\ rows' = IF rows[s].held THEN rows ELSE PutBack(r)
             /\ returned' = IF rows[s].held THEN returned ELSE returned \cup {s}
             /\ excused' = IF lost \/ rows[s].held \/ r.done # {"ports"} THEN excused \cup {s} ELSE excused
  /\ UNCHANGED edits

\* updateServerConfiguration().
Configure(q) ==
  LET r == request[q] v == Merged(r.next, r.body) IN
  /\ At(q, "configure")
  /\ Call(q, {"config"}, [agents[r.server] EXCEPT !.config = Config(v)])
  /\ UNCHANGED <<rows, returned, edits>>

\* The columns that the patch names; the variables as a whole.
Written(r) == [rows[r.server] EXCEPT !.memory = IF r.body.memory = None THEN @ ELSE r.body.memory,
                                     !.vars = Merged(r.next, r.body)]

\* registry.updateSettings(), refused while a handler holds the row.
Write(q) ==
  LET r == request[q] IN
  /\ At(q, "write")
  /\ IF rows[r.server].held THEN Ends(q, {}) /\ UNCHANGED rows
     ELSE /\ rows' = [rows EXCEPT ![r.server] = Written(r)]
          /\ request' = [request EXCEPT ![q] = None] /\ UNCHANGED excused
  /\ UNCHANGED <<agents, returned, edits, faults>>

-----------------------------------------------------------------------------
(* installVersionJar(). *)

Install(q, s, version) ==
  /\ Edit /\ request[q] = None
  /\ request' = [request EXCEPT ![q] =
       [server |-> s, next |-> [rows[s].vars EXCEPT !.version = version], done |-> {},
        todo |-> IF agents[s].running THEN <<"stop", "upload", "save", "start">> ELSE <<"upload", "save">>]]
  /\ excused' = IF Working(s) = {} THEN excused ELSE excused \cup {s}
  /\ UNCHANGED <<rows, agents, returned, faults>>

\* A server that stopped before its databases failed to is not started again:
\* only the end of both counts as stopped.
Stop(q) ==
  LET s == request[q].server stopped == [agents EXCEPT ![s].running = FALSE] IN
  /\ At(q, "stop")
  /\ \/ agents' = stopped /\ request' = [request EXCEPT ![q] = Goes(@, {})] /\ UNCHANGED <<excused, faults>>
     \/ Fault /\ Ends(q, {}) /\ UNCHANGED agents
     \/ Fault /\ Ends(q, {"stopped"}) /\ agents' = stopped
  /\ UNCHANGED <<rows, returned, edits>>

\* The catch block starts what was stopped, as well as it can.
Fails(q, jar, done) ==
  LET s == request[q].server stopped == "start" \in ToSet(request[q].todo) IN
  \E started \in IF stopped THEN BOOLEAN ELSE {FALSE} :
    /\ agents' = [agents EXCEPT ![s] = [@ EXCEPT !.jar = jar, !.running = @ \/ started]]
    /\ Ends(q, done \cup IF stopped /\ ~started THEN {"stopped"} ELSE {})

\* uploadFile().
Upload(q) ==
  LET r == request[q] IN
  /\ At(q, "upload")
  /\ \/ /\ agents' = [agents EXCEPT ![r.server].jar = r.next.version]
        /\ request' = [request EXCEPT ![q] = Goes(@, {"jar"})]
        /\ UNCHANGED <<excused, faults>>
     \/ Fault /\ Fails(q, agents[r.server].jar, {})
     \/ Fault /\ Fails(q, r.next.version, {"jar"})
  /\ UNCHANGED <<rows, returned, edits>>

Save(q) ==
  LET r == request[q] IN
  /\ At(q, "save")
  /\ IF rows[r.server].held THEN Fails(q, agents[r.server].jar, {}) /\ UNCHANGED rows
     ELSE /\ rows' = [rows EXCEPT ![r.server].vars = r.next]
          /\ request' = [request EXCEPT ![q] = IF Tail(r.todo) = <<>> THEN None ELSE Goes(r, {})]
          /\ UNCHANGED <<agents, excused>>
  /\ UNCHANGED <<returned, edits, faults>>

StartAgain(q) ==
  LET s == request[q].server IN
  /\ At(q, "start")
  /\ request' = [request EXCEPT ![q] = None]
  /\ \/ agents' = [agents EXCEPT ![s].running = TRUE] /\ UNCHANGED <<excused, faults>>
     \/ Fault /\ excused' = excused \cup {s} /\ UNCHANGED agents
  /\ UNCHANGED <<rows, returned, edits>>

-----------------------------------------------------------------------------

\* A handler of ServerLifecycle holds the row, and lets it go.
Hold(s) ==
  /\ Edit
  /\ rows' = [rows EXCEPT ![s].held = ~@]
  /\ UNCHANGED <<agents, request, excused, returned, faults>>

Init ==
  /\ rows = [s \in Servers |-> [held |-> FALSE, memory |-> 0,
                                vars |-> [word |-> 0, template |-> 0, memory |-> 0, version |-> 0, ports |-> <<>>]]]
  /\ agents = [s \in Servers |-> [memory |-> 0, config |-> Config(rows[s].vars), ports |-> <<>>, jar |-> 0, running |-> TRUE]]
  /\ request = [q \in Requests |-> None]
  /\ excused = {} /\ returned = {} /\ edits = 0 /\ faults = 0

Next ==
  \/ \E q \in Requests :
       \/ \E s \in Servers :
            \/ \E body \in Bodies : Begin(q, s, body)
            \/ \E version \in Versions : Install(q, s, version)
       \/ Reserve(q) \/ Limits(q) \/ Ports(q) \/ Configure(q) \/ Write(q)
       \/ Stop(q) \/ Upload(q) \/ Save(q) \/ StartAgain(q)
  \/ \E s \in Servers : Hold(s)

Spec == Init /\ [][Next]_vars

-----------------------------------------------------------------------------
(* Properties. *)

\* Every list of ports names different variables, and its ports are ports.
TypeOK ==
  /\ \A s \in Servers : IsInjective([i \in DOMAIN rows[s].vars.ports |-> rows[s].vars.ports[i].key])
                        /\ HostPorts(s) \subseteq Nat \ {0}
  /\ \A q \in Requests : request[q] # None => request[q].todo # <<>> /\ request[q].server \in Servers
  /\ excused \cup returned \subseteq Servers

\* When nothing is under way for a server, the panel and the agent say the
\* same of its limit, ports, configuration and JAR, and it runs as before:
\* after any requests, one after the other, and after ports that the agent
\* refused (updateSettings, installVersionJar).
CopiesAgree ==
  \A s \in Servers \ excused : Working(s) = {} =>
    LET v == rows[s].vars IN
    agents[s] = [memory |-> rows[s].memory, config |-> Config(v), ports |-> Mapped(v), jar |-> v.version, running |-> TRUE]

\* No two servers have a host port, unless a failed update wrote ports back
\* that were no longer reserved (assignPortAllocations).
PortsReserved ==
  \A s, t \in Servers \ (returned \cup excused) : s # t => HostPorts(s) \cap HostPorts(t) = {}

\* "requested port ${candidate} is already in use" (allocateRequestedPorts): no
\* two servers have a host port.
HostPortsDistinct == \A s, t \in Servers : s # t => HostPorts(s) \cap HostPorts(t) = {}
=============================================================================
