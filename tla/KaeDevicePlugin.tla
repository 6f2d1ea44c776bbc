--------------------------- MODULE KaeDevicePlugin ---------------------------
(***************************************************************************)
(* The KAE device plugin: a scanner that reports the accelerators found on   *)
(* the PCI bus, the manager's loop that starts, updates and stops one gRPC   *)
(* server per device type, the Serve goroutine of every server, and the      *)
(* ListAndWatch handlers that the kubelet's streams keep in it.              *)
(*                                                                         *)
(* External: the PCI bus, the kubelet (its restarts and the devices it       *)
(* believes each type to have) and gRPC.  A fatal error or a panic ends the  *)
(* process, and the DaemonSet starts it again.                               *)
(***************************************************************************)
EXTENDS Naturals, Sequences, FiniteSets

CONSTANTS
  Type,              \* device types: the drivers, numbered as the scan visits them
  Device,            \* devices
  Nil,
  MaxServers,        \* bound: servers created in one life of the process
  MaxBusChanges,     \* bound: changes on the PCI bus
  MaxKubeletRestarts \* bound: restarts of the kubelet

\* What a scan knows of a type: its devices and, as they are numbered through
\* all the types, the number of the first one; Nil when it has no device.
Info == [ids : SUBSET Device, first : Nat]

\* What the scanner sends to the loop.
Infos == UNION {[D -> Info] : D \in SUBSET Type}
Update == [added : Infos, updated : Infos, removed : SUBSET Type]

(***************************************************************************)
(* A server: Serve's progress, the channel of capacity 1 with its closed     *)
(* flag, the device list handlers share, and the handlers in the order in    *)
(* which they wait on the channel; "broken" ones serve a stream that ended.  *)
(* "sending" is the handler that has taken an update and not yet sent it.    *)
(***************************************************************************)
Handler == {"live", "broken"}

Serve == {"launched", "starting", "listening", "registered", "watching", "deaf",
          "done"}

Server == [type : Type, serve : Serve,
           grpc : {"none", "up", "stopped"}, terminating : BOOLEAN,
           chan : Seq(Info), closed : BOOLEAN,
           devices : Info \cup {Nil}, handlers : Seq(Handler),
           sending : Handler \cup {Nil}]

ASSUME KaeAssumption ==
  /\ Type \subseteq Nat /\ IsFiniteSet(Type) /\ IsFiniteSet(Device)
  /\ Nil \notin Nat \cup Info \cup Update \cup Server \cup Handler
  /\ \A D \in SUBSET Device : D # Nil
  /\ MaxServers \in Nat /\ MaxBusChanges \in Nat /\ MaxKubeletRestarts \in Nat

Id == 1..MaxServers

VARIABLES
  bus,        \* per type: the devices present; {} when the type has none
  tree,       \* the notifier's last device tree
  offer,      \* the update the scanner is sending to the loop, or Nil
  work,       \* the operations of the update in the loop's hands
  servers,    \* the manager's map: per type a server, or Nil
  server,     \* per server created: its state
  launches,   \* the number of servers created
  socket,     \* per type: the server whose socket file exists, or Nil
  kubelet,    \* per type: the devices last received, Nil before registration
  died,       \* how the process last ended
  busChanges, kubeletRestarts

pluginVars == <<bus, tree, offer, work, servers, server, launches, socket,
                kubelet, died, busChanges, kubeletRestarts>>

NewServer(t) ==
  [type |-> t, serve |-> "launched", grpc |-> "none", terminating |-> FALSE,
   chan |-> <<>>, closed |-> FALSE, devices |-> Nil, handlers |-> <<>>,
   sending |-> Nil]

NoServers == [i \in Id |-> Nil]

\* The whole process starts afresh; its sockets are dead, so the kubelet
\* keeps the types it knows with no healthy device.
Fresh ==
  /\ tree' = [t \in Type |-> Nil]
  /\ offer' = Nil
  /\ work' = <<>>
  /\ servers' = [t \in Type |-> Nil]
  /\ server' = NoServers
  /\ launches' = 0
  /\ socket' = [t \in Type |-> Nil]
  /\ kubelet' = [t \in Type |-> IF kubelet[t] = Nil THEN Nil ELSE {}]
  /\ UNCHANGED <<bus, busChanges, kubeletRestarts>>

Dies(how) == died' = how /\ Fresh

PluginInit ==
  /\ bus \in [Type -> SUBSET Device]
  /\ tree = [t \in Type |-> Nil]
  /\ offer = Nil
  /\ work = <<>>
  /\ servers = [t \in Type |-> Nil]
  /\ server = NoServers
  /\ launches = 0
  /\ socket = [t \in Type |-> Nil]
  /\ kubelet = [t \in Type |-> Nil]
  /\ died = "never"
  /\ busChanges = 0 /\ kubeletRestarts = 0

BusChanges ==
  /\ busChanges < MaxBusChanges
  /\ busChanges' = busChanges + 1
  /\ \E t \in Type, d \in Device :
       bus' = [bus EXCEPT ![t] = (@ \ {d}) \cup ({d} \ @)]
  /\ UNCHANGED <<tree, offer, work, servers, server, launches, socket, kubelet,
                 died, kubeletRestarts>>

(***************************************************************************)
(* Scan and Notify: the tree is compared with the last one.  The channel to  *)
(* the loop is unbuffered, so the scanner waits until its offer is taken.    *)
(***************************************************************************)
\* scan: the devices of the drivers before t are numbered before those of t.
FirstOf(t) == Cardinality({p \in Type \X Device : p[1] < t /\ p[2] \in bus[p[1]]})

Scan == [t \in Type |-> IF bus[t] = {} THEN Nil
                         ELSE [ids |-> bus[t], first |-> FirstOf(t)]]

\* A type whose devices got other numbers counts as updated as well.
Notify ==
  /\ offer = Nil
  /\ Scan # tree
  /\ tree' = Scan
  /\ offer' =
       [added   |-> [t \in {u \in Type : tree[u] = Nil /\ Scan[u] # Nil} |-> Scan[t]],
        updated |-> [t \in {u \in Type : tree[u] # Nil /\ Scan[u] \notin {Nil, tree[u]}}
                       |-> Scan[t]],
        removed |-> {t \in Type : tree[t] # Nil /\ Scan[t] = Nil}]
  /\ UNCHANGED <<bus, work, servers, server, launches, socket, kubelet, died,
                 busChanges, kubeletRestarts>>

\* One operation per type in every order Go's map iteration may choose.
Operations(u) ==
  {[op |-> "add", type |-> t, devices |-> u.added[t]] : t \in DOMAIN u.added}
  \cup {[op |-> "update", type |-> t, devices |-> u.updated[t]] :
          t \in DOMAIN u.updated}
  \cup {[op |-> "remove", type |-> t, devices |-> Nil] : t \in u.removed}

Phase == [add |-> 1, update |-> 2, remove |-> 3]

InOrder(s, u) ==
  /\ {s[i] : i \in DOMAIN s} = Operations(u)
  /\ \A i, j \in DOMAIN s : i < j => /\ s[i] # s[j]
                                     /\ Phase[s[i].op] =< Phase[s[j].op]

TakeUpdate ==
  /\ work = <<>> /\ offer # Nil
  /\ \E s \in [1..Cardinality(Operations(offer)) -> Operations(offer)] :
       InOrder(s, offer) /\ work' = s
  /\ offer' = Nil
  /\ UNCHANGED <<bus, tree, servers, server, launches, socket, kubelet, died,
                 busChanges, kubeletRestarts>>

(***************************************************************************)
(* handleUpdate, one operation at a time                                    *)
(***************************************************************************)
\* A slip for the mutants: the initial Update is forgotten.
AddServerEmpty(o) ==
  /\ o.op = "add" /\ launches < MaxServers
  /\ launches' = launches + 1
  /\ servers' = [servers EXCEPT ![o.type] = launches + 1]
  /\ server' = [server EXCEPT ![launches + 1] = NewServer(o.type)]
  /\ work' = Tail(work)
  /\ UNCHANGED <<bus, tree, offer, socket, kubelet, died, busChanges, kubeletRestarts>>

\* createServer and go Serve; the initial Update finds the channel empty.
AddServer(o) ==
  /\ o.op = "add"
  /\ launches < MaxServers
  /\ launches' = launches + 1
  /\ servers' = [servers EXCEPT ![o.type] = launches + 1]
  /\ server' = [server EXCEPT ![launches + 1] =
       [NewServer(o.type) EXCEPT !.chan = <<o.devices>>]]
  /\ work' = Tail(work)
  /\ UNCHANGED <<bus, tree, offer, socket, kubelet, died, busChanges, kubeletRestarts>>

\* The channel has a capacity of one update.
HasRoom(i) == server[i].chan = <<>>

\* Update blocks while the channel is full and panics when it is closed.
UpdateServer(o) ==
  /\ o.op = "update"
  /\ LET i == servers[o.type] IN
       \/ /\ server[i].closed
          /\ Dies("send on closed channel")
       \/ /\ ~server[i].closed /\ HasRoom(i)
          /\ server' = [server EXCEPT ![i].chan = Append(@, o.devices)]
          /\ work' = Tail(work)
          /\ UNCHANGED <<bus, tree, offer, servers, launches, socket, kubelet,
                         died, busChanges, kubeletRestarts>>

\* What grpcServer.Stop and close leave of a server: no socket, no stream.
Stopped(s) ==
  [s EXCEPT !.terminating = TRUE, !.grpc = "stopped", !.closed = TRUE,
            !.handlers = [k \in DOMAIN @ |-> "broken"],
            !.sending = IF @ = Nil THEN Nil ELSE "broken"]

Unplugged(i) ==
  /\ socket' = [socket EXCEPT ![server[i].type] = IF @ = i THEN Nil ELSE @]
  /\ kubelet' = [kubelet EXCEPT ![server[i].type] =
       IF socket[server[i].type] = i /\ @ # Nil THEN {} ELSE @]

\* Stop: an error before the gRPC server exists, a panic when it is closed
\* already; the manager forgets the server whatever Stop returns.
RemoveServer(o) ==
  /\ o.op = "remove"
  /\ LET i == servers[o.type] IN
       \/ /\ server[i].closed
          /\ Dies("close of closed channel")
       \/ /\ ~server[i].closed
          /\ servers' = [servers EXCEPT ![o.type] = Nil]
          /\ work' = Tail(work)
          /\ IF server[i].grpc = "none"
               THEN UNCHANGED <<server, socket, kubelet>>
               ELSE server' = [server EXCEPT ![i] = Stopped(@)] /\ Unplugged(i)
          /\ UNCHANGED <<bus, tree, offer, launches, died, busChanges, kubeletRestarts>>

HandleUpdate ==
  /\ work # <<>>
  /\ AddServer(Head(work)) \/ UpdateServer(Head(work)) \/ RemoveServer(Head(work))

(***************************************************************************)
(* setupAndServe                                                            *)
(***************************************************************************)
ServeOnly == UNCHANGED <<bus, tree, offer, work, servers, launches, died,
                         busChanges, kubeletRestarts>>

\* The goroutine looks its server up in the manager's map: by then the type
\* may be gone, a nil dereference.
Launch(i) ==
  /\ server[i] # Nil /\ server[i].serve = "launched"
  /\ IF servers[server[i].type] = Nil THEN Dies("nil server")
     ELSE /\ server' = [server EXCEPT ![i].serve = "starting"]
          /\ UNCHANGED <<socket, kubelet>> /\ ServeOnly

\* A socket somebody answers on is fatal.
Listen(i) ==
  /\ server[i] # Nil /\ server[i].serve = "starting"
  /\ IF socket[server[i].type] # Nil THEN Dies("socket in use")
     ELSE /\ server' = [server EXCEPT ![i].serve = "listening", ![i].grpc = "up"]
          /\ socket' = [socket EXCEPT ![server[i].type] = i]
          /\ UNCHANGED kubelet /\ ServeOnly

\* sendDevices: the kubelet is told the devices, not their numbers.
Ids(info) == IF info = Nil THEN {} ELSE info.ids

\* registerWithKubelet: the kubelet connects to the socket and opens a stream,
\* whose ListAndWatch handler first sends the devices known so far.
Register(i) ==
  /\ server[i] # Nil /\ server[i].serve = "listening"
  /\ IF socket[server[i].type] # i THEN Dies("registration failed")
     ELSE /\ server' = [server EXCEPT ![i].serve = "registered",
                          ![i].handlers = Append(@, "live")]
          /\ kubelet' = [kubelet EXCEPT ![server[i].type] = Ids(server[i].devices)]
          /\ UNCHANGED socket /\ ServeOnly

\* watchFile only sees what happens to the socket file from now on.
WatchFile(i) ==
  /\ server[i] # Nil /\ server[i].serve = "registered"
  /\ server' = [server EXCEPT ![i].serve =
       IF socket[server[i].type] = i THEN "watching" ELSE "deaf"]
  /\ UNCHANGED <<socket, kubelet>> /\ ServeOnly

\* A slip for the mutants: a removed socket always ends the service.
SocketGoneForGood(i) ==
  /\ server[i] # Nil /\ server[i].serve = "watching"
  /\ socket[server[i].type] # i
  /\ server' = [server EXCEPT ![i].grpc = "stopped", ![i].serve = "done"]
  /\ UNCHANGED <<socket, kubelet>> /\ ServeOnly

\* The socket file is gone: serve again after a restart of the kubelet, return
\* after Stop.  Stopping the gRPC server does not end a waiting handler.
SocketGone(i) ==
  /\ server[i] # Nil /\ server[i].serve = "watching"
  /\ socket[server[i].type] # i
  /\ server' = [server EXCEPT ![i].grpc = "stopped", ![i].serve =
       IF server[i].terminating THEN "done" ELSE "starting"]
  /\ UNCHANGED <<socket, kubelet>> /\ ServeOnly

\* The kubelet empties its plugin directory and forgets every type.
KubeletRestarts ==
  /\ kubeletRestarts < MaxKubeletRestarts
  /\ kubeletRestarts' = kubeletRestarts + 1
  /\ socket' = [t \in Type |-> Nil]
  /\ kubelet' = [t \in Type |-> Nil]
  /\ server' = [i \in Id |->
       IF server[i] = Nil THEN Nil
       ELSE [server[i] EXCEPT
               !.handlers = [k \in DOMAIN @ |-> "broken"],
               !.sending = IF @ = Nil THEN Nil ELSE "broken"]]
  /\ UNCHANGED <<bus, tree, offer, work, servers, launches, died, busChanges>>

(***************************************************************************)
(* ListAndWatch                                                             *)
(***************************************************************************)
\* The handler that has waited longest takes the update: channels are fair.
TakeDevices(i) ==
  /\ server[i] # Nil /\ server[i].sending = Nil
  /\ server[i].chan # <<>> /\ server[i].handlers # <<>>
  /\ server' = [server EXCEPT ![i].devices = server[i].chan[1], ![i].chan = <<>>,
                  ![i].sending = Head(server[i].handlers),
                  ![i].handlers = Tail(@)]
  /\ UNCHANGED <<socket, kubelet>> /\ ServeOnly

\* sendDevices: a failure stops the whole server.
SendDevices(i) ==
  /\ server[i] # Nil /\ server[i].sending # Nil
  /\ \/ /\ server[i].sending = "live"
        /\ server' = [server EXCEPT ![i].sending = Nil,
                        ![i].handlers = Append(@, "live")]
        /\ kubelet' = [kubelet EXCEPT ![server[i].type] = Ids(server[i].devices)]
        /\ UNCHANGED socket /\ ServeOnly
     \/ /\ server[i].sending = "broken" /\ server[i].closed
        /\ Dies("close of closed channel")
     \/ /\ server[i].sending = "broken" /\ ~server[i].closed
        /\ server' = [server EXCEPT ![i] = [Stopped(@) EXCEPT !.sending = Nil]]
        /\ Unplugged(i) /\ ServeOnly

\* A closed and empty channel ends the handlers.
HandlersReturn(i) ==
  /\ server[i] # Nil /\ server[i].closed
  /\ server[i].chan = <<>> /\ server[i].handlers # <<>>
  /\ server' = [server EXCEPT ![i].handlers = <<>>]
  /\ kubelet' = [kubelet EXCEPT ![server[i].type] =
       IF \E k \in DOMAIN server[i].handlers : server[i].handlers[k] = "live"
         THEN {} ELSE @]
  /\ UNCHANGED socket /\ ServeOnly

ServerStep(i) ==
  \/ Launch(i) \/ Listen(i) \/ Register(i) \/ WatchFile(i) \/ SocketGone(i)
  \/ TakeDevices(i) \/ SendDevices(i) \/ HandlersReturn(i)

PluginNext ==
  \/ BusChanges \/ KubeletRestarts
  \/ Notify \/ TakeUpdate \/ HandleUpdate
  \/ \E i \in Id : ServerStep(i)

\* The scanner ticks, the loop and every goroutine run.
PluginFairness ==
  /\ WF_pluginVars(Notify) /\ WF_pluginVars(TakeUpdate)
  /\ WF_pluginVars(HandleUpdate)
  /\ \A i \in Id :
       /\ WF_pluginVars(Launch(i) \/ Listen(i) \/ Register(i) \/ WatchFile(i)
                        \/ SocketGone(i))
       /\ WF_pluginVars(TakeDevices(i) \/ SendDevices(i) \/ HandlersReturn(i))

PluginSpec == PluginInit /\ [][PluginNext]_pluginVars
PluginFairSpec == PluginSpec /\ PluginFairness

(***************************************************************************)
(* Properties                                                               *)
(***************************************************************************)
Operation == [op : {"add", "update", "remove"}, type : Type, devices : Info \cup {Nil}]

PluginTypeOK ==
  /\ bus \in [Type -> SUBSET Device] /\ tree \in [Type -> Info \cup {Nil}]
  /\ offer # Nil =>
       /\ DOMAIN offer.added \subseteq Type /\ DOMAIN offer.updated \subseteq Type
       /\ \A t \in DOMAIN offer.added : offer.added[t] \in Info
       /\ \A t \in DOMAIN offer.updated : offer.updated[t] \in Info
       /\ offer.removed \subseteq Type
  /\ work \in Seq(Operation)
  /\ servers \in [Type -> Id \cup {Nil}]
  /\ server \in [Id -> Server \cup {Nil}]
  /\ \A i \in Id : server[i] # Nil => Len(server[i].chan) =< 1
  /\ launches \in 0..MaxServers
  /\ socket \in [Type -> Id \cup {Nil}]
  /\ kubelet \in [Type -> (SUBSET Device) \cup {Nil}]
  /\ busChanges \in 0..MaxBusChanges /\ kubeletRestarts \in 0..MaxKubeletRestarts

\* Some operation on type t is still on its way to the server.
Pending(t) ==
  \/ offer # Nil /\ t \in DOMAIN offer.added \cup DOMAIN offer.updated \cup offer.removed
  \/ \E k \in DOMAIN work : work[k].type = t

\* No update is lost between the scanner, the loop and the channel: a server
\* with nothing on its way has exactly the devices of the last scan, whichever
\* handler took the updates, and a type without devices has no server.
NoUpdateLost ==
  \A t \in Type : ~Pending(t) =>
    IF servers[t] = Nil THEN tree[t] = Nil
    ELSE LET s == server[servers[t]] IN
           tree[t] = IF s.chan = <<>> THEN s.devices ELSE s.chan[1]

\* What defeats the kubelet's view of a type: a server that the manager has
\* forgotten and that still serves, one that stopped itself when an update went to
\* a handler whose stream had ended, one that missed the removal of its socket.
Astray(t) ==
  \/ \E i \in Id : /\ server[i] # Nil /\ server[i].type = t
                    /\ servers[t] # i /\ server[i].grpc = "up"
  \/ /\ servers[t] # Nil
     /\ server[servers[t]].closed \/ server[servers[t]].serve = "deaf"

\* Once the bus is quiet the kubelet comes to know exactly the devices present,
\* through its own restarts, crashes of the process and full channels, unless the
\* type is astray.
KubeletConverges ==
  <>[](\A t \in Type : ~Astray(t) =>
         \/ kubelet[t] = bus[t]
         \/ bus[t] = {} /\ kubelet[t] = Nil)
==============================================================================
