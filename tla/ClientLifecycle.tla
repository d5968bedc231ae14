--------------------------- MODULE ClientLifecycle ---------------------------
(***************************************************************************)
(* The connection lifecycle of the Python RPCClient and what hangs on it:  *)
(* subscription entries and their restore, native request handlers,        *)
(* services and their manager, isolated clients (of handlers, channels,    *)
(* proxies and services), connect(), disconnect(), suspend() and           *)
(* reconfigure().                                                          *)
(*                                                                         *)
(* Everything an application registers is a member of Regs, made once; its *)
(* kind is the set it belongs to.  A registration with an isolated         *)
(* connection names its isolated client too.  The mux entry, pending       *)
(* requests and open sessions are in ClientCalls and the session modules.  *)
(***************************************************************************)
EXTENDS Naturals, FiniteSets

CONSTANTS
    Subs,               \* subscribe(), and register_handler() on the own connection
    Requests,           \* on_request()
    Services,           \* service.register_handler() on the own connection
    IsoHandlers,        \* register_handler() with an isolated connection
    IsoChannels,        \* channel(), private_channel() with an isolated connection
    IsoProxies,         \* create_proxy() with an isolated connection
    IsoServiceProxies,  \* create_service_proxy() with an isolated connection
    IsoServices,        \* service.register_handler() with an isolated connection
    Overlap,            \* the application overlaps its calls with connect(), disconnect()
    MaxRegs,            \* bound: registrations made
    MaxConnects,        \* bound: completed connects
    MaxTeardowns,       \* bound: calls of disconnect() and suspend()
    MaxOpts             \* bound: calls of reconfigure()

Own == Subs \cup Requests \cup Services
Iso == IsoHandlers \cup IsoChannels \cup IsoProxies \cup IsoServiceProxies \cup IsoServices
Regs == Own \cup Iso

(* A registration is of one kind. *)
ASSUME LifecycleAssumption ==
    /\ Subs \cap Requests = {} /\ Subs \cap Services = {} /\ Requests \cap Services = {}
    /\ IsoHandlers \cap IsoChannels = {} /\ IsoHandlers \cap IsoProxies = {}
    /\ IsoHandlers \cap IsoServiceProxies = {} /\ IsoHandlers \cap IsoServices = {}
    /\ IsoChannels \cap IsoProxies = {} /\ IsoChannels \cap IsoServiceProxies = {}
    /\ IsoChannels \cap IsoServices = {} /\ IsoProxies \cap IsoServiceProxies = {}
    /\ IsoProxies \cap IsoServices = {} /\ IsoServiceProxies \cap IsoServices = {}
    /\ Own \cap Iso = {}
    /\ Overlap \in BOOLEAN
    /\ {MaxRegs, MaxConnects, MaxTeardowns, MaxOpts} \subseteq Nat

VARIABLES
    conn,       \* self.nc: none, up, lost (closed by the library) or closing
    closed,     \* self._closed
    ctask,      \* self._connection_task: none, dialing or restoring
    used,       \* the options the transport was dialled with
    todo,       \* rest of the snapshot that _connect() restores
    connects,   \* completed dials; RPCService is initialised after the first
    opts,       \* self.options, as a version
    reconf,     \* how the last reconfigure() ended
    reg,        \* what the application knows of a registration
    entries,    \* self._subscription_entries
    live,       \* registrations whose subscriptions exist at the server
    services,   \* RPCService.__services
    kids,       \* the isolated client of a registration
    kopts,      \* its options
    tracked,    \* self.isolated_clients
    td,         \* where the teardown is
    tdKind,     \* disconnect or suspend
    gang,       \* the isolated clients it is disconnecting
    teardowns

connVars == <<conn, closed, ctask, used, todo, connects>>
optVars == <<opts, reconf>>
regVars == <<reg, entries, live, services>>
kidVars == <<kids, kopts, tracked>>
tdVars == <<td, tdKind, gang, teardowns>>
vars == <<connVars, optVars, regVars, kidVars, tdVars>>

Init ==
    /\ conn = "none" /\ closed = FALSE /\ ctask = "none" /\ used = 0 /\ todo = {} /\ connects = 0
    /\ opts = 0 /\ reconf = "ok"
    /\ reg = [r \in Regs |-> "none"] /\ entries = {} /\ live = {} /\ services = {}
    /\ kids = [r \in Iso |-> "none"] /\ kopts = [r \in Iso |-> 0] /\ tracked = {}
    /\ td = "idle" /\ tdKind = "none" /\ gang = {} /\ teardowns = 0

-----------------------------------------------------------------------------
(* What the application knows of a registration; it learns nothing of those
   that the client forgets. *)
Now(r, s) == reg' = [reg EXCEPT ![r] = s]

Forget(rs) == reg' = [r \in Regs |-> IF r \in rs /\ reg[r] = "held" THEN "dropped" ELSE reg[r]]

-----------------------------------------------------------------------------
(* connect(). *)

(* One task per attempt; _connect() reads the options when it starts. *)
Connect ==
    /\ conn # "up" /\ ctask = "none"
    /\ td = "idle" \/ Overlap
    /\ connects < MaxConnects
    /\ ctask' = "dialing" /\ used' = opts
    /\ UNCHANGED <<conn, closed, todo, connects, optVars, regVars, kidVars, tdVars>>

DialFails ==
    /\ ctask = "dialing"
    /\ ctask' = "none"
    /\ UNCHANGED <<conn, closed, used, todo, connects, optVars, regVars, kidVars, tdVars>>

(* Mutant of DialDone: the entries are not restored. *)
DialDoneBare ==
    /\ ctask = "dialing"
    /\ conn' = "up" /\ closed' = FALSE /\ connects' = connects + 1
    /\ services' = {}
    /\ todo' = {} /\ ctask' = "none"
    /\ UNCHANGED <<used, optVars, reg, entries, live, kidVars, tdVars>>

(* The transport is there: the client is open, RPCService starts over, and the
   entries without a live subscription are to be restored.  Those have none
   (never made, or suspended) or one that is _closed: unsubscribe() and the end
   of the connection close it. *)
DialDone ==
    /\ ctask = "dialing"
    /\ conn' = "up" /\ closed' = FALSE /\ connects' = connects + 1
    /\ services' = {}
    /\ todo' = entries \ live
    /\ ctask' = IF todo' = {} THEN "none" ELSE "restoring"
    /\ UNCHANGED <<used, optVars, reg, entries, live, kidVars, tdVars>>

(* One round of the restore loop: _nats_subscribe(entry), whether or not the
   entry is still registered. *)
RestoreOne(r) ==
    /\ ctask = "restoring" /\ conn = "up" /\ r \in todo
    /\ live' = live \cup {r}
    /\ todo' = todo \ {r}
    /\ ctask' = IF todo' = {} THEN "none" ELSE "restoring"
    /\ UNCHANGED <<conn, closed, used, connects, optVars, reg, entries, services, kidVars, tdVars>>

RestoreFails ==
    /\ ctask = "restoring" /\ conn # "up"
    /\ ctask' = "none" /\ todo' = {}
    /\ UNCHANGED <<conn, closed, used, connects, optVars, regVars, kidVars, tdVars>>

(* External: the library gives the connection up.  The message tasks end with
   it; one that ends cleanly makes on_finish() drop its entry. *)
TransportLost ==
    /\ conn = "up"
    /\ conn' = "lost"
    /\ live' = live \ Own
    /\ entries' \in SUBSET entries
    /\ Forget((entries \ entries') \cup Requests \cup Services)
    /\ UNCHANGED <<closed, ctask, used, todo, connects, optVars, services, kidVars, tdVars>>

(* Mutant of Reconfigure: the isolated clients are forgotten. *)
ReconfigureAlone ==
    /\ conn # "up" /\ opts < MaxOpts
    /\ ctask = "none" \/ Overlap
    /\ opts' = opts + 1
    /\ reconf' = "ok"
    /\ UNCHANGED <<connVars, regVars, kidVars, tdVars>>

(* reconfigure(): own options first, then every tracked client in turn; one
   that is connected raises, and those after it keep their options. *)
Reconfigure ==
    /\ conn # "up" /\ opts < MaxOpts
    /\ ctask = "none" \/ Overlap
    /\ opts' = opts + 1
    /\ LET connected == {r \in tracked : kids[r] = "up"}
       IN \E told \in SUBSET (tracked \ connected) :
            /\ connected = {} => told = tracked
            /\ reconf' = IF connected = {} THEN "ok" ELSE "raised"
            /\ kopts' = [r \in Iso |-> IF r \in told THEN opts' ELSE kopts[r]]
    /\ UNCHANGED <<connVars, regVars, kids, tracked, tdVars>>

-----------------------------------------------------------------------------
(* Registrations on the own connection. *)

New(r) ==
    /\ reg[r] = "none"
    /\ Cardinality({x \in Regs : reg[x] # "none"}) < MaxRegs
    /\ td = "idle" \/ Overlap

(* subscribe(): the entry is stored first, and stays when the NATS
   subscription raises. *)
Subscribe(r) ==
    /\ r \in Subs /\ New(r) /\ conn # "none"
    /\ entries' = entries \cup {r}
    /\ \/ conn = "up" /\ live' = live \cup {r} /\ Now(r, "held")
       \/ conn # "up" /\ Now(r, "failed") /\ UNCHANGED live
    /\ UNCHANGED <<connVars, optVars, services, kidVars, tdVars>>

(* The returned unsubscribe(): the entry, then its subscription if it has one. *)
Unsubscribe(r) ==
    /\ r \in Subs /\ reg[r] \in {"held", "dropped"}
    /\ ctask # "restoring" \/ Overlap
    /\ entries' = entries \ {r}
    /\ live' = live \ {r}
    /\ Now(r, "gone")
    /\ UNCHANGED <<connVars, optVars, services, kidVars, tdVars>>

(* on_request() subscribes on the connection itself and keeps no entry. *)
OnRequest(r) ==
    /\ r \in Requests /\ New(r) /\ conn = "up"
    /\ live' = live \cup {r}
    /\ Now(r, "held")
    /\ UNCHANGED <<connVars, optVars, entries, services, kidVars, tdVars>>

OffRequest(r) ==
    /\ r \in Requests /\ reg[r] = "held"
    /\ live' = live \ {r}
    /\ Now(r, "gone")
    /\ UNCHANGED <<connVars, optVars, entries, services, kidVars, tdVars>>

RegisterService(r) ==
    /\ r \in Services /\ New(r) /\ conn = "up"
    /\ live' = live \cup {r}
    /\ services' = services \cup {r}
    /\ Now(r, "held")
    /\ UNCHANGED <<connVars, optVars, entries, kidVars, tdVars>>

-----------------------------------------------------------------------------
(* Registrations with an isolated client.  Its own connect() is one step. *)

Kid(r, s) == kids' = [kids EXCEPT ![r] = s] /\ kopts' = [kopts EXCEPT ![r] = opts]

(* Mutant of IsolatedHandler: the client is not remembered. *)
IsolatedHandlerLoose(r) ==
    /\ r \in IsoHandlers /\ New(r) /\ conn # "none"
    /\ Kid(r, "up")
    /\ live' = live \cup {r}
    /\ Now(r, "held")
    /\ UNCHANGED <<connVars, optVars, entries, services, tracked, tdVars>>

(* register_handler(): connect, then remember the client. *)
IsolatedHandler(r) ==
    /\ r \in IsoHandlers /\ New(r) /\ conn # "none"
    /\ Kid(r, "up")
    /\ tracked' = tracked \cup {r}
    /\ live' = live \cup {r}
    /\ Now(r, "held")
    /\ UNCHANGED <<connVars, optVars, entries, services, tdVars>>

(* channel(): remember the client, then connect; that may raise. *)
IsolatedChannel(r) ==
    /\ r \in IsoChannels /\ New(r)
    /\ tracked' = tracked \cup {r}
    /\ \/ Kid(r, "up") /\ live' = live \cup {r} /\ Now(r, "held")
       \/ Kid(r, "new") /\ Now(r, "failed") /\ UNCHANGED live
    /\ UNCHANGED <<connVars, optVars, entries, services, tdVars>>

(* create_proxy() connects nothing: the first call does. *)
IsolatedProxy(r) ==
    /\ r \in IsoProxies /\ New(r)
    /\ tracked' = tracked \cup {r}
    /\ Kid(r, "new")
    /\ Now(r, "held")
    /\ UNCHANGED <<connVars, optVars, entries, live, services, tdVars>>

ProxyCall(r) ==
    /\ r \in IsoProxies /\ kids[r] = "new"
    /\ kids' = [kids EXCEPT ![r] = "up"]
    /\ UNCHANGED <<connVars, optVars, regVars, kopts, tracked, tdVars>>

(* What ServiceMonitor.info() finds: those that answer within its window. *)
Found == {found \in SUBSET (Services \cup IsoServices) : found \subseteq live}

(* create_service_proxy(): connect and discover; without an answer the client
   is disconnected and forgotten before it raises. *)
ServiceProxy(r) ==
    /\ r \in IsoServiceProxies /\ New(r)
    /\ \E found \in Found :
        \/ found # {} /\ tracked' = tracked \cup {r} /\ Kid(r, "up") /\ Now(r, "held")
        \/ found = {} /\ Kid(r, "down") /\ Now(r, "failed") /\ UNCHANGED tracked
    /\ UNCHANGED <<connVars, optVars, entries, live, services, tdVars>>

(* service.register_handler(): the service is kept by RPCService, its client
   only by the service. *)
IsolatedService(r) ==
    /\ r \in IsoServices /\ New(r) /\ connects > 0
    /\ Kid(r, "up")
    /\ services' = services \cup {r}
    /\ live' = live \cup {r}
    /\ Now(r, "held")
    /\ UNCHANGED <<connVars, optVars, entries, tracked, tdVars>>

(* The cleanup of an isolated handler and ProxyWithClose.close(). *)
CloseIsolated(r) ==
    /\ r \in IsoHandlers \cup IsoProxies \cup IsoServiceProxies
    /\ reg[r] = "held"
    /\ kids' = [kids EXCEPT ![r] = "down"]
    /\ tracked' = tracked \ {r}
    /\ live' = live \ {r}
    /\ Now(r, "gone")
    /\ UNCHANGED <<connVars, optVars, entries, services, kopts, tdVars>>

(* Channel.close() never reaches the isolated client: channel() stores it
   under a name that _cleanup() does not read. *)
CloseChannel(r) ==
    /\ r \in IsoChannels /\ reg[r] = "held"
    /\ live' = live \ {r}
    /\ Now(r, "gone")
    /\ UNCHANGED <<connVars, optVars, entries, services, kidVars, tdVars>>

-----------------------------------------------------------------------------
(* Stopping services. *)

Stopped(rs) ==
    /\ live' = live \ rs
    /\ kids' = [r \in Iso |-> IF r \in rs THEN "down" ELSE kids[r]]
    /\ reg' = [r \in Regs |-> IF r \in rs THEN "gone" ELSE reg[r]]

(* RPCService.stop(name): only what it still remembers. *)
StopService(r) ==
    /\ r \in services
    /\ Stopped({r})
    /\ services' = services \ {r}
    /\ UNCHANGED <<connVars, optVars, entries, kopts, tracked, tdVars>>

StopAll ==
    /\ services # {}
    /\ Stopped(services)
    /\ services' = {}
    /\ UNCHANGED <<connVars, optVars, entries, kopts, tracked, tdVars>>

(* Service.stop(): the service alone; its client stays connected. *)
ServiceStop(r) ==
    /\ r \in Services \cup IsoServices /\ reg[r] = "held"
    /\ live' = live \ {r}
    /\ Now(r, "gone")
    /\ UNCHANGED <<connVars, optVars, entries, services, kidVars, tdVars>>

-----------------------------------------------------------------------------
(* disconnect() and suspend(). *)

TeardownStart(kind) ==
    /\ td = "idle" /\ teardowns < MaxTeardowns
    /\ ctask = "none" \/ Overlap
    /\ teardowns' = teardowns + 1
    /\ td' = "unsub" /\ tdKind' = kind
    /\ closed' = (closed \/ kind = "disconnect")
    /\ UNCHANGED <<conn, ctask, used, todo, connects, optVars, regVars, kidVars, gang>>

(* Unsubscribe every entry; disconnect() also forgets them.  Then gather() is
   given the isolated clients there are now. *)
TeardownUnsubscribe ==
    /\ td = "unsub"
    /\ td' = "kids" /\ gang' = tracked
    /\ live' = live \ entries
    /\ \/ tdKind = "disconnect" /\ entries' = {} /\ Forget(Own \cup tracked)
       \/ tdKind = "suspend" /\ UNCHANGED <<entries, reg>>
    /\ UNCHANGED <<connVars, optVars, services, kidVars, tdKind, teardowns>>

(* They are disconnected, which drops their entries; disconnect() clears the
   list, suspend() keeps it. *)
TeardownKids ==
    /\ td = "kids"
    /\ td' = "close" /\ gang' = {}
    /\ kids' = [r \in Iso |-> IF r \in gang THEN "down" ELSE kids[r]]
    /\ live' = live \ gang
    /\ tracked' = IF tdKind = "disconnect" THEN {} ELSE tracked
    /\ UNCHANGED <<connVars, optVars, reg, entries, services, kopts, tdKind, teardowns>>

(* Mutant of TeardownClose: the transport is let go without closing it. *)
TeardownCloseNot ==
    /\ td = "close"
    /\ \/ conn = "none" /\ td' = "idle" /\ UNCHANGED conn
       \/ conn # "none" /\ td' = "closing" /\ conn' = "closing"
    /\ UNCHANGED <<closed, ctask, used, todo, connects, optVars, regVars, kidVars, tdKind, gang, teardowns>>

TeardownClose ==
    /\ td = "close"
    /\ \/ conn = "none" /\ td' = "idle" /\ UNCHANGED <<conn, live>>
       \/ conn # "none" /\ td' = "closing" /\ conn' = "closing" /\ live' = live \ Own
    /\ UNCHANGED <<closed, ctask, used, todo, connects, optVars, reg, entries, services,
                   kidVars, tdKind, gang, teardowns>>

(* nc.close() is over: "self.nc = None", whatever nc is by now. *)
TeardownEnd ==
    /\ td = "closing"
    /\ td' = "idle" /\ conn' = "none"
    /\ UNCHANGED <<closed, ctask, used, todo, connects, optVars, regVars,
                   kidVars, tdKind, gang, teardowns>>

-----------------------------------------------------------------------------
Next ==
    \/ Connect \/ DialFails \/ DialDone \/ RestoreFails \/ TransportLost \/ Reconfigure
    \/ \E r \in Regs :
        \/ RestoreOne(r)
        \/ Subscribe(r) \/ Unsubscribe(r) \/ OnRequest(r) \/ OffRequest(r) \/ RegisterService(r)
        \/ IsolatedHandler(r) \/ IsolatedChannel(r) \/ IsolatedProxy(r) \/ ProxyCall(r)
        \/ ServiceProxy(r) \/ IsolatedService(r) \/ CloseIsolated(r) \/ CloseChannel(r)
        \/ StopService(r) \/ ServiceStop(r)
    \/ StopAll
    \/ \E kind \in {"disconnect", "suspend"} : TeardownStart(kind)
    \/ TeardownUnsubscribe \/ TeardownKids \/ TeardownClose \/ TeardownEnd

Spec == Init /\ [][Next]_vars

-----------------------------------------------------------------------------
(* Properties.  They hold when Overlap is FALSE. *)

TypeOK ==
    /\ conn \in {"none", "up", "lost", "closing"}
    /\ ctask \in {"none", "dialing", "restoring"}
    /\ todo \subseteq Regs /\ entries \subseteq Subs /\ live \subseteq Regs
    /\ services \subseteq Services \cup IsoServices
    /\ tracked \subseteq Iso \ IsoServices /\ gang \subseteq Iso
    /\ kids \in [Iso -> {"none", "new", "up", "down"}]
    /\ kopts \in [Iso -> 0..MaxOpts] /\ opts \in 0..MaxOpts /\ used \in 0..MaxOpts
    /\ reg \in [Regs -> {"none", "held", "failed", "dropped", "gone"}]
    /\ reconf \in {"ok", "raised"}
    /\ td \in {"idle", "unsub", "kids", "close", "closing"}

Settled == conn = "up" /\ ctask = "none" /\ td = "idle"

(* suspend() keeps the entries and connect() restores them: a subscription the
   application holds is there whenever the client is connected, however many
   suspends, reconfigures and failed connects lie between. *)
Restored == Settled => \A r \in Subs : reg[r] = "held" => r \in live

(* unsubscribe() is for good: no later connect() brings the handler back. *)
StaysGone == \A r \in Own : reg[r] = "gone" => r \notin live

(* A client that has finished disconnect() or suspend() receives nothing on
   its own connection. *)
DisconnectedIsSilent == conn = "none" /\ td = "idle" => live \cap Own = {}

(* disconnect() takes the isolated clients of handlers, channels and proxies
   with it, those of closed channels and of earlier suspends included. *)
DisconnectTakesKids ==
    [][tdKind = "disconnect" /\ td # "idle" /\ td' = "idle" =>
          \A r \in Iso \ IsoServices : kids[r] # "up"]_vars

(* After reconfigure() every client that connects uses the new options: the
   client itself, and the isolated ones unless reconfigure() raised. *)
OptionsCurrent ==
    /\ conn = "up" => used = opts
    /\ reconf = "ok" => \A r \in tracked : kids[r] = "up" => kopts[r] = opts

(* stop_all() reaches every service that runs on the own connection. *)
ServicesKnown == live \cap Services \subseteq services

(* create_service_proxy() that raises leaves no isolated client behind. *)
FailedProxyIsGone ==
    \A r \in IsoServiceProxies : reg[r] = "failed" => kids[r] # "up" /\ r \notin tracked

(* Registrations outlive transports as long as the application holds them, and
   no longer: subscriptions come back, what was unsubscribed does not, and no
   service runs that stop_all() would miss. *)
RegistrationsHold == TypeOK /\ Restored /\ StaysGone /\ ServicesKnown

(* What failed or was taken down leaves no connection and no subscription. *)
NothingLeft == DisconnectedIsSilent /\ FailedProxyIsGone
=============================================================================
