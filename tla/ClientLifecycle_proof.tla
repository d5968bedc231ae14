------------------------ MODULE ClientLifecycle_proof ------------------------
(***************************************************************************)
(* Proofs about ClientLifecycle, for every number of registrations of each *)
(* kind, of connects, teardowns and reconfigures: an application that does *)
(* not overlap its calls with connect() and disconnect() keeps its         *)
(* registrations over any history of the transport, and a teardown leaves  *)
(* nothing of them behind.                                                 *)
(*                                                                         *)
(* The argument: a held subscription always has its entry, so the snapshot *)
(* that _connect() takes is complete; an entry that was unsubscribed is in *)
(* no snapshot; and the own connection has subscriptions only while it is  *)
(* up.  Isolated clients that may connect are on the list that a teardown  *)
(* works through.                                                          *)
(***************************************************************************)
EXTENDS ClientLifecycle, TLAPS

(* connect() and a teardown exclude each other; a snapshot lasts only as long
   as the restore loop. *)
PhaseInv ==
    /\ td # "idle" => ctask = "none"
    /\ td = "closing" <=> conn = "closing"
    /\ ctask = "dialing" => conn # "up"
    /\ ctask # "restoring" => todo = {}
    /\ todo \subseteq Subs

(* What the application holds has its entry, and is subscribed or about to be
   while the connection is up; what it gave up has neither. *)
EntryInv ==
    \A r \in Subs :
        /\ reg[r] = "held" => r \in entries
        /\ reg[r] = "held" /\ conn = "up" /\ td \in {"idle", "unsub"} => r \in live \cup todo
        /\ reg[r] = "gone" => r \notin entries /\ r \notin todo

(* The own connection has subscriptions only while it is up. *)
SilentInv == conn # "up" => live \cap Own = {}

(* An isolated client that is or may get connected is tracked, and those that
   a teardown has passed are not. *)
KidInv ==
    \A r \in Iso \ IsoServices :
        /\ kids[r] \in {"new", "up"} => r \in tracked
        /\ td = "kids" /\ r \in tracked => r \in gang
        /\ td \in {"close", "closing"} => kids[r] \notin {"new", "up"}

DialInv == ctask = "dialing" \/ conn = "up" => used = opts

TrackedInv == reconf = "ok" => \A r \in tracked : kopts[r] = opts

(* A service proxy has a client only from the moment it is made. *)
ProxyInv ==
    \A r \in IsoServiceProxies :
        reg[r] \in {"none", "failed"} => kids[r] # "up" /\ r \notin tracked

LifeInv ==
    /\ TypeOK /\ PhaseInv /\ EntryInv /\ StaysGone /\ SilentInv /\ ServicesKnown
    /\ KidInv /\ DialInv /\ TrackedInv /\ ProxyInv

-----------------------------------------------------------------------------
USE DEF Regs, Own, Iso

(* The variables keep their types, overlapping calls or not. *)
LEMMA TypeStep ==
    ASSUME TypeOK, [Next]_vars
    PROVE  TypeOK'
<1> USE LifecycleAssumption DEF TypeOK
<1>1. CASE Connect
  BY <1>1 DEF Connect, optVars, regVars, kidVars, tdVars
<1>2. CASE DialFails
  BY <1>2 DEF DialFails, optVars, regVars, kidVars, tdVars
<1>3. CASE DialDone
  BY <1>3 DEF DialDone, optVars, kidVars, tdVars
<1>4. CASE RestoreFails
  BY <1>4 DEF RestoreFails, optVars, regVars, kidVars, tdVars
<1>5. CASE TransportLost
  BY <1>5 DEF TransportLost, Forget, optVars, kidVars, tdVars
<1>6. CASE Reconfigure
  BY <1>6 DEF Reconfigure, connVars, regVars, tdVars
<1>7. ASSUME NEW r \in Regs, RestoreOne(r) PROVE TypeOK'
  BY <1>7 DEF RestoreOne, optVars, kidVars, tdVars
<1>8. ASSUME NEW r \in Regs, Subscribe(r) PROVE TypeOK'
  BY <1>8 DEF Subscribe, New, Now, connVars, optVars, kidVars, tdVars
<1>9. ASSUME NEW r \in Regs, Unsubscribe(r) PROVE TypeOK'
  BY <1>9 DEF Unsubscribe, Now, connVars, optVars, kidVars, tdVars
<1>10. ASSUME NEW r \in Regs, OnRequest(r) PROVE TypeOK'
  BY <1>10 DEF OnRequest, New, Now, connVars, optVars, kidVars, tdVars
<1>11. ASSUME NEW r \in Regs, OffRequest(r) PROVE TypeOK'
  BY <1>11 DEF OffRequest, Now, connVars, optVars, kidVars, tdVars
<1>12. ASSUME NEW r \in Regs, RegisterService(r) PROVE TypeOK'
  BY <1>12 DEF RegisterService, New, Now, connVars, optVars, kidVars, tdVars
<1>13. ASSUME NEW r \in Regs, IsolatedHandler(r) PROVE TypeOK'
  BY <1>13 DEF IsolatedHandler, New, Now, Kid, connVars, optVars, tdVars
<1>14. ASSUME NEW r \in Regs, IsolatedChannel(r) PROVE TypeOK'
  BY <1>14 DEF IsolatedChannel, New, Now, Kid, connVars, optVars, tdVars
<1>15. ASSUME NEW r \in Regs, IsolatedProxy(r) PROVE TypeOK'
  BY <1>15 DEF IsolatedProxy, New, Now, Kid, connVars, optVars, tdVars
<1>16. ASSUME NEW r \in Regs, ProxyCall(r) PROVE TypeOK'
  BY <1>16 DEF ProxyCall, connVars, optVars, regVars, tdVars
<1>17. ASSUME NEW r \in Regs, ServiceProxy(r) PROVE TypeOK'
  BY <1>17 DEF ServiceProxy, New, Now, Kid, connVars, optVars, tdVars
<1>18. ASSUME NEW r \in Regs, IsolatedService(r) PROVE TypeOK'
  BY <1>18 DEF IsolatedService, New, Now, Kid, connVars, optVars, tdVars
<1>19. ASSUME NEW r \in Regs, CloseIsolated(r) PROVE TypeOK'
  BY <1>19 DEF CloseIsolated, Now, connVars, optVars, tdVars
<1>20. ASSUME NEW r \in Regs, CloseChannel(r) PROVE TypeOK'
  BY <1>20 DEF CloseChannel, Now, connVars, optVars, kidVars, tdVars
<1>21. ASSUME NEW r \in Regs, StopService(r) PROVE TypeOK'
  BY <1>21 DEF StopService, Stopped, connVars, optVars, tdVars
<1>22. ASSUME NEW r \in Regs, ServiceStop(r) PROVE TypeOK'
  BY <1>22 DEF ServiceStop, Now, connVars, optVars, kidVars, tdVars
<1>23. CASE StopAll
  BY <1>23 DEF StopAll, Stopped, connVars, optVars, tdVars
<1>24. ASSUME NEW kind \in {"disconnect", "suspend"}, TeardownStart(kind) PROVE TypeOK'
  BY <1>24 DEF TeardownStart, optVars, regVars, kidVars
<1>25. CASE TeardownUnsubscribe
  BY <1>25 DEF TeardownUnsubscribe, Forget, connVars, optVars, kidVars
<1>26. CASE TeardownKids
  BY <1>26 DEF TeardownKids, connVars, optVars
<1>27. CASE TeardownClose
  BY <1>27 DEF TeardownClose, optVars, kidVars
<1>28. CASE TeardownEnd
  BY <1>28 DEF TeardownEnd, optVars, regVars, kidVars
<1>29. CASE UNCHANGED vars
  BY <1>29 DEF vars, connVars, optVars, regVars, kidVars, tdVars
<1> HIDE DEF TypeOK
<1>30. QED
  BY <1>1, <1>2, <1>3, <1>4, <1>5, <1>6, <1>7, <1>8, <1>9, <1>10, <1>11, <1>12, <1>13, <1>14,
     <1>15, <1>16, <1>17, <1>18, <1>19, <1>20, <1>21, <1>22, <1>23, <1>24, <1>25, <1>26, <1>27,
     <1>28, <1>29 DEF Next

(* connect() waits for a teardown to end and a teardown for connect(); the
   restore loop empties its snapshot before it ends. *)
LEMMA PhaseStep ==
    ASSUME ~Overlap, TypeOK, PhaseInv, [Next]_vars
    PROVE  PhaseInv'
<1> USE DEF TypeOK, PhaseInv
<1>1. CASE Reconfigure \/ StopAll
  BY <1>1 DEF Reconfigure, StopAll, connVars, tdVars
<1>2. CASE \E r \in Regs : Subscribe(r) \/ Unsubscribe(r) \/ OnRequest(r) \/ OffRequest(r) \/
        RegisterService(r) \/ IsolatedHandler(r) \/ IsolatedChannel(r) \/ IsolatedProxy(r) \/
        ProxyCall(r) \/ ServiceProxy(r) \/ IsolatedService(r) \/ CloseIsolated(r) \/
        CloseChannel(r) \/ StopService(r) \/ ServiceStop(r)
  BY <1>2 DEF Subscribe, Unsubscribe, OnRequest, OffRequest, RegisterService, IsolatedHandler,
     IsolatedChannel, IsolatedProxy, ProxyCall, ServiceProxy, IsolatedService, CloseIsolated,
     CloseChannel, StopService, ServiceStop, connVars, tdVars
<1>3. CASE Connect
  BY <1>3 DEF Connect, tdVars
<1>4. CASE DialFails
  BY <1>4 DEF DialFails, tdVars
<1>5. CASE DialDone
  BY <1>5 DEF DialDone, tdVars
<1>6. CASE RestoreFails
  BY <1>6 DEF RestoreFails, tdVars
<1>7. CASE TransportLost
  BY <1>7 DEF TransportLost, Forget, tdVars
<1>8. ASSUME NEW r \in Regs, RestoreOne(r) PROVE PhaseInv'
  BY <1>8 DEF RestoreOne, tdVars
<1>9. ASSUME NEW kind \in {"disconnect", "suspend"}, TeardownStart(kind) PROVE PhaseInv'
  BY <1>9 DEF TeardownStart
<1>10. CASE TeardownUnsubscribe
  BY <1>10 DEF TeardownUnsubscribe, Forget, connVars
<1>11. CASE TeardownKids
  BY <1>11 DEF TeardownKids, connVars
<1>12. CASE TeardownClose
  BY <1>12 DEF TeardownClose
<1>13. CASE TeardownEnd
  BY <1>13 DEF TeardownEnd
<1>14. CASE UNCHANGED vars
  BY <1>14 DEF vars, connVars, optVars, regVars, kidVars, tdVars
<1> HIDE DEF TypeOK, PhaseInv
<1>15. QED
  BY <1>1, <1>2, <1>3, <1>4, <1>5, <1>6, <1>7, <1>8, <1>9, <1>10, <1>11, <1>12, <1>13, <1>14 DEF Next

(* subscribe() stores the entry it is answered for, DialDone takes a snapshot of
   all that lack a subscription, and unsubscribe() meets no snapshot. *)
LEMMA EntryStep ==
    ASSUME ~Overlap, TypeOK, PhaseInv, EntryInv, [Next]_vars
    PROVE  EntryInv'
<1> USE LifecycleAssumption DEF TypeOK, PhaseInv, EntryInv
<1>1. CASE Connect \/ DialFails \/ Reconfigure
  BY <1>1 DEF Connect, DialFails, Reconfigure, regVars, tdVars, connVars
<1>2. CASE \E r \in Regs : ProxyCall(r)
  BY <1>2 DEF ProxyCall, connVars, regVars, tdVars
<1>3. CASE DialDone
  BY <1>3 DEF DialDone, tdVars
<1>4. CASE RestoreFails
  BY <1>4 DEF RestoreFails, regVars, tdVars
<1>5. CASE TransportLost
  BY <1>5 DEF TransportLost, Forget, tdVars
<1>6. ASSUME NEW r \in Regs, RestoreOne(r) PROVE EntryInv'
  BY <1>6 DEF RestoreOne, tdVars
<1>7. ASSUME NEW r \in Regs, Subscribe(r) PROVE EntryInv'
  BY <1>7 DEF Subscribe, New, Now, connVars, tdVars
<1>8. ASSUME NEW r \in Regs, Unsubscribe(r) PROVE EntryInv'
  BY <1>8 DEF Unsubscribe, Now, connVars, tdVars
<1>9. ASSUME NEW r \in Regs, OnRequest(r) PROVE EntryInv'
  BY <1>9 DEF OnRequest, New, Now, connVars, tdVars
<1>10. ASSUME NEW r \in Regs, OffRequest(r) PROVE EntryInv'
  BY <1>10 DEF OffRequest, Now, connVars, tdVars
<1>11. ASSUME NEW r \in Regs, RegisterService(r) PROVE EntryInv'
  BY <1>11 DEF RegisterService, New, Now, connVars, tdVars
<1>12. ASSUME NEW r \in Regs, IsolatedHandler(r) PROVE EntryInv'
  BY <1>12 DEF IsolatedHandler, New, Now, Kid, connVars, tdVars
<1>13. ASSUME NEW r \in Regs, IsolatedChannel(r) PROVE EntryInv'
  BY <1>13 DEF IsolatedChannel, New, Now, Kid, connVars, tdVars
<1>14. ASSUME NEW r \in Regs, IsolatedProxy(r) PROVE EntryInv'
  BY <1>14 DEF IsolatedProxy, New, Now, Kid, connVars, tdVars
<1>15. ASSUME NEW r \in Regs, ServiceProxy(r) PROVE EntryInv'
  BY <1>15 DEF ServiceProxy, New, Now, Kid, connVars, tdVars
<1>16. ASSUME NEW r \in Regs, IsolatedService(r) PROVE EntryInv'
  BY <1>16 DEF IsolatedService, New, Now, Kid, connVars, tdVars
<1>17. ASSUME NEW r \in Regs, CloseIsolated(r) PROVE EntryInv'
  BY <1>17 DEF CloseIsolated, Now, connVars, tdVars
<1>18. ASSUME NEW r \in Regs, CloseChannel(r) PROVE EntryInv'
  BY <1>18 DEF CloseChannel, Now, connVars, tdVars
<1>19. ASSUME NEW r \in Regs, StopService(r) PROVE EntryInv'
  BY <1>19 DEF StopService, Stopped, connVars, tdVars
<1>20. ASSUME NEW r \in Regs, ServiceStop(r) PROVE EntryInv'
  BY <1>20 DEF ServiceStop, Now, connVars, tdVars
<1>21. CASE StopAll
  BY <1>21 DEF StopAll, Stopped, connVars, tdVars
<1>22. ASSUME NEW kind \in {"disconnect", "suspend"}, TeardownStart(kind) PROVE EntryInv'
  BY <1>22 DEF TeardownStart, regVars
<1>23. CASE TeardownUnsubscribe
  BY <1>23 DEF TeardownUnsubscribe, Forget, connVars
<1>24. CASE TeardownKids
  BY <1>24 DEF TeardownKids, connVars
<1>25. CASE TeardownClose
  BY <1>25 DEF TeardownClose
<1>26. CASE TeardownEnd
  BY <1>26 DEF TeardownEnd, regVars
<1>27. CASE UNCHANGED vars
  BY <1>27 DEF vars, connVars, optVars, regVars, kidVars, tdVars
<1> HIDE DEF TypeOK, PhaseInv, EntryInv
<1>28. QED
  BY <1>1, <1>2, <1>3, <1>4, <1>5, <1>6, <1>7, <1>8, <1>9, <1>10, <1>11, <1>12, <1>13, <1>14,
     <1>15, <1>16, <1>17, <1>18, <1>19, <1>20, <1>21, <1>22, <1>23, <1>24, <1>25, <1>26, <1>27 DEF Next

(* Only the restore loop subscribes again, and only what is in its snapshot. *)
LEMMA GoneStep ==
    ASSUME TypeOK, PhaseInv, EntryInv, StaysGone, [Next]_vars
    PROVE  StaysGone'
<1> USE LifecycleAssumption DEF TypeOK, PhaseInv, EntryInv, StaysGone
<1>1. CASE Connect \/ DialFails \/ DialDone \/ RestoreFails \/ Reconfigure \/
     (\E kind \in {"disconnect", "suspend"} : TeardownStart(kind)) \/ TeardownEnd
  BY <1>1 DEF Connect, DialFails, DialDone, RestoreFails, Reconfigure, TeardownStart,
     TeardownEnd, regVars
<1>2. CASE \E r \in Regs : ProxyCall(r)
  BY <1>2 DEF ProxyCall, regVars
<1>3. CASE TransportLost
  BY <1>3 DEF TransportLost, Forget
<1>4. ASSUME NEW r \in Regs, RestoreOne(r) PROVE StaysGone'
  BY <1>4 DEF RestoreOne
<1>5. ASSUME NEW r \in Regs, Subscribe(r) PROVE StaysGone'
  BY <1>5 DEF Subscribe, New, Now
<1>6. ASSUME NEW r \in Regs, Unsubscribe(r) PROVE StaysGone'
  BY <1>6 DEF Unsubscribe, Now
<1>7. ASSUME NEW r \in Regs, OnRequest(r) PROVE StaysGone'
  BY <1>7 DEF OnRequest, New, Now
<1>8. ASSUME NEW r \in Regs, OffRequest(r) PROVE StaysGone'
  BY <1>8 DEF OffRequest, Now
<1>9. ASSUME NEW r \in Regs, RegisterService(r) PROVE StaysGone'
  BY <1>9 DEF RegisterService, New, Now
<1>10. ASSUME NEW r \in Regs, IsolatedHandler(r) PROVE StaysGone'
  BY <1>10 DEF IsolatedHandler, New, Now, Kid
<1>11. ASSUME NEW r \in Regs, IsolatedChannel(r) PROVE StaysGone'
  BY <1>11 DEF IsolatedChannel, New, Now, Kid
<1>12. ASSUME NEW r \in Regs, IsolatedProxy(r) PROVE StaysGone'
  BY <1>12 DEF IsolatedProxy, New, Now, Kid
<1>13. ASSUME NEW r \in Regs, ServiceProxy(r) PROVE StaysGone'
  BY <1>13 DEF ServiceProxy, New, Now, Kid
<1>14. ASSUME NEW r \in Regs, IsolatedService(r) PROVE StaysGone'
  BY <1>14 DEF IsolatedService, New, Now, Kid
<1>15. ASSUME NEW r \in Regs, CloseIsolated(r) PROVE StaysGone'
  BY <1>15 DEF CloseIsolated, Now
<1>16. ASSUME NEW r \in Regs, CloseChannel(r) PROVE StaysGone'
  BY <1>16 DEF CloseChannel, Now
<1>17. ASSUME NEW r \in Regs, StopService(r) PROVE StaysGone'
  BY <1>17 DEF StopService, Stopped
<1>18. ASSUME NEW r \in Regs, ServiceStop(r) PROVE StaysGone'
  BY <1>18 DEF ServiceStop, Now
<1>19. CASE StopAll
  BY <1>19 DEF StopAll, Stopped
<1>20. CASE TeardownUnsubscribe
  BY <1>20 DEF TeardownUnsubscribe, Forget
<1>21. CASE TeardownKids
  BY <1>21 DEF TeardownKids
<1>22. CASE TeardownClose
  BY <1>22 DEF TeardownClose
<1>23. CASE UNCHANGED vars
  BY <1>23 DEF vars, connVars, optVars, regVars, kidVars, tdVars
<1> HIDE DEF TypeOK, PhaseInv, EntryInv, StaysGone
<1>24. QED
  BY <1>1, <1>2, <1>3, <1>4, <1>5, <1>6, <1>7, <1>8, <1>9, <1>10, <1>11, <1>12, <1>13, <1>14,
     <1>15, <1>16, <1>17, <1>18, <1>19, <1>20, <1>21, <1>22, <1>23 DEF Next

(* Every way down takes the subscriptions of the connection with it. *)
LEMMA SilentStep ==
    ASSUME ~Overlap, TypeOK, PhaseInv, SilentInv, [Next]_vars
    PROVE  SilentInv'
<1> USE LifecycleAssumption DEF TypeOK, PhaseInv, SilentInv
<1>1. CASE Connect \/ DialFails \/ RestoreFails \/ Reconfigure \/
     (\E kind \in {"disconnect", "suspend"} : TeardownStart(kind))
  BY <1>1 DEF Connect, DialFails, RestoreFails, Reconfigure, TeardownStart, regVars, connVars
<1>2. CASE \E r \in Regs : IsolatedProxy(r) \/ ProxyCall(r) \/ ServiceProxy(r)
  BY <1>2 DEF IsolatedProxy, ProxyCall, ServiceProxy, connVars, regVars
<1>3. CASE DialDone
  BY <1>3 DEF DialDone
<1>4. CASE TransportLost
  BY <1>4 DEF TransportLost, Forget
<1>5. ASSUME NEW r \in Regs, RestoreOne(r) PROVE SilentInv'
  BY <1>5 DEF RestoreOne
<1>6. ASSUME NEW r \in Regs, Subscribe(r) PROVE SilentInv'
  BY <1>6 DEF Subscribe, New, Now, connVars
<1>7. ASSUME NEW r \in Regs, Unsubscribe(r) PROVE SilentInv'
  BY <1>7 DEF Unsubscribe, Now, connVars
<1>8. ASSUME NEW r \in Regs, OnRequest(r) PROVE SilentInv'
  BY <1>8 DEF OnRequest, New, Now, connVars
<1>9. ASSUME NEW r \in Regs, OffRequest(r) PROVE SilentInv'
  BY <1>9 DEF OffRequest, Now, connVars
<1>10. ASSUME NEW r \in Regs, RegisterService(r) PROVE SilentInv'
  BY <1>10 DEF RegisterService, New, Now, connVars
<1>11. ASSUME NEW r \in Regs, IsolatedHandler(r) PROVE SilentInv'
  BY <1>11 DEF IsolatedHandler, New, Now, Kid, connVars
<1>12. ASSUME NEW r \in Regs, IsolatedChannel(r) PROVE SilentInv'
  BY <1>12 DEF IsolatedChannel, New, Now, Kid, connVars
<1>13. ASSUME NEW r \in Regs, IsolatedService(r) PROVE SilentInv'
  BY <1>13 DEF IsolatedService, New, Now, Kid, connVars
<1>14. ASSUME NEW r \in Regs, CloseIsolated(r) PROVE SilentInv'
  BY <1>14 DEF CloseIsolated, Now, connVars
<1>15. ASSUME NEW r \in Regs, CloseChannel(r) PROVE SilentInv'
  BY <1>15 DEF CloseChannel, Now, connVars
<1>16. ASSUME NEW r \in Regs, StopService(r) PROVE SilentInv'
  BY <1>16 DEF StopService, Stopped, connVars
<1>17. ASSUME NEW r \in Regs, ServiceStop(r) PROVE SilentInv'
  BY <1>17 DEF ServiceStop, Now, connVars
<1>18. CASE StopAll
  BY <1>18 DEF StopAll, Stopped, connVars
<1>19. CASE TeardownUnsubscribe
  BY <1>19 DEF TeardownUnsubscribe, Forget, connVars
<1>20. CASE TeardownKids
  BY <1>20 DEF TeardownKids, connVars
<1>21. CASE TeardownClose
  BY <1>21 DEF TeardownClose
<1>22. CASE TeardownEnd
  BY <1>22 DEF TeardownEnd, regVars
<1>23. CASE UNCHANGED vars
  BY <1>23 DEF vars, connVars, optVars, regVars, kidVars, tdVars
<1> HIDE DEF TypeOK, PhaseInv, SilentInv
<1>24. QED
  BY <1>1, <1>2, <1>3, <1>4, <1>5, <1>6, <1>7, <1>8, <1>9, <1>10, <1>11, <1>12, <1>13, <1>14,
     <1>15, <1>16, <1>17, <1>18, <1>19, <1>20, <1>21, <1>22, <1>23 DEF Next

(* RPCService forgets its services only when a connect() finds none running. *)
LEMMA ServicesStep ==
    ASSUME TypeOK, PhaseInv, SilentInv, ServicesKnown, [Next]_vars
    PROVE  ServicesKnown'
<1> USE LifecycleAssumption DEF TypeOK, PhaseInv, SilentInv, ServicesKnown
<1>1. CASE Connect \/ DialFails \/ RestoreFails \/ Reconfigure \/
     (\E kind \in {"disconnect", "suspend"} : TeardownStart(kind)) \/ TeardownEnd
  BY <1>1 DEF Connect, DialFails, RestoreFails, Reconfigure, TeardownStart, TeardownEnd, regVars
<1>2. CASE \E r \in Regs : IsolatedProxy(r) \/ ProxyCall(r) \/ ServiceProxy(r)
  BY <1>2 DEF IsolatedProxy, ProxyCall, ServiceProxy, regVars
<1>3. CASE DialDone
  BY <1>3 DEF DialDone
<1>4. CASE TransportLost
  BY <1>4 DEF TransportLost, Forget
<1>5. ASSUME NEW r \in Regs, RestoreOne(r) PROVE ServicesKnown'
  BY <1>5 DEF RestoreOne
<1>6. ASSUME NEW r \in Regs, Subscribe(r) PROVE ServicesKnown'
  BY <1>6 DEF Subscribe, New, Now
<1>7. ASSUME NEW r \in Regs, Unsubscribe(r) PROVE ServicesKnown'
  BY <1>7 DEF Unsubscribe, Now
<1>8. ASSUME NEW r \in Regs, OnRequest(r) PROVE ServicesKnown'
  BY <1>8 DEF OnRequest, New, Now
<1>9. ASSUME NEW r \in Regs, OffRequest(r) PROVE ServicesKnown'
  BY <1>9 DEF OffRequest, Now
<1>10. ASSUME NEW r \in Regs, RegisterService(r) PROVE ServicesKnown'
  BY <1>10 DEF RegisterService, New, Now
<1>11. ASSUME NEW r \in Regs, IsolatedHandler(r) PROVE ServicesKnown'
  BY <1>11 DEF IsolatedHandler, New, Now, Kid
<1>12. ASSUME NEW r \in Regs, IsolatedChannel(r) PROVE ServicesKnown'
  BY <1>12 DEF IsolatedChannel, New, Now, Kid
<1>13. ASSUME NEW r \in Regs, IsolatedService(r) PROVE ServicesKnown'
  BY <1>13 DEF IsolatedService, New, Now, Kid
<1>14. ASSUME NEW r \in Regs, CloseIsolated(r) PROVE ServicesKnown'
  BY <1>14 DEF CloseIsolated, Now
<1>15. ASSUME NEW r \in Regs, CloseChannel(r) PROVE ServicesKnown'
  BY <1>15 DEF CloseChannel, Now
<1>16. ASSUME NEW r \in Regs, StopService(r) PROVE ServicesKnown'
  BY <1>16 DEF StopService, Stopped
<1>17. ASSUME NEW r \in Regs, ServiceStop(r) PROVE ServicesKnown'
  BY <1>17 DEF ServiceStop, Now
<1>18. CASE StopAll
  BY <1>18 DEF StopAll, Stopped
<1>19. CASE TeardownUnsubscribe
  BY <1>19 DEF TeardownUnsubscribe, Forget
<1>20. CASE TeardownKids
  BY <1>20 DEF TeardownKids
<1>21. CASE TeardownClose
  BY <1>21 DEF TeardownClose
<1>22. CASE UNCHANGED vars
  BY <1>22 DEF vars, connVars, optVars, regVars, kidVars, tdVars
<1> HIDE DEF TypeOK, PhaseInv, SilentInv, ServicesKnown
<1>23. QED
  BY <1>1, <1>2, <1>3, <1>4, <1>5, <1>6, <1>7, <1>8, <1>9, <1>10, <1>11, <1>12, <1>13, <1>14,
     <1>15, <1>16, <1>17, <1>18, <1>19, <1>20, <1>21, <1>22 DEF Next

(* The list of isolated clients is complete while a teardown works through it. *)
LEMMA KidStep ==
    ASSUME ~Overlap, TypeOK, PhaseInv, KidInv, [Next]_vars
    PROVE  KidInv'
<1> USE LifecycleAssumption DEF TypeOK, PhaseInv, KidInv
<1>1. CASE Connect \/ DialFails \/ DialDone \/ RestoreFails \/ TransportLost \/ Reconfigure
  BY <1>1 DEF Connect, DialFails, DialDone, RestoreFails, TransportLost, Reconfigure, kidVars,
     tdVars
<1>2. CASE \E r \in Regs : RestoreOne(r) \/ Subscribe(r) \/ Unsubscribe(r) \/ OnRequest(r) \/
        OffRequest(r) \/ RegisterService(r) \/ CloseChannel(r) \/ ServiceStop(r)
  BY <1>2 DEF RestoreOne, Subscribe, Unsubscribe, OnRequest, OffRequest, RegisterService,
     CloseChannel, ServiceStop, kidVars, tdVars
<1>3. ASSUME NEW r \in Regs, IsolatedHandler(r) PROVE KidInv'
  BY <1>3 DEF IsolatedHandler, New, Now, Kid, tdVars
<1>4. ASSUME NEW r \in Regs, IsolatedChannel(r) PROVE KidInv'
  BY <1>4 DEF IsolatedChannel, New, Now, Kid, tdVars
<1>5. ASSUME NEW r \in Regs, IsolatedProxy(r) PROVE KidInv'
  BY <1>5 DEF IsolatedProxy, New, Now, Kid, tdVars
<1>6. ASSUME NEW r \in Regs, ProxyCall(r) PROVE KidInv'
  BY <1>6 DEF ProxyCall, tdVars
<1>7. ASSUME NEW r \in Regs, ServiceProxy(r) PROVE KidInv'
  BY <1>7 DEF ServiceProxy, New, Now, Kid, tdVars
<1>8. ASSUME NEW r \in Regs, IsolatedService(r) PROVE KidInv'
  BY <1>8 DEF IsolatedService, New, Now, Kid, tdVars
<1>9. ASSUME NEW r \in Regs, CloseIsolated(r) PROVE KidInv'
  BY <1>9 DEF CloseIsolated, Now, tdVars
<1>10. ASSUME NEW r \in Regs, StopService(r) PROVE KidInv'
  BY <1>10 DEF StopService, Stopped, tdVars
<1>11. CASE StopAll
  BY <1>11 DEF StopAll, Stopped, tdVars
<1>12. ASSUME NEW kind \in {"disconnect", "suspend"}, TeardownStart(kind) PROVE KidInv'
  BY <1>12 DEF TeardownStart, kidVars
<1>13. CASE TeardownUnsubscribe
  BY <1>13 DEF TeardownUnsubscribe, Forget, kidVars
<1>14. CASE TeardownKids
  BY <1>14 DEF TeardownKids
<1>15. CASE TeardownClose
  BY <1>15 DEF TeardownClose, kidVars
<1>16. CASE TeardownEnd
  BY <1>16 DEF TeardownEnd, kidVars
<1>17. CASE UNCHANGED vars
  BY <1>17 DEF vars, connVars, optVars, regVars, kidVars, tdVars
<1> HIDE DEF TypeOK, PhaseInv, KidInv
<1>18. QED
  BY <1>1, <1>2, <1>3, <1>4, <1>5, <1>6, <1>7, <1>8, <1>9, <1>10, <1>11, <1>12, <1>13, <1>14,
     <1>15, <1>16, <1>17 DEF Next

(* reconfigure() is refused while the transport is up and not called while it
   is dialled. *)
LEMMA DialStep ==
    ASSUME ~Overlap, TypeOK, PhaseInv, DialInv, [Next]_vars
    PROVE  DialInv'
<1> USE DEF TypeOK, PhaseInv, DialInv
<1>1. CASE StopAll \/ (\E kind \in {"disconnect", "suspend"} : TeardownStart(kind)) \/
     TeardownUnsubscribe \/ TeardownKids
  BY <1>1 DEF StopAll, TeardownStart, TeardownUnsubscribe, TeardownKids, connVars, optVars
<1>2. CASE \E r \in Regs : Subscribe(r) \/ Unsubscribe(r) \/ OnRequest(r) \/ OffRequest(r) \/
        RegisterService(r) \/ IsolatedHandler(r) \/ IsolatedChannel(r) \/ IsolatedProxy(r) \/
        ProxyCall(r) \/ ServiceProxy(r) \/ IsolatedService(r) \/ CloseIsolated(r) \/
        CloseChannel(r) \/ StopService(r) \/ ServiceStop(r)
  BY <1>2 DEF Subscribe, Unsubscribe, OnRequest, OffRequest, RegisterService, IsolatedHandler,
     IsolatedChannel, IsolatedProxy, ProxyCall, ServiceProxy, IsolatedService, CloseIsolated,
     CloseChannel, StopService, ServiceStop, connVars, optVars
<1>3. CASE Connect
  BY <1>3 DEF Connect, optVars
<1>4. CASE DialFails
  BY <1>4 DEF DialFails, optVars
<1>5. CASE DialDone
  BY <1>5 DEF DialDone, optVars
<1>6. CASE RestoreFails
  BY <1>6 DEF RestoreFails, optVars
<1>7. CASE TransportLost
  BY <1>7 DEF TransportLost, Forget, optVars
<1>8. CASE Reconfigure
  BY <1>8 DEF Reconfigure, connVars
<1>9. ASSUME NEW r \in Regs, RestoreOne(r) PROVE DialInv'
  BY <1>9 DEF RestoreOne, optVars
<1>10. CASE TeardownClose
  BY <1>10 DEF TeardownClose, optVars
<1>11. CASE TeardownEnd
  BY <1>11 DEF TeardownEnd, optVars
<1>12. CASE UNCHANGED vars
  BY <1>12 DEF vars, connVars, optVars, regVars, kidVars, tdVars
<1> HIDE DEF TypeOK, PhaseInv, DialInv
<1>13. QED
  BY <1>1, <1>2, <1>3, <1>4, <1>5, <1>6, <1>7, <1>8, <1>9, <1>10, <1>11, <1>12 DEF Next

(* A reconfigure() that does not raise reaches every tracked client. *)
LEMMA TrackedStep ==
    ASSUME TypeOK, TrackedInv, [Next]_vars
    PROVE  TrackedInv'
<1> USE LifecycleAssumption DEF TypeOK, TrackedInv
<1>1. CASE Connect \/ DialFails \/ DialDone \/ RestoreFails \/ TransportLost \/ StopAll \/
     (\E kind \in {"disconnect", "suspend"} : TeardownStart(kind)) \/ TeardownUnsubscribe \/
     TeardownClose \/ TeardownEnd
  BY <1>1 DEF Connect, DialFails, DialDone, RestoreFails, TransportLost, StopAll,
     TeardownStart, TeardownUnsubscribe, TeardownClose, TeardownEnd, optVars, kidVars
<1>2. CASE \E r \in Regs : RestoreOne(r) \/ Subscribe(r) \/ Unsubscribe(r) \/ OnRequest(r) \/
        OffRequest(r) \/ RegisterService(r) \/ ProxyCall(r) \/ CloseChannel(r) \/
        StopService(r) \/ ServiceStop(r)
  BY <1>2 DEF RestoreOne, Subscribe, Unsubscribe, OnRequest, OffRequest, RegisterService,
     ProxyCall, CloseChannel, StopService, ServiceStop, optVars, kidVars
<1>3. CASE Reconfigure
  BY <1>3 DEF Reconfigure
<1>4. ASSUME NEW r \in Regs, IsolatedHandler(r) PROVE TrackedInv'
  BY <1>4 DEF IsolatedHandler, New, Now, Kid, optVars
<1>5. ASSUME NEW r \in Regs, IsolatedChannel(r) PROVE TrackedInv'
  BY <1>5 DEF IsolatedChannel, New, Now, Kid, optVars
<1>6. ASSUME NEW r \in Regs, IsolatedProxy(r) PROVE TrackedInv'
  BY <1>6 DEF IsolatedProxy, New, Now, Kid, optVars
<1>7. ASSUME NEW r \in Regs, ServiceProxy(r) PROVE TrackedInv'
  BY <1>7 DEF ServiceProxy, New, Now, Kid, optVars
<1>8. ASSUME NEW r \in Regs, IsolatedService(r) PROVE TrackedInv'
  BY <1>8 DEF IsolatedService, New, Now, Kid, optVars
<1>9. ASSUME NEW r \in Regs, CloseIsolated(r) PROVE TrackedInv'
  BY <1>9 DEF CloseIsolated, Now, optVars
<1>10. CASE TeardownKids
  BY <1>10 DEF TeardownKids, optVars
<1>11. CASE UNCHANGED vars
  BY <1>11 DEF vars, connVars, optVars, regVars, kidVars, tdVars
<1> HIDE DEF TypeOK, TrackedInv
<1>12. QED
  BY <1>1, <1>2, <1>3, <1>4, <1>5, <1>6, <1>7, <1>8, <1>9, <1>10, <1>11 DEF Next

(* Nothing revives the client of a service proxy that was never made. *)
LEMMA ProxyStep ==
    ASSUME TypeOK, ProxyInv, [Next]_vars
    PROVE  ProxyInv'
<1> USE LifecycleAssumption DEF TypeOK, ProxyInv
<1>1. CASE Connect \/ DialFails \/ DialDone \/ RestoreFails \/ Reconfigure \/
     (\E kind \in {"disconnect", "suspend"} : TeardownStart(kind)) \/ TeardownClose \/
     TeardownEnd
  BY <1>1 DEF Connect, DialFails, DialDone, RestoreFails, Reconfigure, TeardownStart,
     TeardownClose, TeardownEnd, regVars, kidVars
<1>2. CASE \E r \in Regs : RestoreOne(r)
  BY <1>2 DEF RestoreOne, kidVars
<1>3. CASE TransportLost
  BY <1>3 DEF TransportLost, Forget, kidVars
<1>4. ASSUME NEW r \in Regs, Subscribe(r) PROVE ProxyInv'
  BY <1>4 DEF Subscribe, New, Now, kidVars
<1>5. ASSUME NEW r \in Regs, Unsubscribe(r) PROVE ProxyInv'
  BY <1>5 DEF Unsubscribe, Now, kidVars
<1>6. ASSUME NEW r \in Regs, OnRequest(r) PROVE ProxyInv'
  BY <1>6 DEF OnRequest, New, Now, kidVars
<1>7. ASSUME NEW r \in Regs, OffRequest(r) PROVE ProxyInv'
  BY <1>7 DEF OffRequest, Now, kidVars
<1>8. ASSUME NEW r \in Regs, RegisterService(r) PROVE ProxyInv'
  BY <1>8 DEF RegisterService, New, Now, kidVars
<1>9. ASSUME NEW r \in Regs, IsolatedHandler(r) PROVE ProxyInv'
  BY <1>9 DEF IsolatedHandler, New, Now, Kid
<1>10. ASSUME NEW r \in Regs, IsolatedChannel(r) PROVE ProxyInv'
  BY <1>10 DEF IsolatedChannel, New, Now, Kid
<1>11. ASSUME NEW r \in Regs, IsolatedProxy(r) PROVE ProxyInv'
  BY <1>11 DEF IsolatedProxy, New, Now, Kid
<1>12. ASSUME NEW r \in Regs, ProxyCall(r) PROVE ProxyInv'
  BY <1>12 DEF ProxyCall, regVars
<1>13. ASSUME NEW r \in Regs, ServiceProxy(r) PROVE ProxyInv'
  BY <1>13 DEF ServiceProxy, New, Now, Kid
<1>14. ASSUME NEW r \in Regs, IsolatedService(r) PROVE ProxyInv'
  BY <1>14 DEF IsolatedService, New, Now, Kid
<1>15. ASSUME NEW r \in Regs, CloseIsolated(r) PROVE ProxyInv'
  BY <1>15 DEF CloseIsolated, Now
<1>16. ASSUME NEW r \in Regs, CloseChannel(r) PROVE ProxyInv'
  BY <1>16 DEF CloseChannel, Now, kidVars
<1>17. ASSUME NEW r \in Regs, StopService(r) PROVE ProxyInv'
  BY <1>17 DEF StopService, Stopped
<1>18. ASSUME NEW r \in Regs, ServiceStop(r) PROVE ProxyInv'
  BY <1>18 DEF ServiceStop, Now, kidVars
<1>19. CASE StopAll
  BY <1>19 DEF StopAll, Stopped
<1>20. CASE TeardownUnsubscribe
  BY <1>20 DEF TeardownUnsubscribe, Forget, kidVars
<1>21. CASE TeardownKids
  BY <1>21 DEF TeardownKids
<1>22. CASE UNCHANGED vars
  BY <1>22 DEF vars, connVars, optVars, regVars, kidVars, tdVars
<1> HIDE DEF TypeOK, ProxyInv
<1>23. QED
  BY <1>1, <1>2, <1>3, <1>4, <1>5, <1>6, <1>7, <1>8, <1>9, <1>10, <1>11, <1>12, <1>13, <1>14,
     <1>15, <1>16, <1>17, <1>18, <1>19, <1>20, <1>21, <1>22 DEF Next

-----------------------------------------------------------------------------
(* A client starts unconnected, with nothing registered. *)
LEMMA InitLife == Init => LifeInv
BY LifecycleAssumption
   DEF Init, LifeInv, TypeOK, PhaseInv, EntryInv, StaysGone, SilentInv, ServicesKnown, KidInv,
       DialInv, TrackedInv, ProxyInv

(* A step of an application that does not overlap its calls. *)
LEMMA LifeStep ==
    ASSUME ~Overlap, LifeInv, [Next]_vars
    PROVE  LifeInv'
BY TypeStep, PhaseStep, EntryStep, GoneStep, SilentStep, ServicesStep, KidStep, DialStep,
   TrackedStep, ProxyStep DEF LifeInv

(* The inductive invariant holds throughout. *)
LEMMA LifeInvariant ==
    ASSUME ~Overlap
    PROVE  Spec => []LifeInv
<1>1. LifeInv /\ [Next]_vars => LifeInv'
  BY LifeStep
<1>2. QED
  BY InitLife, <1>1, PTL DEF Spec

(* The variables have their types in every reachable state, whatever calls the
   application overlaps with connect() and disconnect(). *)
THEOREM LifecycleTypes == Spec => []TypeOK
<1>1. Init => TypeOK
  BY InitLife DEF LifeInv
<1>2. TypeOK /\ [Next]_vars => TypeOK'
  BY TypeStep
<1>3. QED
  BY <1>1, <1>2, PTL DEF Spec

(* Registrations outlive transports as long as the application holds them, and
   no longer: _connect() restores every held subscription and none that was
   unsubscribed, and no service runs that stop_all() would miss. *)
THEOREM RegistrationsHoldAlways ==
    ASSUME ~Overlap
    PROVE  Spec => []RegistrationsHold
<1>1. LifeInv => Restored
  <2> SUFFICES ASSUME LifeInv, Settled, NEW r \in Subs, reg[r] = "held"
               PROVE  r \in live
    BY DEF Restored
  <2>1. r \in live \cup todo
    BY DEF LifeInv, EntryInv, Settled
  <2>2. todo = {}
    BY DEF LifeInv, PhaseInv, Settled
  <2>3. QED  BY <2>1, <2>2
<1>2. LifeInv => RegistrationsHold
  BY <1>1 DEF LifeInv, RegistrationsHold
<1>3. QED
  BY LifeInvariant, <1>2, PTL

(* After disconnect() or suspend() the client receives nothing on its own
   connection, and create_service_proxy() that raises leaves no isolated
   client connected or tracked. *)
THEOREM NothingLeftAlways ==
    ASSUME ~Overlap
    PROVE  Spec => []NothingLeft
<1>1. LifeInv => NothingLeft
  BY DEF LifeInv, SilentInv, ProxyInv, NothingLeft, DisconnectedIsSilent, FailedProxyIsGone
<1>2. QED
  BY LifeInvariant, <1>1, PTL

(* A connection that is up was dialled with the options of the last
   reconfigure(), and so was that of every tracked isolated client unless the
   reconfigure() raised. *)
THEOREM OptionsCurrentAlways ==
    ASSUME ~Overlap
    PROVE  Spec => []OptionsCurrent
<1>1. LifeInv => OptionsCurrent
  BY DEF LifeInv, DialInv, TrackedInv, OptionsCurrent
<1>2. QED
  BY LifeInvariant, <1>1, PTL

(* When disconnect() is over, every isolated client of a handler, a channel or a
   proxy is disconnected, those of closed channels and earlier suspends
   included. *)
THEOREM DisconnectTakesKidsAlways ==
    ASSUME ~Overlap
    PROVE  Spec => DisconnectTakesKids
<1>1. ASSUME LifeInv, [Next]_vars, td # "idle", td' = "idle", NEW r \in Iso \ IsoServices
      PROVE  kids[r] # "up"
  <2>1. TeardownClose \/ TeardownEnd
    BY <1>1 DEF Next, vars, tdVars, Connect, DialFails, DialDone, RestoreFails, TransportLost,
       Reconfigure, RestoreOne, Subscribe, Unsubscribe, OnRequest, OffRequest, RegisterService,
       IsolatedHandler, IsolatedChannel, IsolatedProxy, ProxyCall, ServiceProxy, IsolatedService,
       CloseIsolated, CloseChannel, StopService, ServiceStop, StopAll, TeardownStart,
       TeardownUnsubscribe, TeardownKids
  <2>2. td \in {"close", "closing"}
    BY <1>1, <2>1 DEF TeardownClose, TeardownEnd
  <2>3. QED
    BY <1>1, <2>2 DEF LifeInv, KidInv
<1>2. LifeInv /\ [Next]_vars => [tdKind = "disconnect" /\ td # "idle" /\ td' = "idle" =>
          \A r \in Iso \ IsoServices : kids[r] # "up"]_vars
  BY <1>1
<1>3. QED
  BY LifeInvariant, <1>2, PTL DEF Spec, DisconnectTakesKids
=============================================================================
