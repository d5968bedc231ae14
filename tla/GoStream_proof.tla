--------------------------- MODULE GoStream_proof ---------------------------
(***************************************************************************)
(* Proofs about GoStream for every capacity of the channel, every number   *)
(* of values and every set of faults.                                      *)
(***************************************************************************)
EXTENDS GoStream, TLAPS

(* pc is a function on the goroutines; its values do not matter here. *)
PcType == pc = [g \in Goroutines |-> pc[g]]

LEMMA GotoFacts ==
  ASSUME PcType, NEW g \in Goroutines, NEW l, Goto(g, l)
  PROVE  /\ PcType'
         /\ pc'[g] = l
         /\ \A h \in Goroutines : h # g => pc'[h] = pc[h]
  BY DEF PcType, Goto

-----------------------------------------------------------------------------
(* At most one close. *)

Undoing == pc["call"] \in {"undo", "close", "failed"}

(* The inductive invariant: until an error return, ch is closed only after
   the flag was won, and its one winner is the one that may close it. *)
CloseInv ==
    /\ PcType
    /\ Undoing \/ /\ closed => ended
                  /\ \A g \in Goroutines : Closing(g) => ended /\ ~closed
                  /\ \A g, h \in Goroutines : Closing(g) /\ Closing(h) => g = h
                  /\ panic # "close"

LEMMA CloseInit == Init => CloseInv
  <1> SUFFICES ASSUME Init PROVE CloseInv
    OBVIOUS
  <1>2. \A g \in Goroutines : pc[g] \in {"store", "idle", "none"}
    BY DEF Init
  <1>1. PcType
    BY DEF Init, PcType
  <1>3. \A g \in Goroutines : ~Closing(g)
    BY <1>2 DEF Closing
  <1> QED BY <1>1, <1>3 DEF Init, CloseInv

(* A step that leaves the flag and the channel alone and lets nobody begin to
   close, unless callStreamOnce takes an error return. *)
LEMMA QuietStep ==
  ASSUME CloseInv, PcType', UNCHANGED <<ended, closed>>, panic' # "close" \/ panic' = panic,
         Undoing => Undoing',
         \A g \in Goroutines : Closing(g)' => Closing(g) \/ Undoing'
  PROVE  CloseInv'
  BY DEF CloseInv

(* A goroutine other than callStreamOnce wins the flag or finds it set. *)
LEMMA SettleStep ==
  ASSUME CloseInv, UNCHANGED <<closed, panic>>,
         NEW g \in Goroutines \ {"call"}, ~Closing(g),
         NEW won, NEW lost, lost \notin {"err", "close"}, Settle(g, won, lost)
  PROVE  CloseInv'
  <1>1. CASE ended
    <2>1. Goto(g, lost) /\ ended'
      BY <1>1 DEF Settle
    <2>2. PcType' /\ \A h \in Goroutines : Closing(h)' => Closing(h)
      BY <2>1, GotoFacts DEF CloseInv, Closing
    <2>3. Undoing' <=> Undoing
      BY <2>1, GotoFacts DEF CloseInv, Undoing, Goroutines
    <2> QED BY <2>1, <2>2, <2>3 DEF CloseInv
  <1>2. CASE ~ended
    <2>1. Goto(g, won) /\ ended'
      BY <1>2 DEF Settle
    <2>2. PcType' /\ \A h \in Goroutines : Closing(h)' => Closing(h) \/ h = g
      BY <2>1, GotoFacts DEF CloseInv, Closing
    <2>3. Undoing' <=> Undoing
      BY <2>1, GotoFacts DEF CloseInv, Undoing, Goroutines
    <2>4. Undoing \/ (~closed /\ \A h \in Goroutines : ~Closing(h))
      BY <1>2 DEF CloseInv
    <2> QED BY <2>1, <2>2, <2>3, <2>4 DEF CloseInv
  <1> QED BY <1>1, <1>2

(* The winner closes ch. *)
LEMMA CloseStep ==
  ASSUME CloseInv, NEW g \in Goroutines, NEW next \in {"drop", "done", "failed"},
         g = "call" => next = "failed", CloseBy(g, next)
  PROVE  CloseInv'
  <1>1. pc[g] = "close" /\ Close /\ Goto(g, next) /\ UNCHANGED ended
    BY DEF CloseBy, At
  <1>2. PcType' /\ pc'[g] = next /\ \A h \in Goroutines : h # g => pc'[h] = pc[h]
    BY <1>1, GotoFacts DEF CloseInv
  <1>3. CASE Undoing
    <2>1. "call" \in Goroutines
      BY DEF Goroutines
    <2>2. CASE g = "call"
      BY <1>2, <2>2 DEF CloseInv, Undoing
    <2>3. CASE g # "call"
      BY <1>2, <1>3, <2>1, <2>3 DEF CloseInv, Undoing
    <2> QED BY <2>2, <2>3
  <1>4. CASE ~Undoing
    <2>1. Closing(g) /\ ended /\ ~closed /\ panic # "close"
      BY <1>1, <1>4 DEF CloseInv, Closing
    <2>2. \A h \in Goroutines : ~Closing(h)'
      BY <1>2, <1>4, <2>1 DEF CloseInv, Closing
    <2>3. closed' = TRUE /\ panic' = panic
      BY <1>1, <2>1 DEF Close
    <2> QED BY <1>1, <1>2, <2>1, <2>2, <2>3 DEF CloseInv
  <1> QED BY <1>3, <1>4

(* One goroutine moves, to a place that is not a close of its own. *)
LEMMA MoveStep ==
  ASSUME CloseInv, UNCHANGED <<ended, closed>>, panic' # "close" \/ panic' = panic,
         NEW g \in Goroutines, NEW l, Goto(g, l),
         g = "call" => /\ l \in {"err", "close"} => l = "close"
                       /\ Undoing => l \in {"undo", "close", "failed"},
         g # "call" => (l \in {"err", "close"} => Closing(g))
  PROVE  CloseInv'
  <1>1. PcType' /\ pc'[g] = l /\ \A h \in Goroutines : h # g => pc'[h] = pc[h]
    BY GotoFacts DEF CloseInv
  <1>2. "call" \in Goroutines
    BY DEF Goroutines
  <1>3. CASE g = "call"
    <2>1. Undoing => Undoing'
      BY <1>1, <1>3 DEF Undoing
    <2>2. \A h \in Goroutines : Closing(h)' => Closing(h) \/ Undoing'
      BY <1>1, <1>3 DEF Undoing, Closing
    <2> QED BY <1>1, <2>1, <2>2, QuietStep
  <1>4. CASE g # "call"
    <2>1. Undoing => Undoing'
      BY <1>1, <1>2, <1>4 DEF Undoing
    <2>2. \A h \in Goroutines : Closing(h)' => Closing(h) \/ Undoing'
      BY <1>1, <1>4 DEF Closing
    <2> QED BY <1>1, <2>1, <2>2, QuietStep
  <1> QED BY <1>3, <1>4

LEMMA CloseNext == CloseInv /\ [Next]_vars => CloseInv'
  <1> SUFFICES ASSUME CloseInv, [Next]_vars PROVE CloseInv'
    OBVIOUS
  <1> "call" \in Goroutines /\ "sub" \in Goroutines /\ "ctx" \in Goroutines
        /\ "watch" \in Goroutines /\ "down" \in Goroutines
    BY DEF Goroutines
  <1>1. CASE StoreHandler
    BY <1>1, MoveStep DEF StoreHandler, At, Undoing, Closing
  <1>2. CASE StoreStatus
    BY <1>2, MoveStep DEF StoreStatus, At, Undoing, Closing
  <1>3. CASE PublishRequest
    BY <1>3, MoveStep DEF PublishRequest, At, Undoing, Closing, client
  <1>4. CASE Undo
    BY <1>4, MoveStep DEF Undo, At, Undoing, Closing
  <1>5. CASE SubscribeStream
    <2>1. PcType' /\ UNCHANGED <<ended, closed, panic>>
      BY <1>5 DEF SubscribeStream, CloseInv, PcType, Goto
    <2>2. ~Undoing /\ \A g \in Goroutines : Closing(g)' => Closing(g) \/ Undoing'
      BY <1>5 DEF SubscribeStream, CloseInv, PcType, Goto, At, Undoing, Closing
    <2> QED BY <2>1, <2>2, QuietStep
  <1>6. CASE CheckNoResponder
    <2>1. PcType' /\ UNCHANGED <<ended, closed, panic>>
      BY <1>6 DEF CheckNoResponder, CloseInv, PcType, Goto
    <2>2. ~Undoing /\ \A g \in Goroutines : Closing(g)' => Closing(g)
      BY <1>6 DEF CheckNoResponder, CloseInv, PcType, Goto, At, Undoing, Closing
    <2> QED BY <2>1, <2>2, QuietStep
  <1>7. CASE SubNext
    <2>1. CASE handler
      BY <1>7, <2>1, MoveStep DEF SubNext, client
    <2>2. CASE ~handler
      BY <1>7, <2>2 DEF SubNext, client, CloseInv, PcType, Undoing, Closing
    <2> QED BY <2>1, <2>2
  <1>8. CASE SubPush
    BY <1>8, MoveStep DEF SubPush, At, Undoing, Closing, Send
  <1>9. CASE SubDrop
    BY <1>9, MoveStep DEF SubDrop, At, Undoing, Closing
  <1>10. CASE CtxTake
    BY <1>10, MoveStep DEF CtxTake, At, Undoing, Closing
  <1>11. CASE CtxCancel
    BY <1>11, MoveStep DEF CtxCancel, At, Undoing, Closing, client
  <1>12. CASE CtxDrop
    BY <1>12, MoveStep DEF CtxDrop, At, Undoing, Closing
  <1>13. CASE WatchSelect
    BY <1>13, MoveStep DEF WatchSelect, At, Undoing, Closing
  <1>14. CASE DownStart
    BY <1>14, MoveStep DEF DownStart, At, Undoing, Closing
  <1>15. CASE DownRange
    BY <1>15, MoveStep DEF DownRange, At, Undoing, Closing, client
  <1>16. CASE DownDrop
    BY <1>16, MoveStep DEF DownDrop, At, Undoing, Closing
  <1>17. CASE DownUnsub
    BY <1>17, MoveStep DEF DownUnsub, At, Undoing, Closing, client
  <1>18. CASE DownClose
    BY <1>18, MoveStep DEF DownClose, At, Undoing, Closing, client
  <1>19. CASE DownNil
    BY <1>19, MoveStep DEF DownNil, At, Undoing, Closing, client
  <1>20. CASE SendError("sub")
    BY <1>20, MoveStep DEF SendError, Send, At, Closing
  <1>21. CASE SendError("watch")
    BY <1>21, MoveStep DEF SendError, Send, At, Closing
  <1>22. CASE SubDispatch
    <2>1. CASE msg.type = "data" /\ Goto("sub", IF ended THEN "idle" ELSE "push") /\ UNCHANGED ended
      BY <1>22, <2>1, MoveStep DEF SubDispatch
    <2>2. CASE Settle("sub", "close", "drop") \/ Settle("sub", "err", "drop")
      BY <1>22, <2>2, SettleStep DEF SubDispatch, At, Closing
    <2> QED BY <1>22, <2>1, <2>2 DEF SubDispatch
  <1>23. CASE CtxSettle
    BY <1>23, SettleStep DEF CtxSettle, At, Closing
  <1>24. CASE WatchSettle
    BY <1>24, SettleStep DEF WatchSettle, At, Closing
  <1>25. CASE DownSettle
    BY <1>25, SettleStep DEF DownSettle, At, Closing
  <1>26. CASE CloseBy("call", "failed")
    BY <1>26, CloseStep
  <1>27. CASE CloseBy("sub", "drop")
    BY <1>27, CloseStep
  <1>28. CASE CloseBy("ctx", "drop")
    BY <1>28, CloseStep
  <1>29. CASE CloseBy("watch", "done")
    BY <1>29, CloseStep
  <1>30. CASE CloseBy("down", "drop")
    BY <1>30, CloseStep
  <1>31. CASE MuxStatus \/ Cancel \/ Srv \/ Consume \/ UNCHANGED vars
    <2>1. UNCHANGED <<pc, ended, closed, panic>>
      BY <1>31 DEF MuxStatus, Cancel, Srv, SrvStart, SrvCheck, SrvRecv, SrvFinish, SrvFail, SrvCancel,
         SrvGone, Consume, client, vars
    <2> QED BY <2>1 DEF CloseInv, PcType, Undoing, Closing
  <1> QED BY <1>1, <1>2, <1>3, <1>4, <1>5, <1>6, <1>7, <1>8, <1>9, <1>10, <1>11, <1>12, <1>13, <1>14, <1>15,
        <1>16, <1>17, <1>18, <1>19, <1>20, <1>21, <1>22, <1>23, <1>24, <1>25, <1>26, <1>27, <1>28, <1>29,
        <1>30, <1>31
       DEF Next, Call, Sub, Ctx, Watch, Down

(* Until callStreamOnce takes an error return, CompareAndSwap elects a single
   closer and ch is closed at most once, for every capacity, stream and fault. *)
THEOREM ClosedAtMostOnce == Spec => []CloseOnce
  <1>1. CloseInv => CloseOnce
    BY DEF CloseInv, CloseOnce, Undoing
  <1> QED BY <1>1, CloseInit, CloseNext, PTL DEF Spec

-----------------------------------------------------------------------------
(* The context goroutine leaves nothing behind. *)

(* The inductive invariant: the context goroutine exists only after the
   handler was stored and the subscription made, and both go away for good. *)
CleanInv ==
    /\ PcType
    /\ pc["call"] \in {"store", "subscribe"} => pc["ctx"] = "none"
    /\ pc["ctx"] \in {"cancel", "cas", "close", "drop", "done"} => ~handler
    /\ pc["ctx"] = "done" => ~on

LEMMA CleanInit == Init => CleanInv
  BY DEF Init, CleanInv, PcType, Goroutines

LEMMA CleanNext == CleanInv /\ [Next]_vars => CleanInv'
  <1> SUFFICES ASSUME CleanInv, [Next]_vars PROVE CleanInv'
    OBVIOUS
  <1> USE DEF CleanInv, PcType, Goroutines, At, Goto
  <1>1. CASE StoreHandler
    BY <1>1 DEF StoreHandler, wire
  <1>2. CASE StoreStatus
    BY <1>2 DEF StoreStatus, wire
  <1>3. CASE PublishRequest
    BY <1>3 DEF PublishRequest, client
  <1>4. CASE Undo
    BY <1>4 DEF Undo, Unsubscribed
  <1>5. CASE SubscribeStream
    BY <1>5 DEF SubscribeStream
  <1>6. CASE CheckNoResponder
    BY <1>6 DEF CheckNoResponder, wire
  <1>7. CASE SubNext
    BY <1>7 DEF SubNext, client
  <1>8. CASE SubPush
    BY <1>8 DEF SubPush, wire
  <1>9. CASE SubDrop
    BY <1>9 DEF SubDrop, wire
  <1>10. CASE SubDispatch
    BY <1>10 DEF SubDispatch, Settle, wire
  <1>11. CASE CtxTake
    BY <1>11 DEF CtxTake, wire
  <1>12. CASE CtxCancel
    BY <1>12 DEF CtxCancel, client
  <1>13. CASE CtxSettle
    BY <1>13 DEF CtxSettle, Settle, wire
  <1>14. CASE CtxDrop
    BY <1>14 DEF CtxDrop, Unsubscribed
  <1>15. CASE WatchSelect
    BY <1>15 DEF WatchSelect, wire
  <1>16. CASE WatchSettle
    BY <1>16 DEF WatchSettle, Settle, wire
  <1>17. CASE DownStart
    BY <1>17 DEF DownStart, wire
  <1>18. CASE DownRange
    BY <1>18 DEF DownRange, client, wire
  <1>19. CASE DownSettle
    BY <1>19 DEF DownSettle, Settle, wire
  <1>20. CASE DownDrop
    BY <1>20 DEF DownDrop, wire
  <1>21. CASE DownUnsub
    BY <1>21 DEF DownUnsub, Unsubscribed, client
  <1>22. CASE DownClose
    BY <1>22 DEF DownClose, Unsubscribed, client
  <1>23. CASE DownNil
    BY <1>23 DEF DownNil, client
  <1>24. CASE SendError("sub") \/ SendError("watch")
    <2>1. CASE SendError("sub")
      BY <2>1 DEF SendError, wire
    <2>2. CASE SendError("watch")
      BY <2>2 DEF SendError, wire
    <2> QED BY <1>24, <2>1, <2>2
  <1>25. CASE CloseBy("call", "failed")
    BY <1>25 DEF CloseBy, wire
  <1>26. CASE CloseBy("sub", "drop")
    BY <1>26 DEF CloseBy, wire
  <1>27. CASE CloseBy("ctx", "drop")
    BY <1>27 DEF CloseBy, wire
  <1>28. CASE CloseBy("watch", "done")
    BY <1>28 DEF CloseBy, wire
  <1>29. CASE CloseBy("down", "drop")
    BY <1>29 DEF CloseBy, wire
  <1>30. CASE MuxStatus \/ Cancel \/ Srv \/ Consume \/ UNCHANGED vars
    <2>1. UNCHANGED <<pc, handler, on>>
      BY <1>30 DEF MuxStatus, Cancel, Srv, SrvStart, SrvCheck, SrvRecv, SrvFinish, SrvFail, SrvCancel,
         SrvGone, Consume,
         client, wire, vars
    <2> QED BY <2>1
  <1> QED BY <1>1, <1>2, <1>3, <1>4, <1>5, <1>6, <1>7, <1>8, <1>9, <1>10, <1>11, <1>12, <1>13, <1>14, <1>15,
        <1>16, <1>17, <1>18, <1>19, <1>20, <1>21, <1>22, <1>23, <1>24, <1>25, <1>26, <1>27, <1>28, <1>29, <1>30
       DEF Next, Call, Sub, Ctx, Watch, Down

(* Whichever way a stream ended, once the context goroutine has run neither a
   handler nor a subscription of it is left. *)
THEOREM ContextCleansUp == Spec => []CleanedUp
  <1>1. CleanInv => CleanedUp
    BY DEF CleanInv, CleanedUp
  <1> QED BY <1>1, CleanInit, CleanNext, PTL DEF Spec

-----------------------------------------------------------------------------
(* What the consumer sees. *)

(* Values on their way: received or buffered, and in the hands of the
   subscription's goroutine. *)
Arrived == Len(got) + Len(buf)
InHand == IF pc["sub"] \in {"dispatch", "push"} THEN 1 ELSE 0

(* Where the server has said its last word. *)
Stopped == {"done", "left", "failed"}

HasError ==
    \/ Len(got) > 0 /\ got[Len(got)] = ErrorMsg
    \/ Len(buf) > 0 /\ buf[Len(buf)] = ErrorMsg

(* Who may be where: nothing arrives before the request was published, and a
   503 and an answer of the server exclude each other. *)
PhaseInv ==
    /\ pc["call"] \in {"store", "subscribe"} => ~on
    /\ pc["call"] \in {"store", "subscribe", "status", "publish"} =>
          srv = "none" /\ ~r503 /\ ~noResp /\ Arrived = 0
    /\ pc["watch"] # "none" => pc["call"] = "return"
    /\ srv = "none" => made = 0 /\ q = <<>> /\ pc["sub"] = "idle"
    /\ r503 \/ noResp \/ pc["watch"] \in {"cas", "err", "close"} => srv = "none"
    /\ ~on => q = <<>>
    /\ pc["ctx"] \in {"cancel", "cas", "close", "drop", "done"} => done
    /\ pc["sub"] \in {"err", "close", "drop"} => ended
    /\ pc["watch"] \in {"err", "close"} => ended
    /\ pc["ctx"] = "close" \/ pc["down"] = "close" => ended
    /\ closed => ended \/ pc["call"] = "failed"
    /\ pc["call"] \in {"close", "failed"} => ~handler
    /\ pc["call"] \in {"undo", "close", "failed"} => srv = "none"
    /\ over => closed /\ buf = <<>> /\ pc["call"] = "return"

(* What was received and what is buffered are the values from the first one on;
   an error is the last of them, and nothing follows it. *)
SeenInv ==
    /\ \A i \in 1..Len(got) : got[i] = Data(i) \/ (got[i] = ErrorMsg /\ i = Len(got) /\ buf = <<>>)
    /\ \A i \in 1..Len(buf) : buf[i] = Data(Len(got) + i) \/ (buf[i] = ErrorMsg /\ i = Len(buf))
    /\ HasError => ended /\ pc["sub"] \notin {"push", "err"} /\ pc["watch"] # "err"

(* The message in hand is the next one, as long as it will still be used. *)
HandInv ==
    /\ pc["sub"] = "push" => msg = Data(Arrived + 1)
    /\ pc["sub"] = "dispatch" /\ ~ended =>
          \/ msg = Data(Arrived + 1)
          \/ msg = ErrorMsg /\ srv = "failed"
          \/ msg = EndMsg /\ srv = "done" /\ Arrived = made

(* While the handler is registered and nobody has ended the stream, the queue of
   the subscription goes on where the message in hand stops, up to the last
   value that the server published. *)
QueueInv ==
    handler /\ ~ended =>
        /\ \A i \in 1..Len(q) :
              \/ q[i] = Data(Arrived + InHand + i)
              \/ i = Len(q) /\ srv = "failed" /\ q[i] = ErrorMsg
              \/ i = Len(q) /\ srv = "done" /\ q[i] = EndMsg /\ Arrived + InHand + i = made + 1
        /\ on /\ srv \notin Stopped => Arrived + InHand + Len(q) = made

(* Why the channel may be closed. *)
Finished == ended /\ srv = "done" /\ Arrived = made /\ pc["sub"] \notin {"push", "err"}
MayClose == done \/ pc["down"] # "none" \/ HasError \/ Finished

EndInv ==
    /\ closed => pc["call"] = "failed" \/ MayClose
    /\ pc["sub"] = "close" => MayClose
    /\ pc["watch"] = "close" => MayClose

SilentInv == TypeOK /\ PhaseInv /\ SeenInv /\ HandInv /\ QueueInv /\ EndInv

(* The parts of TypeOK: places, flags, and sequences with what fills them. *)
PlaceTypes == pc \in [Goroutines -> Labels]

FlagTypes ==
    /\ handler \in BOOLEAN /\ status \in BOOLEAN /\ ended \in BOOLEAN /\ closed \in BOOLEAN
    /\ noResp \in BOOLEAN /\ statusDone \in BOOLEAN /\ done \in BOOLEAN /\ on \in BOOLEAN
    /\ r503 \in BOOLEAN /\ cancelQ \in BOOLEAN /\ cancelled \in BOOLEAN /\ gone \in BOOLEAN /\ over \in BOOLEAN

StateTypes ==
    /\ nc \in {"up", "closed", "nil"}
    /\ srv \in {"none", "requested", "run", "recv", "finish", "error", "done", "left", "failed"}
    /\ made \in 0..MaxVals
    /\ panic \in {"none", "send", "close"}

SeqTypes ==
    /\ buf \in Seq(Messages) /\ Len(buf) <= Cap
    /\ q \in Seq(Messages) /\ msg \in Messages /\ got \in Seq(Messages)

LEMMA TypeParts == TypeOK <=> PlaceTypes /\ FlagTypes /\ StateTypes /\ SeqTypes
  BY Zenon DEF TypeOK, PlaceTypes, FlagTypes, StateTypes, SeqTypes

LEMMA MessageTypes ==
    EndMsg \in Messages /\ ErrorMsg \in Messages /\ \A i \in 1..MaxVals : Data(i) \in Messages
  BY DEF Messages, Data

(* Type correctness, part by part. *)
LEMMA TypeInit == Init => TypeOK
  <1> SUFFICES ASSUME Init PROVE TypeOK
    OBVIOUS
  <1>1. PlaceTypes
    BY DEF Init, PlaceTypes, Goroutines, Labels
  <1>2. FlagTypes
    BY Zenon DEF Init, FlagTypes
  <1>3. StateTypes /\ SeqTypes
    BY StreamAssumption, MessageTypes DEF Init, StateTypes, SeqTypes
  <1> QED BY <1>1, <1>2, <1>3, TypeParts

LEMMA PlacesKept == PlaceTypes /\ [Next]_vars => PlaceTypes'
  <1> SUFFICES ASSUME PlaceTypes, [Next]_vars PROVE PlaceTypes'
    OBVIOUS
  <1> USE DEF PlaceTypes, Goroutines, Labels
  <1>1. CASE Call
    BY <1>1 DEF Call, StoreHandler, At, Goto, wire, server, consumer, SubscribeStream, StoreStatus,
       PublishRequest, client, CheckNoResponder, Undo, Unsubscribed, CloseBy, Close
  <1>2. CASE Sub
    BY <1>2 DEF Sub, SubNext, At, Goto, client, server, consumer, SubDispatch, Settle, wire, SubPush, Send,
       SendError, CloseBy, Close, SubDrop
  <1>3. CASE Ctx
    BY <1>3 DEF Ctx, CtxTake, At, Goto, wire, server, consumer, CtxCancel, client, CtxSettle, Settle,
       CloseBy, Close, CtxDrop, Unsubscribed
  <1>4. CASE Watch
    BY <1>4 DEF Watch, WatchSelect, At, Goto, wire, server, consumer, WatchSettle, Settle, SendError, Send,
       CloseBy, Close
  <1>5. CASE Down
    BY <1>5 DEF Down, DownStart, At, Goto, wire, server, consumer, DownRange, client, DownSettle, Settle,
       CloseBy, Close, DownDrop, DownUnsub, Unsubscribed, DownClose, DownNil
  <1>6. CASE Srv
    BY <1>6 DEF Srv, SrvStart, Deliver, client, consumer, SrvCheck, wire, SrvRecv, SrvFinish, SrvFail,
       SrvCancel, SrvGone
  <1>7. CASE MuxStatus
    BY <1>7 DEF MuxStatus, server, consumer
  <1>8. CASE Cancel
    BY <1>8 DEF Cancel, client, wire, server, consumer
  <1>9. CASE Consume
    BY <1>9 DEF Consume, wire, server
  <1>10. CASE UNCHANGED vars
    BY <1>10 DEF vars, client, wire, server, consumer
  <1> QED BY <1>1, <1>2, <1>3, <1>4, <1>5, <1>6, <1>7, <1>8, <1>9, <1>10 DEF Next

LEMMA StatesKept == StateTypes /\ [Next]_vars => StateTypes'
  <1> SUFFICES ASSUME StateTypes, [Next]_vars PROVE StateTypes'
    OBVIOUS
  <1> USE StreamAssumption DEF StateTypes
  <1>1. CASE Call
    BY <1>1 DEF Call, StoreHandler, At, Goto, wire, server, consumer, SubscribeStream, StoreStatus,
       PublishRequest, client, CheckNoResponder, Undo, Unsubscribed, CloseBy, Close
  <1>2. CASE Sub
    BY <1>2 DEF Sub, SubNext, At, Goto, client, server, consumer, SubDispatch, Settle, wire, SubPush, Send,
       SendError, CloseBy, Close, SubDrop
  <1>3. CASE Ctx
    BY <1>3 DEF Ctx, CtxTake, At, Goto, wire, server, consumer, CtxCancel, client, CtxSettle, Settle,
       CloseBy, Close, CtxDrop, Unsubscribed
  <1>4. CASE Watch
    BY <1>4 DEF Watch, WatchSelect, At, Goto, wire, server, consumer, WatchSettle, Settle, SendError, Send,
       CloseBy, Close
  <1>5. CASE Down
    BY <1>5 DEF Down, DownStart, At, Goto, wire, server, consumer, DownRange, client, DownSettle, Settle,
       CloseBy, Close, DownDrop, DownUnsub, Unsubscribed, DownClose, DownNil
  <1>6. CASE Srv
    BY <1>6 DEF Srv, SrvStart, Deliver, client, consumer, SrvCheck, wire, SrvRecv, SrvFinish, SrvFail,
       SrvCancel, SrvGone
  <1>7. CASE MuxStatus
    BY <1>7 DEF MuxStatus, server, consumer
  <1>8. CASE Cancel
    BY <1>8 DEF Cancel, client, wire, server, consumer
  <1>9. CASE Consume
    BY <1>9 DEF Consume, wire, server
  <1>10. CASE UNCHANGED vars
    BY <1>10 DEF vars, client, wire, server, consumer
  <1> QED BY <1>1, <1>2, <1>3, <1>4, <1>5, <1>6, <1>7, <1>8, <1>9, <1>10 DEF Next

LEMMA FlagsKept == FlagTypes /\ [Next]_vars => FlagTypes'
  <1> SUFFICES ASSUME FlagTypes, [Next]_vars PROVE FlagTypes'
    OBVIOUS
  <1>1. CASE StoreHandler
    BY <1>1, ZenonT(40) DEF StoreHandler, At, Goto, wire, server, consumer, FlagTypes
  <1>2. CASE SubscribeStream
    BY <1>2, ZenonT(40) DEF SubscribeStream, At, Goto, server, consumer, FlagTypes
  <1>3. CASE StoreStatus
    BY <1>3, ZenonT(40) DEF StoreStatus, At, Goto, wire, server, consumer, FlagTypes
  <1>4. CASE PublishRequest
    <2>1. r503' = r503 \/ r503' = TRUE
      BY <1>4 DEF PublishRequest
    <2>2. UNCHANGED <<handler, status, ended, closed, noResp, statusDone, done, on, cancelQ, cancelled,
       gone, over>>
      BY <1>4 DEF PublishRequest, client, consumer
    <2> QED BY <2>1, <2>2, ZenonT(40) DEF FlagTypes
  <1>5. CASE CheckNoResponder
    BY <1>5, ZenonT(40) DEF CheckNoResponder, At, Goto, wire, server, consumer, FlagTypes
  <1>6. CASE Undo
    BY <1>6, ZenonT(40) DEF Undo, Unsubscribed, At, Goto, server, consumer, FlagTypes
  <1>7. CASE CloseBy("call", "failed")
    BY <1>7, ZenonT(40) DEF CloseBy, Close, At, Goto, wire, server, consumer, FlagTypes
  <1>8. CASE MuxStatus
    BY <1>8, ZenonT(40) DEF MuxStatus, server, consumer, FlagTypes
  <1>9. CASE SubNext
    BY <1>9, ZenonT(40) DEF SubNext, At, Goto, client, server, consumer, FlagTypes
  <1>10. CASE SubDispatch
    <2>1. ended' = ended \/ ended' = TRUE
      BY <1>10 DEF SubDispatch, Settle
    <2>2. UNCHANGED <<handler, status, closed, noResp, statusDone, done, on, r503, cancelQ, cancelled, gone, over>>
      BY <1>10 DEF SubDispatch, wire, server, consumer
    <2> QED BY <2>1, <2>2, ZenonT(40) DEF FlagTypes
  <1>11. CASE SubPush
    BY <1>11, ZenonT(40) DEF SubPush, Send, At, Goto, wire, server, consumer, FlagTypes
  <1>12. CASE SendError("sub")
    BY <1>12, ZenonT(40) DEF SendError, Send, At, Goto, wire, server, consumer, FlagTypes
  <1>13. CASE CloseBy("sub", "drop")
    BY <1>13, ZenonT(40) DEF CloseBy, Close, At, Goto, wire, server, consumer, FlagTypes
  <1>14. CASE SubDrop
    BY <1>14, ZenonT(40) DEF SubDrop, At, Goto, wire, server, consumer, FlagTypes
  <1>15. CASE Cancel
    BY <1>15, ZenonT(40) DEF Cancel, client, wire, server, consumer, FlagTypes
  <1>16. CASE CtxTake
    BY <1>16, ZenonT(40) DEF CtxTake, At, Goto, wire, server, consumer, FlagTypes
  <1>17. CASE CtxCancel
    BY <1>17, ZenonT(40) DEF CtxCancel, At, Goto, client, server, consumer, FlagTypes
  <1>18. CASE CtxSettle
    BY <1>18, ZenonT(40) DEF CtxSettle, Settle, At, Goto, wire, server, consumer, FlagTypes
  <1>19. CASE CloseBy("ctx", "drop")
    BY <1>19, ZenonT(40) DEF CloseBy, Close, At, Goto, wire, server, consumer, FlagTypes
  <1>20. CASE CtxDrop
    BY <1>20, ZenonT(40) DEF CtxDrop, Unsubscribed, At, Goto, server, consumer, FlagTypes
  <1>21. CASE WatchSelect
    BY <1>21, ZenonT(40) DEF WatchSelect, At, Goto, wire, server, consumer, FlagTypes
  <1>22. CASE WatchSettle
    BY <1>22, ZenonT(40) DEF WatchSettle, Settle, At, Goto, wire, server, consumer, FlagTypes
  <1>23. CASE SendError("watch")
    BY <1>23, ZenonT(40) DEF SendError, Send, At, Goto, wire, server, consumer, FlagTypes
  <1>24. CASE CloseBy("watch", "done")
    BY <1>24, ZenonT(40) DEF CloseBy, Close, At, Goto, wire, server, consumer, FlagTypes
  <1>25. CASE DownStart
    BY <1>25, ZenonT(40) DEF DownStart, At, Goto, wire, server, consumer, FlagTypes
  <1>26. CASE DownRange
    BY <1>26, ZenonT(40) DEF DownRange, At, Goto, client, wire, server, consumer, FlagTypes
  <1>27. CASE DownSettle
    BY <1>27, ZenonT(40) DEF DownSettle, Settle, At, Goto, wire, server, consumer, FlagTypes
  <1>28. CASE CloseBy("down", "drop")
    BY <1>28, ZenonT(40) DEF CloseBy, Close, At, Goto, wire, server, consumer, FlagTypes
  <1>29. CASE DownDrop
    BY <1>29, ZenonT(40) DEF DownDrop, At, Goto, wire, server, consumer, FlagTypes
  <1>30. CASE DownUnsub
    BY <1>30, ZenonT(40) DEF DownUnsub, Unsubscribed, At, Goto, client, server, consumer, FlagTypes
  <1>31. CASE DownClose
    BY <1>31, ZenonT(40) DEF DownClose, Unsubscribed, At, Goto, client, server, consumer, FlagTypes
  <1>32. CASE DownNil
    BY <1>32, ZenonT(40) DEF DownNil, At, Goto, client, server, consumer, FlagTypes
  <1>33. CASE SrvStart
    BY <1>33, ZenonT(40) DEF SrvStart, Deliver, client, consumer, FlagTypes
  <1>34. CASE SrvCheck
    BY <1>34, ZenonT(40) DEF SrvCheck, client, wire, consumer, FlagTypes
  <1>35. CASE SrvRecv
    BY <1>35, ZenonT(40) DEF SrvRecv, Deliver, client, consumer, FlagTypes
  <1>36. CASE SrvFinish
    BY <1>36, ZenonT(40) DEF SrvFinish, Deliver, client, consumer, FlagTypes
  <1>37. CASE SrvCancel
    BY <1>37, ZenonT(40) DEF SrvCancel, client, consumer, FlagTypes
  <1>38. CASE Consume
    BY <1>38, ZenonT(40) DEF Consume, wire, server, FlagTypes
  <1>39. CASE UNCHANGED vars
    BY <1>39, ZenonT(40) DEF vars, client, wire, server, consumer, FlagTypes
  <1>40. CASE SrvFail
    BY <1>40, ZenonT(40) DEF SrvFail, Deliver, client, consumer, FlagTypes
  <1>41. CASE SrvGone
    BY <1>41, ZenonT(40) DEF SrvGone, client, wire, consumer, FlagTypes
  <1> QED BY <1>1, <1>2, <1>3, <1>4, <1>5, <1>6, <1>7, <1>8, <1>9, <1>10, <1>11, <1>12, <1>13, <1>14, <1>15,
        <1>16, <1>17, <1>18, <1>19, <1>20, <1>21, <1>22, <1>23, <1>24, <1>25, <1>26, <1>27, <1>28, <1>29,
        <1>30, <1>31, <1>32, <1>33, <1>34, <1>35, <1>36, <1>37, <1>38, <1>39, <1>40, <1>41
       DEF Next, Call, Sub, Ctx, Watch, Down, Srv

(* What the provers need to know of sequences. *)
LEMMA SeqGrows ==
  ASSUME NEW s \in Seq(Messages), NEW m \in Messages
  PROVE  Append(s, m) \in Seq(Messages) /\ Len(Append(s, m)) = Len(s) + 1
  OBVIOUS

LEMMA BufferGrows ==
  ASSUME NEW s \in Seq(Messages), Len(s) <= Cap, NEW m \in Messages,
         NEW t, t = s \/ (Len(s) < Cap /\ t = Append(s, m))
  PROVE  t \in Seq(Messages) /\ Len(t) <= Cap
  <1>1. Cap \in Nat /\ Len(s) \in Nat
    BY StreamAssumption
  <1>2. Append(s, m) \in Seq(Messages) /\ Len(Append(s, m)) = Len(s) + 1
    BY SeqGrows
  <1> QED BY <1>1, <1>2

LEMMA SeqShrinks ==
  ASSUME NEW s \in Seq(Messages), s # <<>>
  PROVE  /\ Head(s) \in Messages /\ Tail(s) \in Seq(Messages) /\ Len(Tail(s)) = Len(s) - 1
         /\ Len(s) \in Nat \ {0} /\ Head(s) = s[1] /\ \A i \in 1..Len(Tail(s)) : Tail(s)[i] = s[i + 1]
  OBVIOUS

LEMMA SeqsKept == StateTypes /\ SeqTypes /\ [Next]_vars => SeqTypes'
  <1> SUFFICES ASSUME StateTypes, SeqTypes, [Next]_vars PROVE SeqTypes'
    OBVIOUS
  <1> USE MessageTypes, StreamAssumption DEF SeqTypes
  <1>1. CASE SubNext
    BY <1>1, SeqShrinks DEF SubNext, At, Goto, client, server, consumer
  <1>2. CASE SubPush
    <2>1. buf' = buf \/ (Len(buf) < Cap /\ buf' = Append(buf, msg))
      BY <1>2 DEF SubPush, Send
    <2>2. UNCHANGED <<q, msg, got>>
      BY <1>2 DEF SubPush, wire, consumer
    <2>3. buf' \in Seq(Messages) /\ Len(buf') <= Cap
      BY <2>1, BufferGrows
    <2> QED BY <2>2, <2>3
  <1>3. CASE SendError("sub")
    <2>1. buf' = buf \/ (Len(buf) < Cap /\ buf' = Append(buf, ErrorMsg))
      BY <1>3 DEF SendError, Send
    <2>2. UNCHANGED <<q, msg, got>>
      BY <1>3 DEF SendError, wire, consumer
    <2>3. buf' \in Seq(Messages) /\ Len(buf') <= Cap
      BY <2>1, BufferGrows
    <2> QED BY <2>2, <2>3
  <1>4. CASE SendError("watch")
    <2>1. buf' = buf \/ (Len(buf) < Cap /\ buf' = Append(buf, ErrorMsg))
      BY <1>4 DEF SendError, Send
    <2>2. UNCHANGED <<q, msg, got>>
      BY <1>4 DEF SendError, wire, consumer
    <2>3. buf' \in Seq(Messages) /\ Len(buf') <= Cap
      BY <2>1, BufferGrows
    <2> QED BY <2>2, <2>3
  <1>5. CASE Undo
    BY <1>5 DEF Undo, Unsubscribed, At, Goto, server, consumer
  <1>6. CASE CtxDrop
    BY <1>6 DEF CtxDrop, Unsubscribed, At, Goto, server, consumer
  <1>7. CASE DownUnsub
    BY <1>7 DEF DownUnsub, Unsubscribed, At, Goto, client, server, consumer
  <1>8. CASE DownClose
    BY <1>8 DEF DownClose, Unsubscribed, At, Goto, client, server, consumer
  <1>9. CASE SrvStart
    <2>1. q' = q \/ (q' = Append(q, ErrorMsg))
      BY <1>9 DEF SrvStart, Deliver
    <2>2. UNCHANGED <<buf, msg, got>>
      BY <1>9 DEF SrvStart, client, consumer
    <2>3. q' \in Seq(Messages)
      BY <2>1, SeqGrows
    <2> QED BY <2>2, <2>3
  <1>10. CASE SrvRecv
    <2>0. q' = q \/ made + 1 \in 1..MaxVals
      BY <1>10 DEF SrvRecv, StateTypes
    <2>1. q' = q \/ (q' = Append(q, Data(made + 1)))
      BY <1>10 DEF SrvRecv, Deliver
    <2>2. UNCHANGED <<buf, msg, got>>
      BY <1>10 DEF SrvRecv, client, consumer
    <2>3. q' \in Seq(Messages)
      BY <2>1, <2>0, SeqGrows
    <2> QED BY <2>2, <2>3
  <1>11. CASE SrvFinish
    <2>1. q' = q \/ (q' = Append(q, EndMsg))
      BY <1>11 DEF SrvFinish, Deliver
    <2>2. UNCHANGED <<buf, msg, got>>
      BY <1>11 DEF SrvFinish, client, consumer
    <2>3. q' \in Seq(Messages)
      BY <2>1, SeqGrows
    <2> QED BY <2>2, <2>3
  <1>14. CASE SrvFail
    <2>1. q' = q \/ (q' = Append(q, ErrorMsg))
      BY <1>14 DEF SrvFail, Deliver
    <2>2. UNCHANGED <<buf, msg, got>>
      BY <1>14 DEF SrvFail, client, consumer
    <2>3. q' \in Seq(Messages)
      BY <2>1, SeqGrows
    <2> QED BY <2>2, <2>3
  <1>12. CASE Consume
    <2>1. UNCHANGED <<q, msg>>
      BY <1>12 DEF Consume, wire
    <2>2. UNCHANGED <<got, buf>> \/ (buf # <<>> /\ got' = Append(got, Head(buf)) /\ buf' = Tail(buf))
      BY <1>12 DEF Consume
    <2>3. CASE UNCHANGED <<got, buf>>
      BY <2>1, <2>3
    <2>4. CASE buf # <<>> /\ got' = Append(got, Head(buf)) /\ buf' = Tail(buf)
      <3>1. Head(buf) \in Messages /\ buf' \in Seq(Messages) /\ Len(buf') = Len(buf) - 1 /\ Len(buf) \in Nat
        BY <2>4, SeqShrinks
      <3>2. got' \in Seq(Messages)
        BY <2>4, <3>1, SeqGrows
      <3> QED BY <2>1, <3>1, <3>2
    <2> QED BY <2>2, <2>3, <2>4
  <1>13. CASE StoreHandler \/ SubscribeStream \/ StoreStatus \/ PublishRequest \/ CheckNoResponder
        \/ CloseBy("call", "failed") \/ MuxStatus \/ SubDispatch \/ CloseBy("sub", "drop") \/ SubDrop
        \/ Cancel \/ CtxTake \/ CtxCancel \/ CtxSettle \/ CloseBy("ctx", "drop") \/ WatchSelect
        \/ WatchSettle \/ CloseBy("watch", "done") \/ DownStart \/ DownRange \/ DownSettle
        \/ CloseBy("down", "drop") \/ DownDrop \/ DownNil \/ SrvCheck \/ SrvCancel \/ SrvGone \/ UNCHANGED vars
    <2>1. UNCHANGED <<buf, q, msg, got>>
      BY <1>13 DEF StoreHandler, wire, server, consumer, SubscribeStream, StoreStatus, PublishRequest,
         client, CheckNoResponder, CloseBy, MuxStatus, SubDispatch, SubDrop, Cancel, CtxTake, CtxCancel,
         CtxSettle, WatchSelect, WatchSettle, DownStart, DownRange, DownSettle, DownDrop, DownNil, SrvCheck,
         SrvCancel, SrvGone, vars
    <2> QED BY <2>1
  <1> QED BY <1>1, <1>2, <1>3, <1>4, <1>5, <1>6, <1>7, <1>8, <1>9, <1>10, <1>11, <1>12, <1>13, <1>14
       DEF Next, Call, Sub, Ctx, Watch, Down, Srv

LEMMA TypeNext == TypeOK /\ [Next]_vars => TypeOK'
  BY TypeParts, PlacesKept, FlagsKept, StatesKept, SeqsKept, Zenon
     DEF TypeOK, PlaceTypes, FlagTypes, StateTypes, SeqTypes

LEMMA PhaseInit == Init => PhaseInv
  BY DEF Init, PhaseInv, Arrived, Goroutines

LEMMA PhaseNext == TypeOK /\ PhaseInv /\ [Next]_vars => PhaseInv'
  <1> SUFFICES ASSUME TypeOK, PhaseInv, [Next]_vars PROVE PhaseInv'
    OBVIOUS
  <1> USE DEF TypeOK, PhaseInv, Goroutines, Arrived
  <1>1. CASE StoreHandler
    BY <1>1 DEF StoreHandler, At, Goto, wire, server, consumer
  <1>2. CASE SubscribeStream
    BY <1>2 DEF SubscribeStream, At, Goto, server, consumer
  <1>3. CASE StoreStatus
    BY <1>3 DEF StoreStatus, At, Goto, wire, server, consumer
  <1>4. CASE PublishRequest
    BY <1>4 DEF PublishRequest, At, Goto, client, consumer
  <1>5. CASE CheckNoResponder
    BY <1>5 DEF CheckNoResponder, At, Goto, wire, server, consumer
  <1>6. CASE Undo
    BY <1>6 DEF Undo, Unsubscribed, At, Goto, server, consumer
  <1>7. CASE CloseBy("call", "failed")
    BY <1>7 DEF CloseBy, Close, At, Goto, wire, server, consumer
  <1>8. CASE MuxStatus
    BY <1>8 DEF MuxStatus, server, consumer
  <1>9. CASE SubNext
    BY <1>9 DEF SubNext, At, Goto, client, server, consumer
  <1>10. CASE SubDispatch
    BY <1>10 DEF SubDispatch, Settle, At, Goto, wire, server, consumer
  <1>11. CASE SubPush
    BY <1>11 DEF SubPush, Send, At, Goto, wire, server, consumer
  <1>12. CASE SendError("sub")
    BY <1>12 DEF SendError, Send, At, Goto, wire, server, consumer
  <1>13. CASE CloseBy("sub", "drop")
    BY <1>13 DEF CloseBy, Close, At, Goto, wire, server, consumer
  <1>14. CASE SubDrop
    BY <1>14 DEF SubDrop, At, Goto, wire, server, consumer
  <1>15. CASE Cancel
    BY <1>15 DEF Cancel, client, wire, server, consumer
  <1>16. CASE CtxTake
    BY <1>16 DEF CtxTake, At, Goto, wire, server, consumer
  <1>17. CASE CtxCancel
    BY <1>17 DEF CtxCancel, At, Goto, client, server, consumer
  <1>18. CASE CtxSettle
    BY <1>18 DEF CtxSettle, Settle, At, Goto, wire, server, consumer
  <1>19. CASE CloseBy("ctx", "drop")
    BY <1>19 DEF CloseBy, Close, At, Goto, wire, server, consumer
  <1>20. CASE CtxDrop
    BY <1>20 DEF CtxDrop, Unsubscribed, At, Goto, server, consumer
  <1>21. CASE WatchSelect
    BY <1>21 DEF WatchSelect, At, Goto, wire, server, consumer
  <1>22. CASE WatchSettle
    BY <1>22 DEF WatchSettle, Settle, At, Goto, wire, server, consumer
  <1>23. CASE SendError("watch")
    BY <1>23 DEF SendError, Send, At, Goto, wire, server, consumer
  <1>24. CASE CloseBy("watch", "done")
    BY <1>24 DEF CloseBy, Close, At, Goto, wire, server, consumer
  <1>25. CASE DownStart
    BY <1>25 DEF DownStart, At, Goto, wire, server, consumer
  <1>26. CASE DownRange
    BY <1>26 DEF DownRange, At, Goto, client, wire, server, consumer
  <1>27. CASE DownSettle
    BY <1>27 DEF DownSettle, Settle, At, Goto, wire, server, consumer
  <1>28. CASE CloseBy("down", "drop")
    BY <1>28 DEF CloseBy, Close, At, Goto, wire, server, consumer
  <1>29. CASE DownDrop
    BY <1>29 DEF DownDrop, At, Goto, wire, server, consumer
  <1>30. CASE DownUnsub
    BY <1>30 DEF DownUnsub, Unsubscribed, At, Goto, client, server, consumer
  <1>31. CASE DownClose
    BY <1>31 DEF DownClose, Unsubscribed, At, Goto, client, server, consumer
  <1>32. CASE DownNil
    BY <1>32 DEF DownNil, At, Goto, client, server, consumer
  <1>33. CASE SrvStart
    BY <1>33 DEF SrvStart, Deliver, client, consumer
  <1>34. CASE SrvCheck
    BY <1>34 DEF SrvCheck, client, wire, consumer
  <1>35. CASE SrvRecv
    BY <1>35 DEF SrvRecv, Deliver, client, consumer
  <1>36. CASE SrvFinish
    BY <1>36 DEF SrvFinish, Deliver, client, consumer
  <1>37. CASE SrvCancel
    BY <1>37 DEF SrvCancel, client, consumer
  <1>38. CASE Consume
    BY <1>38 DEF Consume, wire, server
  <1>39. CASE UNCHANGED vars
    BY <1>39 DEF vars, client, wire, server, consumer
  <1>40. CASE SrvFail
    BY <1>40 DEF SrvFail, Deliver, client, consumer
  <1>41. CASE SrvGone
    BY <1>41 DEF SrvGone, client, wire, consumer
  <1> QED BY <1>1, <1>2, <1>3, <1>4, <1>5, <1>6, <1>7, <1>8, <1>9, <1>10, <1>11, <1>12, <1>13, <1>14, <1>15,
        <1>16, <1>17, <1>18, <1>19, <1>20, <1>21, <1>22, <1>23, <1>24, <1>25, <1>26, <1>27, <1>28, <1>29,
        <1>30, <1>31, <1>32, <1>33, <1>34, <1>35, <1>36, <1>37, <1>38, <1>39, <1>40, <1>41
       DEF Next, Call, Sub, Ctx, Watch, Down, Srv

(* The kinds of messages are told apart by their type. *)
LEMMA MessageKinds ==
    /\ EndMsg.type = "end" /\ ErrorMsg.type = "error" /\ \A i : Data(i).type = "data"
    /\ EndMsg # ErrorMsg /\ \A i : Data(i) # EndMsg /\ Data(i) # ErrorMsg
  <1>1. EndMsg.type = "end" /\ ErrorMsg.type = "error" /\ \A i : Data(i).type = "data"
    BY DEF EndMsg, ErrorMsg, Data
  <1> QED BY <1>1

Lengths == Len(got) \in Nat /\ Len(buf) \in Nat /\ Len(q) \in Nat /\ made \in Nat

LEMMA LengthTypes == TypeOK => Lengths
  BY StreamAssumption DEF TypeOK, Lengths

(* A step that moves no message: the stream may end, the handler may go, and
   the queue may be given up for good. *)
LEMMA QuietFlow ==
  ASSUME SeenInv, HandInv, QueueInv, Lengths,
         UNCHANGED <<got, buf, made, msg>>,
         q' = q \/ (q' = <<>> /\ ~on'),
         srv' = srv \/ (srv \notin Stopped /\ srv' \notin Stopped),
         handler' => handler, ended => ended', on' => on,
         pc'["sub"] = pc["sub"]
           \/ (ended' /\ pc'["sub"] \notin {"dispatch", "push"} /\ (pc'["sub"] = "err" => ~ended)),
         pc'["watch"] = "err" => pc["watch"] = "err" \/ ~ended
  PROVE  SeenInv' /\ HandInv' /\ QueueInv'
  <1>1. Arrived' = Arrived /\ (HasError' <=> HasError)
    BY DEF Arrived, HasError
  <1>2. SeenInv'
    BY <1>1 DEF SeenInv
  <1>3. HandInv'
    BY <1>1 DEF HandInv, Stopped
  <1>4. QueueInv'
    <2>1. CASE q' = q
      BY <1>1, <2>1 DEF QueueInv, InHand, Stopped
    <2>2. CASE q' = <<>> /\ ~on'
      BY <2>2 DEF QueueInv
    <2> QED BY <2>1, <2>2
  <1> QED BY <1>2, <1>3, <1>4

(* A reason to close stays one. *)
LEMMA ReasonStays ==
  ASSUME UNCHANGED <<got, buf, made>>, MayClose, done => done',
         pc["down"] # "none" => pc'["down"] # "none", ended => ended',
         srv = "done" => srv' = "done",
         pc'["sub"] \in {"push", "err"} => pc["sub"] \in {"push", "err"} \/ ~ended
  PROVE  MayClose'
  BY DEF MayClose, Finished, HasError, Arrived

(* Most steps move no message. *)
LEMMA FlowQuiet ==
  ASSUME TypeOK, PhaseInv, SeenInv, HandInv, QueueInv,
         StoreStatus
           \/ PublishRequest
           \/ CheckNoResponder
           \/ Undo
           \/ CloseBy("call", "failed")
           \/ MuxStatus
           \/ CloseBy("sub", "drop")
           \/ SubDrop
           \/ Cancel
           \/ CtxTake
           \/ CtxCancel
           \/ CtxSettle
           \/ CloseBy("ctx", "drop")
           \/ CtxDrop
           \/ WatchSelect
           \/ WatchSettle
           \/ CloseBy("watch", "done")
           \/ DownStart
           \/ DownRange
           \/ DownSettle
           \/ CloseBy("down", "drop")
           \/ DownDrop
           \/ DownUnsub
           \/ DownClose
           \/ DownNil
           \/ SrvCheck
           \/ SrvCancel
           \/ SrvGone
           \/ UNCHANGED vars
  PROVE  SeenInv' /\ HandInv' /\ QueueInv'
  <1>l. Lengths
    BY LengthTypes
  <1>p. pc \in [Goroutines -> Labels]
    BY DEF TypeOK
  <1>1. CASE StoreStatus
    BY <1>1, <1>l, <1>p, QuietFlow DEF StoreStatus, At, Goto, wire, server, consumer, Goroutines
  <1>2. CASE PublishRequest
    BY <1>2, <1>l, <1>p, QuietFlow DEF PublishRequest, At, Goto, client, consumer, Goroutines, PhaseInv, Stopped
  <1>3. CASE CheckNoResponder
    BY <1>3, <1>l, <1>p, QuietFlow DEF CheckNoResponder, At, Goto, wire, server, consumer, Goroutines
  <1>4. CASE Undo
    BY <1>4, <1>l, <1>p, QuietFlow DEF Undo, Unsubscribed, At, Goto, server, consumer, Goroutines
  <1>5. CASE CloseBy("call", "failed")
    BY <1>5, <1>l, <1>p, QuietFlow DEF CloseBy, Close, At, Goto, wire, server, consumer, Goroutines
  <1>6. CASE MuxStatus
    BY <1>6, <1>l, <1>p, QuietFlow DEF MuxStatus, server, consumer, Goroutines
  <1>7. CASE CloseBy("sub", "drop")
    BY <1>7, <1>l, <1>p, QuietFlow DEF CloseBy, Close, At, Goto, wire, server, consumer, Goroutines, PhaseInv
  <1>8. CASE SubDrop
    BY <1>8, <1>l, <1>p, QuietFlow DEF SubDrop, At, Goto, wire, server, consumer, Goroutines, PhaseInv
  <1>9. CASE Cancel
    BY <1>9, <1>l, <1>p, QuietFlow DEF Cancel, client, wire, server, consumer, Goroutines
  <1>10. CASE CtxTake
    BY <1>10, <1>l, <1>p, QuietFlow DEF CtxTake, At, Goto, wire, server, consumer, Goroutines
  <1>11. CASE CtxCancel
    BY <1>11, <1>l, <1>p, QuietFlow DEF CtxCancel, At, Goto, client, server, consumer, Goroutines
  <1>12. CASE CtxSettle
    BY <1>12, <1>l, <1>p, QuietFlow DEF CtxSettle, Settle, At, Goto, wire, server, consumer, Goroutines
  <1>13. CASE CloseBy("ctx", "drop")
    BY <1>13, <1>l, <1>p, QuietFlow DEF CloseBy, Close, At, Goto, wire, server, consumer, Goroutines
  <1>14. CASE CtxDrop
    BY <1>14, <1>l, <1>p, QuietFlow DEF CtxDrop, Unsubscribed, At, Goto, server, consumer, Goroutines
  <1>15. CASE WatchSelect
    BY <1>15, <1>l, <1>p, QuietFlow DEF WatchSelect, At, Goto, wire, server, consumer, Goroutines
  <1>16. CASE WatchSettle
    BY <1>16, <1>l, <1>p, QuietFlow DEF WatchSettle, Settle, At, Goto, wire, server, consumer, Goroutines, PhaseInv
  <1>17. CASE CloseBy("watch", "done")
    BY <1>17, <1>l, <1>p, QuietFlow DEF CloseBy, Close, At, Goto, wire, server, consumer, Goroutines
  <1>18. CASE DownStart
    BY <1>18, <1>l, <1>p, QuietFlow DEF DownStart, At, Goto, wire, server, consumer, Goroutines
  <1>19. CASE DownRange
    BY <1>19, <1>l, <1>p, QuietFlow DEF DownRange, At, Goto, client, wire, server, consumer, Goroutines
  <1>20. CASE DownSettle
    BY <1>20, <1>l, <1>p, QuietFlow DEF DownSettle, Settle, At, Goto, wire, server, consumer, Goroutines
  <1>21. CASE CloseBy("down", "drop")
    BY <1>21, <1>l, <1>p, QuietFlow DEF CloseBy, Close, At, Goto, wire, server, consumer, Goroutines
  <1>22. CASE DownDrop
    BY <1>22, <1>l, <1>p, QuietFlow DEF DownDrop, At, Goto, wire, server, consumer, Goroutines
  <1>23. CASE DownUnsub
    BY <1>23, <1>l, <1>p, QuietFlow DEF DownUnsub, Unsubscribed, At, Goto, client, server, consumer, Goroutines
  <1>24. CASE DownClose
    BY <1>24, <1>l, <1>p, QuietFlow DEF DownClose, Unsubscribed, At, Goto, client, server, consumer, Goroutines
  <1>25. CASE DownNil
    BY <1>25, <1>l, <1>p, QuietFlow DEF DownNil, At, Goto, client, server, consumer, Goroutines
  <1>26. CASE SrvCheck
    BY <1>26, <1>l, <1>p, QuietFlow DEF SrvCheck, client, wire, consumer, Goroutines, Stopped
  <1>27. CASE SrvCancel
    BY <1>27, <1>l, <1>p, QuietFlow DEF SrvCancel, client, consumer, Goroutines
  <1>28. CASE UNCHANGED vars
    BY <1>28, <1>l, <1>p, QuietFlow DEF vars, client, wire, server, consumer, Goroutines
  <1>29. CASE SrvGone
    BY <1>29, <1>l, <1>p, QuietFlow DEF SrvGone, client, wire, consumer, Goroutines
  <1> QED BY <1>1, <1>2, <1>3, <1>4, <1>5, <1>6, <1>7, <1>8, <1>9, <1>10, <1>11, <1>12, <1>13, <1>14, <1>15,
        <1>16, <1>17, <1>18, <1>19, <1>20, <1>21, <1>22, <1>23, <1>24, <1>25, <1>26, <1>27, <1>28, <1>29

(* Before the request is published there is nothing to lose. *)
LEMMA FlowStart ==
  ASSUME TypeOK, PhaseInv, SeenInv, HandInv, QueueInv, StoreHandler \/ SubscribeStream
  PROVE  SeenInv' /\ HandInv' /\ QueueInv'
  <1>1. pc["call"] \in {"store", "subscribe"} /\ UNCHANGED <<got, buf, made, msg, q, srv, ended>>
    BY DEF StoreHandler, SubscribeStream, At, wire, server, consumer
  <1>2. pc'["sub"] = pc["sub"] /\ (pc'["watch"] = pc["watch"])
    BY DEF StoreHandler, SubscribeStream, Goto, TypeOK, Goroutines
  <1>3. Arrived = 0 /\ made = 0 /\ q = <<>> /\ pc["sub"] = "idle"
    BY <1>1 DEF PhaseInv
  <1>4. Arrived' = Arrived /\ (HasError' <=> HasError)
    BY <1>1 DEF Arrived, HasError
  <1>5. SeenInv'
    BY <1>1, <1>2, <1>4 DEF SeenInv
  <1>6. HandInv'
    BY <1>1, <1>2, <1>3 DEF HandInv
  <1>7. QueueInv'
    BY <1>1, <1>2, <1>3, <1>4 DEF QueueInv, InHand
  <1> QED BY <1>5, <1>6, <1>7

(* The goroutine of the subscription takes the next message, or skips it when
   the handler is gone. *)
LEMMA FlowTake ==
  ASSUME TypeOK, PhaseInv, SeenInv, HandInv, QueueInv, SubNext
  PROVE  SeenInv' /\ HandInv' /\ QueueInv'
  <1>0. /\ pc["sub"] = "idle" /\ q # <<>> /\ msg' = Head(q) /\ q' = Tail(q)
        /\ UNCHANGED <<handler, ended, on, got, buf, made, srv>>
    BY DEF SubNext, At, client, server, consumer
  <1>1. IF handler THEN pc'["sub"] = "dispatch" ELSE pc'["sub"] = "idle"
    BY <1>0 DEF SubNext, Goto, TypeOK, Goroutines
  <1>2. pc'["watch"] = pc["watch"]
    BY DEF SubNext, Goto, TypeOK, Goroutines
  <1>3. Arrived' = Arrived /\ (HasError' <=> HasError) /\ InHand = 0 /\ Lengths /\ Arrived \in Nat
    BY <1>0, LengthTypes DEF Arrived, HasError, InHand, Lengths
  <1>4. /\ Len(q) \in Nat \ {0} /\ Head(q) = q[1] /\ Len(q') = Len(q) - 1
        /\ \A i \in 1..Len(q') : q'[i] = q[i + 1]
    BY <1>0, SeqShrinks DEF TypeOK
  <1>5. SeenInv'
    BY <1>0, <1>1, <1>2, <1>3 DEF SeenInv
  <1>6. HandInv'
    <2>1. SUFFICES ASSUME pc'["sub"] = "dispatch", ~ended'
                   PROVE  \/ msg' = Data(Arrived + 1)
                          \/ msg' = ErrorMsg /\ srv' = "failed"
                          \/ msg' = EndMsg /\ srv' = "done" /\ Arrived = made'
      BY <1>1, <1>3 DEF HandInv
    <2>2. handler /\ ~ended
      BY <1>0, <1>1, <2>1
    <2>3. 1 \in 1..Len(q) /\ Arrived + 0 + 1 = Arrived + 1 /\ (Arrived + 1 = made + 1 => Arrived = made)
      BY <1>3, <1>4 DEF Lengths
    <2> QED BY <1>0, <1>3, <1>4, <2>2, <2>3 DEF QueueInv
  <1>7. QueueInv'
    <2>1. SUFFICES ASSUME handler', ~ended'
                   PROVE  QueueInv'
      BY DEF QueueInv
    <2>2. handler /\ ~ended /\ InHand' = 1
      BY <1>0, <1>1, <2>1 DEF InHand
    <2>3. ASSUME NEW i \in 1..Len(q')
          PROVE  \/ q'[i] = Data(Arrived + 1 + i)
                 \/ i = Len(q') /\ srv' = "failed" /\ q'[i] = ErrorMsg
                 \/ i = Len(q') /\ srv' = "done" /\ q'[i] = EndMsg /\ Arrived + 1 + i = made' + 1
      <3>1. /\ i + 1 \in 1..Len(q) /\ Arrived + 0 + (i + 1) = Arrived + 1 + i
            /\ i + 1 = Len(q) => i = Len(q')
        BY <1>3, <1>4
      <3> QED BY <1>0, <1>3, <1>4, <2>2, <3>1 DEF QueueInv
    <2>4. on' /\ srv' \notin Stopped => Arrived + 1 + Len(q') = made'
      <3>1. on /\ srv \notin Stopped => Arrived + 0 + Len(q) = made
        BY <1>3, <2>2 DEF QueueInv
      <3>2. Arrived + 1 + Len(q') = Arrived + 0 + Len(q)
        BY <1>3, <1>4
      <3> QED BY <1>0, <3>1, <3>2
    <2> QED BY <1>3, <2>2, <2>3, <2>4 DEF QueueInv
  <1> QED BY <1>5, <1>6, <1>7

(* A value goes on to be pushed unless the stream has ended; an end or an error
   ends it. *)
LEMMA FlowDispatch ==
  ASSUME TypeOK, PhaseInv, SeenInv, HandInv, QueueInv, SubDispatch
  PROVE  SeenInv' /\ HandInv' /\ QueueInv'
  <1>0. /\ pc["sub"] = "dispatch" /\ ended' \in BOOLEAN /\ (ended => ended')
        /\ UNCHANGED <<handler, on, q, msg, got, buf, made, srv>>
    BY DEF SubDispatch, Settle, At, wire, server, consumer, TypeOK
  <1>1. pc'["watch"] = pc["watch"]
    BY DEF SubDispatch, Settle, Goto, TypeOK, Goroutines
  <1>2. \/ ended' /\ pc'["sub"] \in {"close", "err", "drop", "idle"} /\ (pc'["sub"] = "err" => ~ended)
        \/ ~ended /\ ended' = ended /\ pc'["sub"] = "push" /\ msg.type = "data"
    BY DEF SubDispatch, Settle, Goto, TypeOK, Goroutines
  <1>3. CASE ended' /\ pc'["sub"] \in {"close", "err", "drop", "idle"} /\ (pc'["sub"] = "err" => ~ended)
    BY <1>0, <1>1, <1>3, LengthTypes, QuietFlow
  <1>4. CASE ~ended /\ ended' = ended /\ pc'["sub"] = "push" /\ msg.type = "data"
    <2>1. Arrived' = Arrived /\ (HasError' <=> HasError) /\ InHand' = InHand
      BY <1>0, <1>4 DEF Arrived, HasError, InHand
    <2>2. msg = Data(Arrived + 1)
      BY <1>0, <1>4, MessageKinds DEF HandInv
    <2>3. SeenInv'
      BY <1>0, <1>1, <1>4, <2>1 DEF SeenInv
    <2>4. HandInv'
      BY <1>0, <1>4, <2>1, <2>2 DEF HandInv
    <2>5. QueueInv'
      BY <1>0, <1>4, <2>1 DEF QueueInv
    <2> QED BY <2>3, <2>4, <2>5
  <1> QED BY <1>2, <1>3, <1>4

(* Where an appended message is found. *)
LEMMA Appended ==
  ASSUME NEW s \in Seq(Messages), NEW m \in Messages
  PROVE  /\ Len(Append(s, m)) = Len(s) + 1 /\ Len(s) \in Nat /\ Append(s, m)[Len(s) + 1] = m
         /\ \A i \in 1..Len(s) : Append(s, m)[i] = s[i]
  OBVIOUS

(* A send that adds nothing to the buffer found the channel closed. *)
LEMMA SendPanics ==
  ASSUME TypeOK, NEW m \in Messages, Send(m), buf' = buf
  PROVE  closed
  BY Appended DEF Send, TypeOK

(* The value in hand is the next one of the channel. *)
LEMMA FlowPush ==
  ASSUME TypeOK, PhaseInv, SeenInv, HandInv, QueueInv, SubPush
  PROVE  SeenInv' /\ HandInv' /\ QueueInv'
  <1>0. /\ pc["sub"] = "push" /\ UNCHANGED <<ended, handler, on, q, msg, got, made, srv>>
        /\ buf' = buf \/ buf' = Append(buf, msg)
    BY DEF SubPush, Send, At, wire, server, consumer
  <1>1. pc'["watch"] = pc["watch"] /\ pc'["sub"] = "idle"
    BY DEF SubPush, Goto, TypeOK, Goroutines
  <1>2. msg = Data(Arrived + 1) /\ ~HasError /\ Lengths /\ Arrived \in Nat
    BY <1>0, LengthTypes DEF HandInv, SeenInv, Lengths, Arrived
  <1>3. CASE buf' = buf
    <2>1. ended \/ ~handler
      BY <1>3, <1>0, SendPanics DEF SubPush, PhaseInv, TypeOK
    <2>2. Arrived' = Arrived /\ (HasError' <=> HasError)
      BY <1>0, <1>3 DEF Arrived, HasError
    <2> QED BY <1>0, <1>1, <1>3, <2>1, <2>2 DEF SeenInv, HandInv, QueueInv
  <1>4. CASE buf' = Append(buf, msg)
    <2>1. /\ Len(buf') = Len(buf) + 1 /\ buf'[Len(buf) + 1] = msg
          /\ \A i \in 1..Len(buf) : buf'[i] = buf[i]
      BY <1>4, Appended DEF TypeOK
    <2>2. Arrived' = Arrived + 1 /\ InHand = 1 /\ InHand' = 0
      BY <1>0, <1>1, <1>2, <2>1 DEF Arrived, Lengths, InHand
    <2>3. \A i \in 1..Len(got) : got'[i] = Data(i)
      BY <1>0, <1>2 DEF SeenInv, HasError, Lengths
    <2>4. \A i \in 1..Len(buf') : buf'[i] = Data(Len(got) + i)
      <3>1. \A i \in 1..Len(buf) : buf[i] = Data(Len(got) + i)
        BY <1>2 DEF SeenInv, HasError, Lengths
      <3>2. msg = Data(Len(got) + (Len(buf) + 1))
        BY <1>2 DEF Arrived, Lengths
      <3> QED BY <1>2, <2>1, <3>1, <3>2 DEF Lengths
    <2>5. ~HasError'
      BY <1>0, <1>2, <2>1, <2>3, MessageKinds DEF HasError, Lengths
    <2>6. SeenInv'
      BY <1>0, <2>3, <2>4, <2>5 DEF SeenInv
    <2>7. HandInv'
      BY <1>1 DEF HandInv
    <2>8. QueueInv'
      <3>1. \A i \in Nat : Arrived + InHand + i = Arrived' + InHand' + i
        BY <1>2, <2>2
      <3> QED BY <1>0, <1>2, <2>2, <3>1 DEF QueueInv, Lengths
    <2> QED BY <2>6, <2>7, <2>8
  <1> QED BY <1>0, <1>3, <1>4

(* handler.error(): the error is the last of what the consumer sees. *)
LEMMA FlowError ==
  ASSUME TypeOK, PhaseInv, SeenInv, HandInv, QueueInv,
         NEW g \in {"sub", "watch"}, SendError(g)
  PROVE  SeenInv' /\ HandInv' /\ QueueInv'
  <1>0. /\ pc[g] = "err" /\ UNCHANGED <<ended, handler, on, q, msg, got, made, srv>>
        /\ buf' = buf \/ buf' = Append(buf, ErrorMsg)
    BY DEF SendError, Send, At, wire, server, consumer
  <1>1. /\ pc'["watch"] # "err" /\ pc'["sub"] \notin {"push", "err", "dispatch"} /\ ended
        /\ ~HasError /\ Lengths
    <2>1. Lengths /\ ended /\ ~HasError
      BY <1>0, LengthTypes DEF SeenInv, PhaseInv
    <2>2. CASE g = "sub"
      <3>1. pc'["sub"] = "close" /\ pc'["watch"] = pc["watch"]
        BY <2>2 DEF SendError, Goto, TypeOK, Goroutines
      <3>2. pc["watch"] # "err"
        BY <1>0, <2>2 DEF PhaseInv
      <3> QED BY <2>1, <3>1, <3>2
    <2>3. CASE g = "watch"
      <3>1. pc'["watch"] = "close" /\ pc'["sub"] = pc["sub"]
        BY <2>3 DEF SendError, Goto, TypeOK, Goroutines
      <3>2. pc["sub"] = "idle"
        BY <1>0, <2>3 DEF PhaseInv
      <3> QED BY <2>1, <3>1, <3>2
    <2> QED BY <2>2, <2>3
  <1>2. HandInv' /\ QueueInv'
    BY <1>0, <1>1 DEF HandInv, QueueInv
  <1>3. SeenInv'
    <2>1. CASE buf' = buf
      BY <1>0, <1>1, <2>1 DEF SeenInv, HasError
    <2>2. CASE buf' = Append(buf, ErrorMsg)
      <3>1. /\ Len(buf') = Len(buf) + 1 /\ buf'[Len(buf) + 1] = ErrorMsg
            /\ \A i \in 1..Len(buf) : buf'[i] = buf[i]
        BY <2>2, Appended, MessageTypes DEF TypeOK
      <3>2. \A i \in 1..Len(got) : got[i] = Data(i)
        BY <1>1 DEF SeenInv, HasError, Lengths
      <3>3. \A i \in 1..Len(buf) : buf[i] = Data(Len(got) + i)
        BY <1>1 DEF SeenInv, HasError, Lengths
      <3>4. \A i \in 1..Len(buf') : buf'[i] = Data(Len(got) + i) \/ (buf'[i] = ErrorMsg /\ i = Len(buf'))
        BY <1>1, <3>1, <3>3 DEF Lengths
      <3> QED BY <1>0, <1>1, <3>2, <3>4 DEF SeenInv
    <2> QED BY <1>0, <2>1, <2>2
  <1> QED BY <1>2, <1>3

(* The server publishes: the queue grows by the next message, if the
   subscription still exists. *)
LEMMA FlowServer ==
  ASSUME TypeOK, PhaseInv, SeenInv, HandInv, QueueInv,
         SrvStart \/ SrvRecv \/ SrvFinish \/ SrvFail
  PROVE  SeenInv' /\ HandInv' /\ QueueInv'
  <1>0. UNCHANGED <<pc, msg, ended, handler, on, got, buf>> /\ srv \notin Stopped
    BY DEF SrvStart, SrvRecv, SrvFinish, SrvFail, client, consumer, Stopped
  <1>1. /\ Arrived' = Arrived /\ (HasError' <=> HasError) /\ InHand' = InHand
        /\ Lengths /\ Arrived \in Nat /\ InHand \in Nat
    BY <1>0, LengthTypes DEF Arrived, HasError, InHand, Lengths
  <1>2. SeenInv'
    BY <1>0, <1>1 DEF SeenInv
  <1>3. HandInv'
    BY <1>0, <1>1 DEF HandInv, Stopped
  <1>4. QueueInv'
    <2>1. CASE ~on
      <3>1. q = <<>> /\ q' = q
        BY <2>1 DEF PhaseInv, SrvStart, SrvRecv, SrvFinish, SrvFail, Deliver
      <3> QED BY <1>0, <2>1, <3>1 DEF QueueInv
    <2>2. CASE on /\ handler /\ ~ended
      <3>1. /\ \A i \in 1..Len(q) : q[i] = Data(Arrived + InHand + i)
            /\ Arrived + InHand + Len(q) = made
        BY <1>0, <2>2 DEF QueueInv, Stopped
      <3>2. CASE SrvRecv /\ q' = Append(q, Data(made + 1)) /\ made' = made + 1 /\ srv' = "run"
        <4>1. Data(made + 1) \in Messages
          BY <1>1, <3>2, MessageTypes, StreamAssumption DEF SrvRecv, TypeOK
        <4>2. /\ Len(q') = Len(q) + 1 /\ q'[Len(q) + 1] = Data(made + 1)
              /\ \A i \in 1..Len(q) : q'[i] = q[i]
          BY <3>2, <4>1, Appended DEF TypeOK
        <4>3. made + 1 = Arrived + InHand + (Len(q) + 1)
          BY <1>1, <3>1 DEF Lengths
        <4>4. \A i \in 1..Len(q') : q'[i] = Data(Arrived + InHand + i)
          <5>1. SUFFICES ASSUME NEW i \in 1..Len(q')
                         PROVE  q'[i] = Data(Arrived + InHand + i)
            OBVIOUS
          <5>2. i \in 1..Len(q) \/ i = Len(q) + 1
            BY <1>1, <4>2 DEF Lengths
          <5> QED BY <3>1, <4>2, <4>3, <5>2
        <4>5. srv' \notin Stopped
          BY <3>2 DEF Stopped
        <4> QED BY <1>1, <3>2, <4>2, <4>3, <4>4 DEF QueueInv
      <3>3. ASSUME NEW m \in Messages, q' = Append(q, m), made' = made,
                   (m = EndMsg /\ srv' = "done") \/ (m = ErrorMsg /\ srv' = "failed")
            PROVE  QueueInv'
        <4>1. /\ Len(q') = Len(q) + 1 /\ q'[Len(q) + 1] = m
              /\ \A i \in 1..Len(q) : q'[i] = q[i]
          BY <3>3, Appended DEF TypeOK
        <4>2. made + 1 = Arrived + InHand + (Len(q) + 1)
          BY <1>1, <3>1 DEF Lengths
        <4>3. \A i \in 1..Len(q') :
                  q'[i] = Data(Arrived + InHand + i) \/ (i = Len(q') /\ q'[i] = m)
          <5>1. \A i \in 1..Len(q') : i \in 1..Len(q) \/ i = Len(q) + 1
            BY <1>1, <4>1 DEF Lengths
          <5> QED BY <3>1, <4>1, <5>1
        <4>4. srv' \in Stopped
          BY <3>3 DEF Stopped
        <4> QED BY <1>1, <3>3, <4>1, <4>2, <4>3, <4>4 DEF QueueInv
      <3>4. CASE UNCHANGED <<q, made>>
        <4>1. \A i \in 1..Len(q') : q'[i] = Data(Arrived' + InHand' + i)
          BY <1>1, <3>1, <3>4
        <4>2. Arrived' + InHand' + Len(q') = made'
          BY <1>1, <3>1, <3>4
        <4> QED BY <4>1, <4>2 DEF QueueInv
      <3>5. CASE SrvStart
        BY <2>2, <3>3, <3>4, <3>5, MessageTypes DEF SrvStart, Deliver
      <3>6. CASE SrvRecv
        BY <2>2, <3>2, <3>4, <3>6 DEF SrvRecv, Deliver
      <3>7. CASE SrvFinish
        <4>1. \/ UNCHANGED <<q, made>>
              \/ q' = Append(q, EndMsg) /\ made' = made /\ srv' = "done"
          <5>1. made' = made
            BY <3>7 DEF SrvFinish
          <5>2. CASE cancelled \/ gone
            <6>1. q' = q
              BY <3>7, <5>2 DEF SrvFinish
            <6> QED BY <5>1, <6>1
          <5>3. CASE ~(cancelled \/ gone)
            <6>1. srv' = "done" /\ Deliver(EndMsg)
              BY <3>7, <5>3 DEF SrvFinish
            <6> QED BY <2>2, <5>1, <5>3, <6>1 DEF Deliver
          <5> QED BY <5>2, <5>3
        <4>2. EndMsg \in Messages
          BY MessageTypes
        <4>3. CASE UNCHANGED <<q, made>>
          BY <3>4, <4>3
        <4>4. CASE q' = Append(q, EndMsg) /\ made' = made /\ srv' = "done"
          BY <3>3, <4>2, <4>4
        <4> QED BY <4>1, <4>3, <4>4
      <3>8. CASE SrvFail
        BY <2>2, <3>3, <3>4, <3>8, MessageTypes DEF SrvFail, Deliver
      <3> QED BY <3>5, <3>6, <3>7, <3>8
    <2>3. CASE ~handler \/ ended
      BY <1>0, <2>3 DEF QueueInv
    <2> QED BY <2>1, <2>2, <2>3
  <1> QED BY <1>2, <1>3, <1>4

LEMMA EmptySeq ==
  ASSUME NEW s \in Seq(Messages)
  PROVE  s = <<>> <=> Len(s) = 0
  OBVIOUS

(* The consumer moves the head of the buffer to what it received. *)
LEMMA FlowConsume ==
  ASSUME TypeOK, PhaseInv, SeenInv, HandInv, QueueInv, Consume
  PROVE  SeenInv' /\ HandInv' /\ QueueInv' /\ Arrived' = Arrived /\ (HasError => HasError')
  <1>0. UNCHANGED <<pc, msg, ended, handler, on, q, made, srv>>
    BY DEF Consume, wire, server
  <1>1. CASE UNCHANGED <<got, buf>>
    BY <1>0, <1>1 DEF SeenInv, HandInv, QueueInv, Arrived, InHand, HasError
  <1>2. CASE buf # <<>> /\ got' = Append(got, Head(buf)) /\ buf' = Tail(buf)
    <2>1. /\ Head(buf) = buf[1] /\ Len(buf) \in Nat \ {0} /\ Len(buf') = Len(buf) - 1
          /\ Head(buf) \in Messages /\ \A i \in 1..Len(buf') : buf'[i] = buf[i + 1]
      BY <1>2, SeqShrinks DEF TypeOK
    <2>2. /\ Len(got') = Len(got) + 1 /\ Len(got) \in Nat /\ got'[Len(got) + 1] = buf[1]
          /\ \A i \in 1..Len(got) : got'[i] = got[i]
      BY <1>2, <2>1, Appended DEF TypeOK
    <2>3. Arrived' = Arrived /\ InHand' = InHand
      BY <1>0, <2>1, <2>2 DEF Arrived, InHand
    <2>4. \A i \in 1..Len(got) : got[i] = Data(i)
      BY <1>2 DEF SeenInv
    <2>5. buf' = <<>> <=> Len(buf) = 1
      <3>1. buf' \in Seq(Messages) /\ (buf' = <<>> <=> Len(buf') = 0)
        BY <1>2, SeqShrinks, EmptySeq DEF TypeOK
      <3> QED BY <2>1, <3>1
    <2>6. \A i \in 1..Len(got') : got'[i] = Data(i) \/ (got'[i] = ErrorMsg /\ i = Len(got') /\ buf' = <<>>)
      <3>1. buf[1] = Data(Len(got) + 1) \/ (buf[1] = ErrorMsg /\ Len(buf) = 1)
        BY <2>1 DEF SeenInv
      <3> QED BY <2>2, <2>4, <2>5, <3>1
    <2>7. \A i \in 1..Len(buf') : buf'[i] = Data(Len(got') + i) \/ (buf'[i] = ErrorMsg /\ i = Len(buf'))
      <3>1. SUFFICES ASSUME NEW i \in 1..Len(buf')
                     PROVE  buf'[i] = Data(Len(got') + i) \/ (buf'[i] = ErrorMsg /\ i = Len(buf'))
        OBVIOUS
      <3>2. buf'[i] = buf[i + 1] /\ i \in Nat
        BY <2>1
      <3>3. i + 1 \in 1..Len(buf) /\ (i + 1 = Len(buf) => i = Len(buf'))
        BY <2>1
      <3>4. Len(got) + (i + 1) = Len(got') + i
        BY <2>2, <3>2
      <3> QED BY <3>2, <3>3, <3>4 DEF SeenInv
    <2>8. HasError <=> HasError'
      <3>1. ~(Len(got) > 0 /\ got[Len(got)] = ErrorMsg)
        BY <2>2, <2>4, MessageKinds
      <3>2. HasError <=> buf[Len(buf)] = ErrorMsg
        BY <2>1, <3>1 DEF HasError
      <3>3. CASE Len(buf) = 1
        BY <2>1, <2>2, <3>2, <3>3 DEF HasError
      <3>4. CASE Len(buf) # 1
        <4>1. Len(buf') > 0 /\ buf'[Len(buf')] = buf[Len(buf)]
          BY <2>1, <3>4
        <4>2. got'[Len(got')] # ErrorMsg
          <5>1. 1 \in 1..Len(buf) /\ 1 # Len(buf)
            BY <2>1, <3>4
          <5>2. buf[1] = Data(Len(got) + 1)
            BY <5>1 DEF SeenInv
          <5> QED BY <2>2, <5>2, MessageKinds
        <4> QED BY <3>2, <4>1, <4>2 DEF HasError
      <3> QED BY <3>3, <3>4
    <2>9. SeenInv'
      BY <1>0, <2>6, <2>7, <2>8 DEF SeenInv
    <2>10. HandInv' /\ QueueInv'
      BY <1>0, <2>3 DEF HandInv, QueueInv
    <2> QED BY <2>3, <2>8, <2>9, <2>10
  <1> QED BY <1>1, <1>2 DEF Consume

LEMMA FlowNext ==
    TypeOK /\ PhaseInv /\ SeenInv /\ HandInv /\ QueueInv /\ [Next]_vars => SeenInv' /\ HandInv' /\ QueueInv'
  <1> SUFFICES ASSUME TypeOK, PhaseInv, SeenInv, HandInv, QueueInv, [Next]_vars
               PROVE  SeenInv' /\ HandInv' /\ QueueInv'
    OBVIOUS
  <1>1. CASE SubNext
    BY <1>1, FlowTake
  <1>2. CASE SubDispatch
    BY <1>2, FlowDispatch
  <1>3. CASE SubPush
    BY <1>3, FlowPush
  <1>4. CASE SendError("sub") \/ SendError("watch")
    BY <1>4, FlowError
  <1>5. CASE SrvStart \/ SrvRecv \/ SrvFinish \/ SrvFail
    BY <1>5, FlowServer
  <1>6. CASE Consume
    BY <1>6, FlowConsume
  <1>7. CASE StoreHandler \/ SubscribeStream
    BY <1>7, FlowStart
  <1> QED BY <1>1, <1>2, <1>3, <1>4, <1>5, <1>6, <1>7, FlowQuiet
       DEF Next, Call, Sub, Ctx, Watch, Down, Srv

(* Whoever closes the channel has a reason to; a step that moves no message and
   closes nothing. *)
LEMMA QuietEnd ==
  ASSUME EndInv, UNCHANGED <<got, buf, made>>, done => done',
         pc["down"] # "none" => pc'["down"] # "none", ended => ended',
         srv = "done" => srv' = "done",
         pc["call"] = "failed" => pc'["call"] = "failed",
         pc'["sub"] \in {"push", "err"} => pc["sub"] \in {"push", "err"} \/ ~ended,
         closed' => closed \/ pc'["call"] = "failed" \/ MayClose',
         pc'["sub"] = "close" => pc["sub"] = "close" \/ MayClose',
         pc'["watch"] = "close" => pc["watch"] = "close" \/ MayClose'
  PROVE  EndInv'
  <1>1. MayClose => MayClose'
    BY ReasonStays
  <1> QED BY <1>1 DEF EndInv

LEMMA EndQuiet ==
  ASSUME TypeOK, PhaseInv, EndInv,
         StoreStatus
           \/ PublishRequest
           \/ CheckNoResponder
           \/ Undo
           \/ MuxStatus
           \/ SubDrop
           \/ Cancel
           \/ CtxTake
           \/ CtxCancel
           \/ CtxSettle
           \/ CtxDrop
           \/ WatchSelect
           \/ WatchSettle
           \/ DownStart
           \/ DownRange
           \/ DownSettle
           \/ DownDrop
           \/ DownUnsub
           \/ DownClose
           \/ DownNil
           \/ SrvCheck
           \/ SrvCancel
           \/ SrvGone
           \/ UNCHANGED vars
           \/ StoreHandler
           \/ SubscribeStream
           \/ SubNext
           \/ SrvStart
           \/ SrvFinish
           \/ SrvFail
  PROVE  EndInv'
  <1>p. pc \in [Goroutines -> Labels]
    BY DEF TypeOK
  <1>1. CASE StoreStatus
    BY <1>1, <1>p, QuietEnd DEF StoreStatus, At, Goto, wire, server, consumer, Goroutines
  <1>2. CASE PublishRequest
    BY <1>2, <1>p, QuietEnd DEF PublishRequest, At, Goto, client, consumer, Goroutines, PhaseInv
  <1>3. CASE CheckNoResponder
    BY <1>3, <1>p, QuietEnd DEF CheckNoResponder, At, Goto, wire, server, consumer, Goroutines
  <1>4. CASE Undo
    BY <1>4, <1>p, QuietEnd DEF Undo, Unsubscribed, At, Goto, server, consumer, Goroutines
  <1>5. CASE MuxStatus
    BY <1>5, <1>p, QuietEnd DEF MuxStatus, server, consumer, Goroutines
  <1>6. CASE SubDrop
    BY <1>6, <1>p, QuietEnd DEF SubDrop, At, Goto, wire, server, consumer, Goroutines, PhaseInv
  <1>7. CASE Cancel
    BY <1>7, <1>p, QuietEnd DEF Cancel, client, wire, server, consumer, Goroutines
  <1>8. CASE CtxTake
    BY <1>8, <1>p, QuietEnd DEF CtxTake, At, Goto, wire, server, consumer, Goroutines
  <1>9. CASE CtxCancel
    BY <1>9, <1>p, QuietEnd DEF CtxCancel, At, Goto, client, server, consumer, Goroutines
  <1>10. CASE CtxSettle
    BY <1>10, <1>p, QuietEnd DEF CtxSettle, Settle, At, Goto, wire, server, consumer, Goroutines
  <1>11. CASE CtxDrop
    BY <1>11, <1>p, QuietEnd DEF CtxDrop, Unsubscribed, At, Goto, server, consumer, Goroutines
  <1>12. CASE WatchSelect
    BY <1>12, <1>p, QuietEnd DEF WatchSelect, At, Goto, wire, server, consumer, Goroutines
  <1>13. CASE WatchSettle
    BY <1>13, <1>p, QuietEnd DEF WatchSettle, Settle, At, Goto, wire, server, consumer, Goroutines, PhaseInv
  <1>14. CASE DownStart
    BY <1>14, <1>p, QuietEnd DEF DownStart, At, Goto, wire, server, consumer, Goroutines
  <1>15. CASE DownRange
    BY <1>15, <1>p, QuietEnd DEF DownRange, At, Goto, client, wire, server, consumer, Goroutines
  <1>16. CASE DownSettle
    BY <1>16, <1>p, QuietEnd DEF DownSettle, Settle, At, Goto, wire, server, consumer, Goroutines
  <1>17. CASE DownDrop
    BY <1>17, <1>p, QuietEnd DEF DownDrop, At, Goto, wire, server, consumer, Goroutines
  <1>18. CASE DownUnsub
    BY <1>18, <1>p, QuietEnd DEF DownUnsub, Unsubscribed, At, Goto, client, server, consumer, Goroutines
  <1>19. CASE DownClose
    BY <1>19, <1>p, QuietEnd DEF DownClose, Unsubscribed, At, Goto, client, server, consumer, Goroutines
  <1>20. CASE DownNil
    BY <1>20, <1>p, QuietEnd DEF DownNil, At, Goto, client, server, consumer, Goroutines
  <1>21. CASE SrvCheck
    BY <1>21, <1>p, QuietEnd DEF SrvCheck, client, wire, consumer, Goroutines
  <1>22. CASE SrvCancel
    BY <1>22, <1>p, QuietEnd DEF SrvCancel, client, consumer, Goroutines
  <1>23. CASE UNCHANGED vars
    BY <1>23, <1>p, QuietEnd DEF vars, client, wire, server, consumer, Goroutines
  <1>24. CASE StoreHandler
    BY <1>24, <1>p, QuietEnd DEF StoreHandler, At, Goto, wire, server, consumer, Goroutines
  <1>25. CASE SubscribeStream
    BY <1>25, <1>p, QuietEnd DEF SubscribeStream, At, Goto, server, consumer, Goroutines
  <1>26. CASE SubNext
    BY <1>26, <1>p, QuietEnd DEF SubNext, At, Goto, client, server, consumer, Goroutines
  <1>27. CASE SrvStart
    BY <1>27, <1>p, QuietEnd DEF SrvStart, Deliver, client, consumer, Goroutines
  <1>28. CASE SrvFinish
    BY <1>28, <1>p, QuietEnd DEF SrvFinish, Deliver, client, consumer, Goroutines
  <1>29. CASE SrvFail
    BY <1>29, <1>p, QuietEnd DEF SrvFail, Deliver, client, consumer, Goroutines
  <1>30. CASE SrvGone
    BY <1>30, <1>p, QuietEnd DEF SrvGone, client, wire, consumer, Goroutines
  <1> QED BY <1>1, <1>2, <1>3, <1>4, <1>5, <1>6, <1>7, <1>8, <1>9, <1>10, <1>11, <1>12, <1>13, <1>14, <1>15,
        <1>16, <1>17, <1>18, <1>19, <1>20, <1>21, <1>22, <1>23, <1>24, <1>25, <1>26, <1>27, <1>28, <1>29, <1>30

(* The goroutine that closes had its reason. *)
LEMMA EndClose ==
  ASSUME TypeOK, PhaseInv, EndInv,
         \/ CloseBy("call", "failed") \/ CloseBy("sub", "drop") \/ CloseBy("ctx", "drop")
         \/ CloseBy("watch", "done") \/ CloseBy("down", "drop")
  PROVE  EndInv'
  <1>p. pc \in [Goroutines -> Labels]
    BY DEF TypeOK
  <1>0. UNCHANGED <<got, buf, made, done, ended, srv>>
    BY DEF CloseBy, server, consumer
  <1>1. CASE CloseBy("call", "failed")
    BY <1>0, <1>1, <1>p, QuietEnd DEF CloseBy, At, Goto, Goroutines
  <1>2. CASE CloseBy("sub", "drop")
    <2>1. MayClose
      BY <1>2 DEF CloseBy, At, EndInv
    <2>2. pc'["sub"] = "drop" /\ \A g \in {"call", "watch", "down"} : pc'[g] = pc[g]
      BY <1>2, <1>p DEF CloseBy, Goto, Goroutines
    <2>3. MayClose'
      BY <1>0, <2>1, <2>2, ReasonStays
    <2> QED BY <2>2, <2>3 DEF EndInv
  <1>3. CASE CloseBy("ctx", "drop")
    <2>1. MayClose'
      BY <1>0, <1>3 DEF CloseBy, At, PhaseInv, MayClose
    <2> QED BY <2>1 DEF EndInv
  <1>4. CASE CloseBy("watch", "done")
    <2>1. MayClose
      BY <1>4 DEF CloseBy, At, EndInv
    <2>2. \A g \in {"call", "sub", "down"} : pc'[g] = pc[g]
      BY <1>4, <1>p DEF CloseBy, Goto, Goroutines
    <2>3. MayClose'
      BY <1>0, <2>1, <2>2, ReasonStays
    <2> QED BY <2>3 DEF EndInv
  <1>5. CASE CloseBy("down", "drop")
    <2>1. MayClose'
      BY <1>5, <1>p DEF CloseBy, Goto, Goroutines, MayClose
    <2> QED BY <2>1 DEF EndInv
  <1> QED BY <1>1, <1>2, <1>3, <1>4, <1>5

(* The end message is dispatched when every value has arrived. *)
LEMMA EndDispatch ==
  ASSUME TypeOK, PhaseInv, HandInv, EndInv, SubDispatch
  PROVE  EndInv'
  <1>p. pc \in [Goroutines -> Labels]
    BY DEF TypeOK
  <1>0. pc["sub"] = "dispatch" /\ UNCHANGED <<got, buf, made, done, closed, srv>> /\ (ended => ended')
    BY DEF SubDispatch, Settle, At, server, consumer
  <1>1. \A g \in {"call", "watch", "down"} : pc'[g] = pc[g]
    BY <1>p DEF SubDispatch, Settle, Goto, Goroutines
  <1>2. \/ pc'["sub"] \in {"idle", "drop"}
        \/ ~ended /\ pc'["sub"] \in {"push", "err"}
        \/ ~ended /\ ended' /\ pc'["sub"] = "close" /\ msg.type = "end"
    BY <1>p DEF SubDispatch, Settle, Goto, Goroutines
  <1>3. CASE pc'["sub"] \in {"idle", "drop"} \/ (~ended /\ pc'["sub"] \in {"push", "err"})
    BY <1>0, <1>1, <1>3, QuietEnd
  <1>4. CASE ~ended /\ ended' /\ pc'["sub"] = "close" /\ msg.type = "end"
    <2>1. srv = "done" /\ Arrived = made
      BY <1>0, <1>4, MessageKinds DEF HandInv
    <2>2. MayClose'
      BY <1>0, <1>4, <2>1 DEF MayClose, Finished, Arrived
    <2> QED BY <2>2 DEF EndInv
  <1> QED BY <1>2, <1>3, <1>4

(* What is added to the buffer takes away no reason to close. *)
LEMMA EndPush ==
  ASSUME TypeOK, PhaseInv, SeenInv, EndInv, SubPush
  PROVE  EndInv'
  <1>p. pc \in [Goroutines -> Labels]
    BY DEF TypeOK
  <1>0. pc["sub"] = "push" /\ UNCHANGED <<done, closed>>
    BY DEF SubPush, At
  <1>1. pc'["sub"] = "idle" /\ \A g \in {"call", "watch", "down"} : pc'[g] = pc[g]
    BY <1>p DEF SubPush, Goto, Goroutines
  <1>2. MayClose => MayClose'
    BY <1>0, <1>1 DEF MayClose, Finished, SeenInv
  <1> QED BY <1>0, <1>1, <1>2 DEF EndInv

(* The error that was sent is the reason. *)
LEMMA EndError ==
  ASSUME TypeOK, PhaseInv, SeenInv, EndInv, NEW g \in {"sub", "watch"}, SendError(g)
  PROVE  EndInv'
  <1>p. pc \in [Goroutines -> Labels]
    BY DEF TypeOK
  <1>0. pc[g] = "err" /\ UNCHANGED <<done, closed, got>> /\ pc'["down"] = pc["down"] /\ Send(ErrorMsg)
    BY <1>p DEF SendError, At, Goto, Goroutines, consumer
  <1>1. MayClose'
    <2>1. CASE closed
      <3>1. pc["call"] # "failed"
        BY <1>0 DEF PhaseInv
      <3>2. MayClose /\ ~HasError
        BY <1>0, <2>1, <3>1 DEF EndInv, SeenInv
      <3>3. ~Finished
        BY <1>0 DEF Finished, PhaseInv
      <3> QED BY <1>0, <3>2, <3>3 DEF MayClose
    <2>2. CASE ~closed
      <3>1. buf' = Append(buf, ErrorMsg)
        BY <1>0, <2>2 DEF Send
      <3>2. Len(buf') > 0 /\ buf'[Len(buf')] = ErrorMsg
        BY <3>1, Appended, MessageTypes DEF TypeOK
      <3> QED BY <3>2 DEF MayClose, HasError
    <2> QED BY <2>1, <2>2
  <1> QED BY <1>1 DEF EndInv

LEMMA EndNext ==
    TypeOK /\ PhaseInv /\ SeenInv /\ HandInv /\ QueueInv /\ EndInv /\ [Next]_vars => EndInv'
  <1> SUFFICES ASSUME TypeOK, PhaseInv, SeenInv, HandInv, QueueInv, EndInv, [Next]_vars PROVE EndInv'
    OBVIOUS
  <1>1. CASE SubDispatch
    BY <1>1, EndDispatch
  <1>2. CASE SubPush
    BY <1>2, EndPush
  <1>3. CASE SendError("sub") \/ SendError("watch")
    BY <1>3, EndError
  <1>4. CASE SrvRecv
    <2>1. srv = "recv" /\ UNCHANGED <<pc, got, buf, done, closed>>
      BY <1>4 DEF SrvRecv, client, consumer
    <2>2. MayClose => MayClose'
      BY <2>1 DEF MayClose, Finished, HasError
    <2> QED BY <2>1, <2>2 DEF EndInv
  <1>5. CASE Consume
    <2>1. Arrived' = Arrived /\ (HasError => HasError')
      BY <1>5, FlowConsume
    <2>2. UNCHANGED <<pc, done, closed, ended, srv, made>>
      BY <1>5 DEF Consume, server
    <2>3. MayClose => MayClose'
      BY <2>1, <2>2 DEF MayClose, Finished
    <2> QED BY <2>2, <2>3 DEF EndInv
  <1> QED BY <1>1, <1>2, <1>3, <1>4, <1>5, EndQuiet, EndClose
       DEF Next, Call, Sub, Ctx, Watch, Down, Srv

LEMMA SilentInit == Init => SilentInv
  <1> SUFFICES ASSUME Init PROVE SilentInv
    OBVIOUS
  <1>1. /\ pc["sub"] = "idle" /\ pc["watch"] = "none" /\ got = <<>> /\ buf = <<>> /\ q = <<>>
        /\ ~handler /\ ~closed
    BY DEF Init, Goroutines
  <1>2. SeenInv /\ HandInv /\ QueueInv /\ EndInv
    BY <1>1 DEF SeenInv, HasError, HandInv, QueueInv, EndInv
  <1> QED BY <1>2, TypeInit, PhaseInit DEF SilentInv

LEMMA SilentNext == SilentInv /\ [Next]_vars => SilentInv'
  BY TypeNext, PhaseNext, FlowNext, EndNext DEF SilentInv

(* What was received, followed by what is buffered, is in order. *)
LEMMA SeenInOrder == TypeOK /\ SeenInv => InOrder
  <1> SUFFICES ASSUME TypeOK, SeenInv, NEW i \in 1..Len(got \o buf)
               PROVE  (got \o buf)[i] = Data(i) \/ ((got \o buf)[i].type = "error" /\ i = Len(got \o buf))
    BY DEF InOrder
  <1>1. /\ got \in Seq(Messages) /\ buf \in Seq(Messages) /\ Len(got) \in Nat /\ Len(buf) \in Nat
        /\ Len(got \o buf) = Len(got) + Len(buf)
        /\ Len(buf) = 0 <=> buf = <<>>
    BY EmptySeq DEF TypeOK
  <1>2. CASE i \in 1..Len(got)
    <2>1. (got \o buf)[i] = got[i]
      BY <1>1, <1>2
    <2> QED BY <1>1, <1>2, <2>1, MessageKinds DEF SeenInv
  <1>3. CASE i \notin 1..Len(got)
    <2>1. i - Len(got) \in 1..Len(buf) /\ Len(got) + (i - Len(got)) = i
      BY <1>1, <1>3
    <2>2. (got \o buf)[i] = buf[i - Len(got)]
      BY <1>1, <1>3, <2>1
    <2>3. i - Len(got) = Len(buf) => i = Len(got \o buf)
      BY <1>1
    <2> QED BY <2>1, <2>2, <2>3, MessageKinds DEF SeenInv
  <1> QED BY <1>2, <1>3

(* For every capacity, stream and set of faults: the consumer sees the server's
   values from the first one on, in order, and a channel that closes without an
   error, although nobody cancelled the stream or tore the client down, means
   that the handler's stream came to its end and every value was received; a
   server that failed, at once or in mid-stream, or went away never looks so. *)
THEOREM NoSilentEndAlways == Spec => []NoSilentEnd
  <1>1. SilentInv => NoSilentEnd
    <2> SUFFICES ASSUME SilentInv PROVE NoSilentEnd
      OBVIOUS
    <2>1. TypeOK /\ InOrder
      BY SeenInOrder DEF SilentInv
    <2>2. ASSUME over, ~done, pc["down"] = "none", ErrorMsg \notin {got[i] : i \in 1..Len(got)}
          PROVE  srv = "done" /\ Len(got) = made
      <3>1. closed /\ buf = <<>> /\ pc["call"] = "return"
        BY <2>2 DEF SilentInv, PhaseInv
      <3>2. Len(got) \in Nat /\ Len(buf) = 0
        BY <3>1 DEF SilentInv, TypeOK
      <3>3. ~HasError
        BY <2>2, <3>2 DEF HasError
      <3>4. Finished
        BY <2>2, <3>1, <3>3 DEF SilentInv, EndInv, MayClose
      <3> QED BY <3>2, <3>4 DEF Finished, Arrived
    <2> QED BY <2>1, <2>2 DEF NoSilentEnd
  <1> QED BY <1>1, SilentInit, SilentNext, PTL DEF Spec
=============================================================================
