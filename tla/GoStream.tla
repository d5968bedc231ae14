------------------------------ MODULE GoStream ------------------------------
(***************************************************************************)
(* One attempt of a push stream of the Go client: callStreamOnce() and the *)
(* goroutines it shares the result channel with, against the Go server's   *)
(* handleStreamRequestGo().                                                *)
(*                                                                         *)
(* Five goroutines of the client run here: "call" (callStreamOnce),        *)
(* "sub" (the goroutine of the NATS subscription on the stream subject),   *)
(* "ctx" (waits for the context), "watch" (waits for a late 503) and       *)
(* "down" (Disconnect or Suspend).  A step is one operation on what they   *)
(* share: a sync.Map, the atomic flag, a channel.  Sending on or closing a *)
(* closed channel panics, which ends the process.                          *)
(***************************************************************************)
EXTENDS Naturals, Sequences

CONSTANTS
    Cap,        \* capacity of the result channel (64 in the code)
    MaxVals,    \* bound: values the handler on the server produces
    Faults      \* what may go wrong: "cancel", "down", "encode", "503", "gone"

ASSUME StreamAssumption ==
    /\ Cap \in Nat \ {0}
    /\ MaxVals \in Nat
    /\ Faults \subseteq {"cancel", "down", "encode", "503", "gone"}

VARIABLES
    pc,         \* where each goroutine is
    handler,    \* the id is in c.streamHandlers
    status,     \* the id is in c.statusHandlers
    ended,      \* the atomic flag ended
    closed,     \* ch is closed
    buf,        \* values buffered in ch
    noResp,     \* noRespCh holds the no-responders error
    statusDone, \* statusDone is closed
    done,       \* ctx.Done() is closed
    nc,         \* c.nc: "up", "closed" (still set) or "nil"
    on,         \* the subscription on the stream subject exists
    q,          \* its messages that were not handled yet
    msg,        \* the message "sub" works on
    r503,       \* a 503 status is on its way to the mux
    srv,        \* where handleStreamRequestGo is
    made,       \* values it published
    cancelled,  \* its flag cancelled
    gone,       \* the server's own client was disconnected, for good
    cancelQ,    \* a cancel message is on its way to it
    got,        \* what the consumer received
    over,       \* the consumer saw the channel closed
    panic       \* "none", "send" or "close"

client == <<handler, status, ended, closed, buf, noResp, statusDone, panic>>
wire == <<nc, on, q, r503, cancelQ>>
server == <<srv, made, cancelled, gone>>
consumer == <<got, over>>
vars == <<pc, msg, done, client, wire, server, consumer>>

Goroutines == {"call", "sub", "ctx", "watch", "down"}
Labels == {"none", "store", "subscribe", "status", "publish", "check", "undo", "return", "failed",
           "idle", "dispatch", "push", "err", "wait", "cancel", "select", "range",
           "cas", "close", "drop", "unsub", "ncclose", "ncnil", "done"}

Data(i) == [type |-> "data", value |-> i]
EndMsg == [type |-> "end"]
ErrorMsg == [type |-> "error"]
Messages == [type : {"data"}, value : 1..MaxVals] \cup {EndMsg, ErrorMsg}

Init ==
    /\ pc = [g \in Goroutines |->
                CASE g = "call" -> "store" [] g = "sub" -> "idle" [] OTHER -> "none"]
    /\ handler = FALSE /\ status = FALSE
    /\ ended = FALSE /\ closed = FALSE /\ buf = <<>>
    /\ noResp = FALSE /\ statusDone = FALSE
    /\ done = FALSE
    /\ nc = "up" /\ on = FALSE /\ q = <<>> /\ msg = EndMsg /\ r503 = FALSE
    /\ srv = "none" /\ made = 0 /\ cancelled = FALSE /\ gone = FALSE /\ cancelQ = FALSE
    /\ got = <<>> /\ over = FALSE
    /\ panic = "none"

At(g, l) == pc[g] = l /\ panic = "none"
Goto(g, l) == pc' = [pc EXCEPT ![g] = l]

-----------------------------------------------------------------------------
(* Operations on the result channel. *)

(* ch <- v blocks while the buffer is full; a sender, also one that already
   waits, panics when the channel is closed. *)
Send(v) ==
    /\ closed \/ Len(buf) < Cap
    /\ IF closed THEN panic' = "send" /\ UNCHANGED buf
                 ELSE buf' = Append(buf, v) /\ UNCHANGED panic

Close ==
    IF closed THEN panic' = "close" /\ UNCHANGED closed
              ELSE closed' = TRUE /\ UNCHANGED panic

(* Mutant of Settle: Load() and a later Store() instead of CompareAndSwap. *)
SettleLoad(g, won, lost) ==
    /\ Goto(g, IF ended THEN lost ELSE won)
    /\ ended' = (ended \/ closed)

(* ended.CompareAndSwap(false, true): g goes to won or to lost. *)
Settle(g, won, lost) ==
    /\ Goto(g, IF ended THEN lost ELSE won)
    /\ ended' = TRUE

(* close(ch) by g, which goes on at next. *)
CloseBy(g, next) ==
    /\ At(g, "close")
    /\ Close
    /\ Goto(g, next)
    /\ UNCHANGED <<msg, done, handler, status, ended, buf, noResp, statusDone, wire, server, consumer>>

(* handler.error() after its CompareAndSwap: the error, then close(ch). *)
SendError(g) ==
    /\ At(g, "err")
    /\ Send(ErrorMsg)
    /\ Goto(g, "close")
    /\ UNCHANGED <<msg, done, handler, status, ended, closed, noResp, statusDone, wire, server, consumer>>

-----------------------------------------------------------------------------
(* callStreamOnce(). *)

StoreHandler ==
    /\ At("call", "store")
    /\ handler' = TRUE
    /\ Goto("call", "subscribe")
    /\ UNCHANGED <<msg, done, status, ended, closed, buf, noResp, statusDone, panic, wire, server, consumer>>

(* c.Subscribe(), then the context goroutine; an error deletes the handler
   and closes ch. *)
SubscribeStream ==
    /\ At("call", "subscribe")
    /\ IF nc = "up"
          THEN /\ on' = TRUE
               /\ pc' = [pc EXCEPT !["call"] = "status", !["ctx"] = "wait"]
               /\ UNCHANGED handler
          ELSE /\ handler' = FALSE
               /\ Goto("call", "close")
               /\ UNCHANGED on
    /\ UNCHANGED <<msg, done, status, ended, closed, buf, noResp, statusDone, panic,
                   nc, q, r503, cancelQ, server, consumer>>

StoreStatus ==
    /\ At("call", "status")
    /\ status' = TRUE
    /\ Goto("call", "publish")
    /\ UNCHANGED <<msg, done, handler, ended, closed, buf, noResp, statusDone, panic, wire, server, consumer>>

(* publishInternal(): the request reaches a handler, or nobody listens and the
   NATS server answers 503, or it fails (no connection, or an argument that
   cannot be encoded). *)
PublishRequest ==
    /\ At("call", "publish")
    /\ \/ nc = "up" /\ ~gone /\ srv' = "requested" /\ Goto("call", "check") /\ UNCHANGED r503
       \/ nc = "up" /\ (gone \/ "503" \in Faults) /\ r503' = TRUE /\ Goto("call", "check") /\ UNCHANGED srv
       \/ (nc # "up" \/ "encode" \in Faults) /\ Goto("call", "undo") /\ UNCHANGED <<srv, r503>>
    /\ UNCHANGED <<msg, done, client, nc, on, q, cancelQ, made, cancelled, gone, consumer>>

(* After Flush(): a 503 already handled by the mux fails the call, otherwise
   a goroutine waits for a late one and the channel is returned. *)
CheckNoResponder ==
    /\ At("call", "check")
    /\ noResp' = FALSE
    /\ IF noResp THEN Goto("call", "undo")
                 ELSE pc' = [pc EXCEPT !["call"] = "return", !["watch"] = "select"]
    /\ UNCHANGED <<msg, done, handler, status, ended, closed, buf, statusDone, panic, wire, server, consumer>>

Unsubscribed == on' = FALSE /\ q' = <<>>

(* The error returns: delete the handlers, closeStatus(), unsub(), and then
   close(ch) without the flag. *)
Undo ==
    /\ At("call", "undo")
    /\ handler' = FALSE /\ status' = FALSE /\ statusDone' = TRUE
    /\ Unsubscribed
    /\ Goto("call", "close")
    /\ UNCHANGED <<msg, done, ended, closed, buf, noResp, panic, nc, r503, cancelQ, server, consumer>>

Call ==
    \/ StoreHandler \/ SubscribeStream \/ StoreStatus
    \/ PublishRequest \/ CheckNoResponder \/ Undo
    \/ CloseBy("call", "failed")

(* handleMuxMessage() gets the 503: the one-shot status handler fills
   noRespCh. *)
MuxStatus ==
    /\ r503 /\ panic = "none"
    /\ r503' = FALSE
    /\ status' = FALSE
    /\ noResp' = (noResp \/ status)
    /\ UNCHANGED <<pc, msg, done, handler, ended, closed, buf, statusDone, panic,
                   nc, on, q, cancelQ, server, consumer>>

-----------------------------------------------------------------------------
(* The goroutine of the subscription. *)

SubNext ==
    /\ At("sub", "idle")
    /\ q # <<>>
    /\ msg' = Head(q) /\ q' = Tail(q)
    /\ IF handler THEN Goto("sub", "dispatch") ELSE UNCHANGED pc
    /\ UNCHANGED <<done, client, nc, on, r503, cancelQ, server, consumer>>

SubDispatch ==
    /\ At("sub", "dispatch")
    /\ \/ /\ msg.type = "data"
          /\ Goto("sub", IF ended THEN "idle" ELSE "push")
          /\ UNCHANGED ended
       \/ msg.type = "end" /\ Settle("sub", "close", "drop")
       \/ msg.type = "error" /\ Settle("sub", "err", "drop")
    /\ UNCHANGED <<msg, done, handler, status, closed, buf, noResp, statusDone, panic, wire, server, consumer>>

SubPush ==
    /\ At("sub", "push")
    /\ Send(msg)
    /\ Goto("sub", "idle")
    /\ UNCHANGED <<msg, done, handler, status, ended, closed, noResp, statusDone, wire, server, consumer>>

SubDrop ==
    /\ At("sub", "drop")
    /\ handler' = FALSE /\ status' = FALSE /\ statusDone' = TRUE
    /\ Goto("sub", "idle")
    /\ UNCHANGED <<msg, done, ended, closed, buf, noResp, panic, wire, server, consumer>>

Sub == SubNext \/ SubDispatch \/ SubPush \/ SendError("sub") \/ CloseBy("sub", "drop") \/ SubDrop

-----------------------------------------------------------------------------
(* The context goroutine and the goroutine for a late 503. *)

Cancel ==
    /\ "cancel" \in Faults /\ ~done /\ panic = "none"
    /\ done' = TRUE
    /\ UNCHANGED <<pc, msg, client, wire, server, consumer>>

CtxTake ==
    /\ At("ctx", "wait") /\ done
    /\ handler' = FALSE
    /\ Goto("ctx", IF handler THEN "cancel" ELSE "drop")
    /\ UNCHANGED <<msg, done, status, ended, closed, buf, noResp, statusDone, panic, wire, server, consumer>>

(* The cancel message reaches the server's handler only if that has
   subscribed to it. *)
CtxCancel ==
    /\ At("ctx", "cancel")
    /\ cancelQ' = (nc = "up" /\ srv \in {"run", "recv", "finish", "error"})
    /\ Goto("ctx", "cas")
    /\ UNCHANGED <<msg, done, client, nc, on, q, r503, server, consumer>>

CtxSettle ==
    /\ At("ctx", "cas")
    /\ Settle("ctx", "close", "drop")
    /\ UNCHANGED <<msg, done, handler, status, closed, buf, noResp, statusDone, panic, wire, server, consumer>>

(* Mutants of CtxDrop: no unsub(); no closeStatus(). *)
CtxDropKeepsSub ==
    /\ At("ctx", "drop")
    /\ status' = FALSE /\ statusDone' = TRUE
    /\ Goto("ctx", "done")
    /\ UNCHANGED <<msg, done, handler, ended, closed, buf, noResp, panic, wire, server, consumer>>

CtxDropKeepsWatch ==
    /\ At("ctx", "drop")
    /\ status' = FALSE
    /\ Unsubscribed
    /\ Goto("ctx", "done")
    /\ UNCHANGED <<msg, done, handler, ended, closed, buf, noResp, statusDone, panic, nc, r503, cancelQ, server, consumer>>

CtxDrop ==
    /\ At("ctx", "drop")
    /\ status' = FALSE /\ statusDone' = TRUE
    /\ Unsubscribed
    /\ Goto("ctx", "done")
    /\ UNCHANGED <<msg, done, handler, ended, closed, buf, noResp, panic, nc, r503, cancelQ, server, consumer>>

Ctx == CtxTake \/ CtxCancel \/ CtxSettle \/ CloseBy("ctx", "drop") \/ CtxDrop

WatchSelect ==
    /\ At("watch", "select")
    /\ \/ /\ noResp
          /\ noResp' = FALSE /\ handler' = FALSE
          /\ Goto("watch", IF handler THEN "cas" ELSE "done")
       \/ /\ statusDone
          /\ Goto("watch", "done")
          /\ UNCHANGED <<noResp, handler>>
    /\ UNCHANGED <<msg, done, status, ended, closed, buf, statusDone, panic, wire, server, consumer>>

WatchSettle ==
    /\ At("watch", "cas")
    /\ Settle("watch", "err", "done")
    /\ UNCHANGED <<msg, done, handler, status, closed, buf, noResp, statusDone, panic, wire, server, consumer>>

Watch == WatchSelect \/ WatchSettle \/ SendError("watch") \/ CloseBy("watch", "done")

-----------------------------------------------------------------------------
(* Disconnect() or Suspend(), once. *)

DownStart ==
    /\ At("down", "none") /\ "down" \in Faults
    /\ status' = FALSE
    /\ Goto("down", "range")
    /\ UNCHANGED <<msg, done, handler, ended, closed, buf, noResp, statusDone, panic, wire, server, consumer>>

(* streamHandlers.Range(): sh.end(), then Delete. *)
DownRange ==
    /\ At("down", "range")
    /\ Goto("down", IF handler THEN "cas" ELSE "unsub")
    /\ UNCHANGED <<msg, done, client, wire, server, consumer>>

DownSettle ==
    /\ At("down", "cas")
    /\ Settle("down", "close", "drop")
    /\ UNCHANGED <<msg, done, handler, status, closed, buf, noResp, statusDone, panic, wire, server, consumer>>

DownDrop ==
    /\ At("down", "drop")
    /\ handler' = FALSE
    /\ Goto("down", "unsub")
    /\ UNCHANGED <<msg, done, status, ended, closed, buf, noResp, statusDone, panic, wire, server, consumer>>

(* Unsubscribe all; nc.Close(); c.nc = nil. *)
DownUnsub ==
    /\ At("down", "unsub")
    /\ Unsubscribed
    /\ Goto("down", "ncclose")
    /\ UNCHANGED <<msg, done, client, nc, r503, cancelQ, server, consumer>>

DownClose ==
    /\ At("down", "ncclose")
    /\ nc' = "closed" /\ r503' = FALSE
    /\ Unsubscribed
    /\ Goto("down", "ncnil")
    /\ UNCHANGED <<msg, done, client, cancelQ, server, consumer>>

DownNil ==
    /\ At("down", "ncnil")
    /\ nc' = "nil"
    /\ Goto("down", "done")
    /\ UNCHANGED <<msg, done, client, on, q, r503, cancelQ, server, consumer>>

Down == DownStart \/ DownRange \/ DownSettle \/ CloseBy("down", "drop") \/ DownDrop
        \/ DownUnsub \/ DownClose \/ DownNil

-----------------------------------------------------------------------------
(* handleStreamRequestGo() and iterateAndPublish() on the server.  srv is
   "done" when the handler's stream ended and the end message is published,
   "left" when nothing was said because of a cancel or a lost connection, and
   "failed" when an error ended it. *)

(* client.Publish() fails once the server's client is disconnected. *)
Deliver(m) == q' = IF on /\ ~gone THEN Append(q, m) ELSE q

(* The handler is called and the cancel listener subscribed; an error of
   either is published at once.  A result that is neither a channel nor a
   slice is an error of iterateAndPublish(). *)
SrvStart ==
    /\ srv = "requested" /\ panic = "none"
    /\ \/ ~gone /\ srv' \in {"run", "error"} /\ UNCHANGED q
       \/ srv' = "failed" /\ Deliver(ErrorMsg)
    /\ UNCHANGED <<pc, msg, done, client, nc, on, r503, cancelQ, made, cancelled, gone, consumer>>

SrvCheck ==
    /\ srv = "run" /\ panic = "none"
    /\ srv' = IF cancelled \/ gone THEN "finish" ELSE "recv"
    /\ UNCHANGED <<pc, msg, done, client, wire, made, cancelled, gone, consumer>>

(* Recv() on the handler's channel gives a value or the end.  The value is
   published, or that fails: it cannot be encoded, or the connection went. *)
SrvRecv ==
    /\ srv = "recv" /\ panic = "none"
    /\ \/ /\ ~gone /\ made < MaxVals
          /\ made' = made + 1
          /\ Deliver(Data(made + 1))
          /\ srv' = "run"
       \/ (gone \/ "encode" \in Faults) /\ srv' = "error" /\ UNCHANGED <<made, q>>
       \/ srv' = "finish" /\ UNCHANGED <<made, q>>
    /\ UNCHANGED <<pc, msg, done, client, nc, on, r503, cancelQ, cancelled, gone, consumer>>

(* iterateAndPublish() returned nil. *)
SrvFinish ==
    /\ srv = "finish" /\ panic = "none"
    /\ IF cancelled \/ gone THEN srv' = "left" /\ UNCHANGED q
                            ELSE srv' = "done" /\ Deliver(EndMsg)
    /\ UNCHANGED <<pc, msg, done, client, nc, on, r503, cancelQ, made, cancelled, gone, consumer>>

(* Mutant of SrvFail: the return is missing, and the end message stands for
   the error. *)
SrvFailEnds ==
    /\ srv = "error" /\ panic = "none"
    /\ IF cancelled \/ gone THEN UNCHANGED q ELSE Deliver(EndMsg)
    /\ srv' = "failed"
    /\ UNCHANGED <<pc, msg, done, client, nc, on, r503, cancelQ, made, cancelled, gone, consumer>>

(* iterateAndPublish() returned an error, perhaps after values. *)
SrvFail ==
    /\ srv = "error" /\ panic = "none"
    /\ IF cancelled \/ gone THEN UNCHANGED q ELSE Deliver(ErrorMsg)
    /\ srv' = "failed"
    /\ UNCHANGED <<pc, msg, done, client, nc, on, r503, cancelQ, made, cancelled, gone, consumer>>

SrvCancel ==
    /\ cancelQ /\ panic = "none"
    /\ cancelQ' = FALSE
    /\ cancelled' = TRUE
    /\ UNCHANGED <<pc, msg, done, client, nc, on, q, r503, srv, made, gone, consumer>>

SrvGone ==
    /\ "gone" \in Faults /\ ~gone /\ panic = "none"
    /\ gone' = TRUE
    /\ UNCHANGED <<pc, msg, done, client, wire, srv, made, cancelled, consumer>>

Srv == SrvStart \/ SrvCheck \/ SrvRecv \/ SrvFinish \/ SrvFail \/ SrvCancel \/ SrvGone

(* The consumer ranges over the channel; it may stop at any time. *)
Consume ==
    /\ pc["call"] = "return" /\ ~over /\ panic = "none"
    /\ \/ /\ buf # <<>>
          /\ got' = Append(got, Head(buf)) /\ buf' = Tail(buf)
          /\ UNCHANGED over
       \/ /\ buf = <<>> /\ closed
          /\ over' = TRUE
          /\ UNCHANGED <<got, buf>>
    /\ UNCHANGED <<pc, msg, done, handler, status, ended, closed, noResp, statusDone, panic, wire, server>>

Next == Call \/ MuxStatus \/ Sub \/ Cancel \/ Ctx \/ Watch \/ Down \/ Srv \/ Consume

Spec == Init /\ [][Next]_vars

(* The Go scheduler runs every goroutine that can go on.  Nothing obliges the
   consumer to read, the application to cancel, or the network to deliver. *)
FairSpec ==
    /\ Spec
    /\ WF_vars(Call) /\ WF_vars(Sub) /\ WF_vars(Ctx) /\ WF_vars(Watch)

-----------------------------------------------------------------------------
(* Properties. *)

TypeOK ==
    /\ pc \in [Goroutines -> Labels]
    /\ handler \in BOOLEAN /\ status \in BOOLEAN
    /\ ended \in BOOLEAN /\ closed \in BOOLEAN
    /\ buf \in Seq(Messages) /\ Len(buf) <= Cap
    /\ noResp \in BOOLEAN /\ statusDone \in BOOLEAN /\ done \in BOOLEAN
    /\ nc \in {"up", "closed", "nil"} /\ on \in BOOLEAN
    /\ q \in Seq(Messages) /\ msg \in Messages
    /\ r503 \in BOOLEAN /\ cancelQ \in BOOLEAN /\ cancelled \in BOOLEAN /\ gone \in BOOLEAN
    /\ srv \in {"none", "requested", "run", "recv", "finish", "error", "done", "left", "failed"}
    /\ made \in 0..MaxVals
    /\ got \in Seq(Messages) /\ over \in BOOLEAN
    /\ panic \in {"none", "send", "close"}

(* The consumer of a stream sees the server's values from the first one on, in
   order and without a gap, and nothing after an error (push, error). *)
InOrder ==
    LET seen == got \o buf
    IN \A i \in 1..Len(seen) :
           seen[i] = Data(i) \/ (seen[i].type = "error" /\ i = Len(seen))

(* Values arrive in order, and a channel that closes without an error although
   nobody cancelled or tore the client down means a whole stream: the handler's
   channel came to its end, the server said so, and every value was received.
   A stream that failed on the server, also in mid-stream, or whose server went
   away, does not look like that (iterateAndPublish, sh.end, sh.error, the
   late-503 watcher). *)
NoSilentEnd ==
    /\ TypeOK /\ InOrder
    /\ (over /\ ~done /\ pc["down"] = "none" /\ ErrorMsg \notin {got[i] : i \in 1..Len(got)})
          => srv = "done" /\ Len(got) = made

Closing(g) == pc[g] \in {"err", "close"}

(* As long as callStreamOnce does not take one of its error returns, the flag
   ended elects at most one goroutine that closes ch, and ch is never closed a
   second time ("CompareAndSwap makes close(ch) happen exactly once"). *)
CloseOnce ==
    pc["call"] \notin {"undo", "close", "failed"} =>
        /\ \A g \in Goroutines : Closing(g) => ~closed
        /\ \A g, h \in Goroutines : Closing(g) /\ Closing(h) => g = h
        /\ panic # "close"

(* After the context goroutine has run, neither the handler table nor the
   subscription of the stream is left, whichever way the stream ended. *)
CleanedUp == pc["ctx"] = "done" => ~handler /\ ~on

(* When the context ends, the context goroutine and the late-503 watcher end
   too, whatever the consumer does (statusDone, closeStatus). *)
Reclaimed ==
    done ~> (pc["ctx"] \in {"none", "done"} /\ pc["watch"] \in {"none", "done"}) \/ panic # "none"
=============================================================================
