------------------------------- MODULE Channel -------------------------------
(***************************************************************************)
(* The two ends of a Python Channel or PrivateChannel: opening and the     *)
(* handshake, messages and their listeners, request handlers, close() and  *)
(* the close of the other end, and a suspend() of one end's client.        *)
(*                                                                         *)
(* Both ends publish to and subscribe one subject, so each gets its own    *)
(* messages back.  Messages of one sender to one receiver stay in order;   *)
(* those of two senders may not.  The request itself is in NativeRequest.  *)
(***************************************************************************)
EXTENDS Naturals, FiniteSets, Sequences, SequencesExt

CONSTANTS
    Ends,       \* the two ends
    Sending,    \* the ends that send messages
    Answering,  \* the ends that answer requests
    MaxMsgs,    \* bound: messages sent by an end
    MaxFaults   \* bound: suspends and removed listeners

ASSUME ChannelAssumption == Sending \cup Answering \subseteq Ends /\ MaxMsgs \in Nat /\ MaxFaults \in Nat

VARIABLES
    kind,       \* public (Channel) or private (PrivateChannel)
    st,         \* an end: none, open, hearing (its close listeners run), stopped (amid
                \* them), closing, clearing or cleaned
    closedBy,   \* _closed, as who closed it: nobody, self or remote
    sub,        \* its subscription exists
    ears,       \* the events it has listeners for
    remote,     \* remote_id is set
    sent,       \* messages it has sent
    got,        \* messages its listeners have seen
    closes,     \* runs of its close listeners
    req,        \* its request handler: none, asked (for the subscription), live, off
    tracked,    \* it is among the channel's __subscriptions
    link,       \* messages on their way, per sender and receiver
    faults      \* ends that were suspended, or without a message listener, while open

local == <<st, closedBy, sub, ears, remote, sent, closes>>
reqs == <<req, tracked>>
vars == <<kind, local, got, reqs, link, faults>>

Init ==
    /\ kind \in {"public", "private"}
    /\ st = [e \in Ends |-> "none"] /\ closedBy = [e \in Ends |-> "nobody"]
    /\ sub = [e \in Ends |-> FALSE] /\ ears = [e \in Ends |-> {}]
    /\ remote = [e \in Ends |-> FALSE] /\ sent = [e \in Ends |-> 0]
    /\ got = [e \in Ends |-> <<>>] /\ closes = [e \in Ends |-> 0]
    /\ req = [e \in Ends |-> "none"] /\ tracked = [e \in Ends |-> FALSE]
    /\ link = [s \in Ends, r \in Ends |-> <<>>]
    /\ faults = [e \in Ends |-> {}]

-----------------------------------------------------------------------------
Message(n) == [type |-> "message", n |-> n]
Handshake == [type |-> "handshake", n |-> 0]
CloseMessage == [type |-> "close", n |-> 0]

Other(e) == CHOOSE r \in Ends : r # e

(* External: NATS delivers to the subscriptions there are. *)
Published(s, m, subs) ==
    link' = [p \in Ends \X Ends |-> IF p[1] = s /\ subs[p[2]] THEN Append(link[p], m) ELSE link[p]]

-----------------------------------------------------------------------------
(* channel() or private_channel() and, before its next await, the application's
   listeners. *)
Open(e) ==
    /\ st[e] = "none"
    /\ st' = [st EXCEPT ![e] = "open"] /\ sub' = [sub EXCEPT ![e] = TRUE]
    /\ ears' = [ears EXCEPT ![e] = {"message", "close"}]
    /\ \/ kind = "private" /\ Published(e, Handshake, sub')
       \/ kind = "public" /\ UNCHANGED link
    /\ UNCHANGED <<kind, closedBy, remote, sent, closes, got, reqs, faults>>

FewFaults == Cardinality({f \in Ends \X {"deaf", "suspended"} : f[2] \in faults[f[1]]}) < MaxFaults

(* off(), and on() again. *)
Off(e, event) ==
    /\ st[e] = "open" /\ event \in ears[e] /\ FewFaults
    /\ ears' = [ears EXCEPT ![e] = @ \ {event}]
    /\ faults' = [faults EXCEPT ![e] = @ \cup {"deaf"}]
    /\ UNCHANGED <<kind, st, closedBy, sub, remote, sent, closes, got, reqs, link>>

On(e, event) ==
    /\ st[e] = "open" /\ event \notin ears[e]
    /\ ears' = [ears EXCEPT ![e] = @ \cup {event}]
    /\ UNCHANGED <<kind, st, closedBy, sub, remote, sent, closes, got, reqs, link, faults>>

Send(e) ==
    /\ e \in Sending /\ st[e] = "open" /\ closedBy[e] = "nobody" /\ sub[e] /\ sent[e] < MaxMsgs
    /\ sent' = [sent EXCEPT ![e] = @ + 1]
    /\ Published(e, Message(sent[e] + 1), sub)
    /\ UNCHANGED <<kind, st, closedBy, sub, ears, remote, closes, got, reqs, faults>>

-----------------------------------------------------------------------------
(* Mutant of Accepted: nobody's messages are filtered. *)
AcceptedAll(s, r) == TRUE

(* The private channel skips its own messages and those of others than its
   target. *)
Accepted(s, r) == kind = "private" => s = Other(r)

(* _emit(): the listeners see a message, but no handshake. *)
Emit(s, r, m) ==
    got' = IF m.type = "message" /\ "message" \in ears[r] THEN [got EXCEPT ![r] = Append(@, <<s, m.n>>)] ELSE got

(* _handle_close(): the close listeners, once, and the cleanup as a task. *)
HandleClose(r) ==
    IF closedBy[r] # "nobody" THEN UNCHANGED <<closedBy, closes, st>>
    ELSE /\ closedBy' = [closedBy EXCEPT ![r] = "remote"]
         /\ IF "close" \in ears[r]
            THEN closes' = [closes EXCEPT ![r] = @ + 1] /\ st' = [st EXCEPT ![r] = "hearing"]
            ELSE UNCHANGED closes /\ st' = [st EXCEPT ![r] = "closing"]

(* message_handler() of either class; the next message waits for its end. *)
Deliver(s, r) ==
    /\ sub[r] /\ link[s, r] # <<>> /\ st[r] # "hearing"
    /\ link' = [link EXCEPT ![s, r] = Tail(@)]
    /\ LET m == Head(link[s, r]) IN
       \/ ~Accepted(s, r) /\ UNCHANGED <<remote, got, closedBy, closes, st>>
       \/ /\ Accepted(s, r)
          /\ remote' = [remote EXCEPT ![r] = @ \/ kind = "private"]
          /\ Emit(s, r, m)
          /\ IF m.type = "close" THEN HandleClose(r) ELSE UNCHANGED <<closedBy, closes, st>>
    /\ UNCHANGED <<kind, sub, ears, sent, reqs, faults>>

(* The close listeners, which may await, have returned. *)
Heard(e) ==
    /\ st[e] = "hearing"
    /\ st' = [st EXCEPT ![e] = "closing"]
    /\ UNCHANGED <<kind, closedBy, sub, ears, remote, sent, closes, got, reqs, link, faults>>

-----------------------------------------------------------------------------
(* on_request(): the subscription first, then the channel's note of it, which
   the private channel does not make and nobody reads after the cleanup. *)
OnRequest(e) ==
    /\ e \in Answering /\ st[e] = "open" /\ req[e] = "none"
    /\ req' = [req EXCEPT ![e] = "asked"]
    /\ UNCHANGED <<kind, local, got, tracked, link, faults>>

OnRequestDone(e) ==
    /\ req[e] = "asked"
    /\ req' = [req EXCEPT ![e] = "live"]
    /\ tracked' = [tracked EXCEPT ![e] = kind = "public" /\ st[e] \notin {"clearing", "cleaned"}]
    /\ UNCHANGED <<kind, local, got, link, faults>>

(* The returned unsubscribe(); the note stays. *)
OffRequest(e) ==
    /\ req[e] = "live"
    /\ req' = [req EXCEPT ![e] = "off"]
    /\ UNCHANGED <<kind, local, got, tracked, link, faults>>

-----------------------------------------------------------------------------
(* Mutant of Close: nobody is told. *)
CloseQuietly(e) ==
    /\ st[e] = "open" /\ closedBy[e] = "nobody"
    /\ closedBy' = [closedBy EXCEPT ![e] = "self"]
    /\ st' = [st EXCEPT ![e] = "closing"]
    /\ UNCHANGED <<kind, sub, ears, remote, sent, closes, got, reqs, link, faults>>

(* close(): the flag, then the message; a publish error is ignored. *)
Close(e) ==
    /\ st[e] = "open" /\ closedBy[e] = "nobody"
    /\ closedBy' = [closedBy EXCEPT ![e] = "self"]
    /\ st' = [st EXCEPT ![e] = "closing"]
    /\ IF sub[e] THEN Published(e, CloseMessage, sub) ELSE UNCHANGED link
    /\ UNCHANGED <<kind, sub, ears, remote, sent, closes, got, reqs, faults>>

(* _cleanup(): listeners and the request handlers it knows of. *)
Clear(e) ==
    /\ st[e] = "closing"
    /\ st' = [st EXCEPT ![e] = "clearing"] /\ ears' = [ears EXCEPT ![e] = {}]
    /\ req' = [req EXCEPT ![e] = IF tracked[e] THEN "off" ELSE @]
    /\ UNCHANGED <<kind, closedBy, sub, remote, sent, closes, got, tracked, link, faults>>

(* Then its own subscription. *)
Unsubscribe(e) ==
    /\ st[e] = "clearing"
    /\ st' = [st EXCEPT ![e] = "cleaned"] /\ sub' = [sub EXCEPT ![e] = FALSE]
    /\ link' = [p \in Ends \X Ends |-> IF p[2] = e THEN <<>> ELSE link[p]]
    /\ UNCHANGED <<kind, closedBy, ears, remote, sent, closes, got, reqs, faults>>

(* suspend() of an end's client: what is sent meanwhile is lost to it, a close
   message too; its request handler has no entry and does not come back.  Close
   listeners that run end with the subscription, without a cleanup. *)
Suspend(e) ==
    /\ st[e] \in {"open", "hearing"} /\ sub[e] /\ FewFaults
    /\ st' = [st EXCEPT ![e] = IF @ = "hearing" THEN "stopped" ELSE @]
    /\ sub' = [sub EXCEPT ![e] = FALSE]
    /\ link' = [p \in Ends \X Ends |-> IF p[2] = e THEN <<>> ELSE link[p]]
    /\ req' = [req EXCEPT ![e] = IF @ \in {"asked", "live"} THEN "off" ELSE @]
    /\ faults' = [faults EXCEPT ![e] = @ \cup {"suspended"}]
    /\ UNCHANGED <<kind, closedBy, ears, remote, sent, closes, got, tracked>>

(* connect() restores the channel's subscription. *)
Resume(e) ==
    /\ st[e] \in {"open", "stopped"} /\ ~sub[e]
    /\ sub' = [sub EXCEPT ![e] = TRUE]
    /\ UNCHANGED <<kind, st, closedBy, ears, remote, sent, closes, got, reqs, link, faults>>

-----------------------------------------------------------------------------
Next ==
    \E e \in Ends :
        \/ Open(e) \/ Send(e) \/ Close(e) \/ Heard(e) \/ Clear(e) \/ Unsubscribe(e)
        \/ OnRequest(e) \/ OnRequestDone(e) \/ OffRequest(e)
        \/ Suspend(e) \/ Resume(e)
        \/ \E event \in {"message", "close"} : On(e, event) \/ Off(e, event)
        \/ \E s \in Ends : Deliver(s, e)

Spec == Init /\ [][Next]_vars

(* Messages arrive, close listeners return, and a cleanup that was scheduled runs
   to its end. *)
FairSpec ==
    /\ Spec
    /\ \A e \in Ends : WF_vars(Heard(e)) /\ WF_vars(Clear(e)) /\ WF_vars(Unsubscribe(e))
    /\ \A s, r \in Ends : WF_vars(Deliver(s, r))

-----------------------------------------------------------------------------
(* Properties. *)

TypeOK ==
    /\ st \in [Ends -> {"none", "open", "hearing", "stopped", "closing", "clearing", "cleaned"}]
    /\ closedBy \in [Ends -> {"nobody", "self", "remote"}]
    /\ ears \in [Ends -> SUBSET {"message", "close"}]
    /\ sent \in [Ends -> 0..MaxMsgs]
    /\ \A e \in Ends : Range(got[e]) \subseteq Ends \X (1..MaxMsgs)
    /\ req \in [Ends -> {"none", "asked", "live", "off"}]

(* What the listeners of r have seen of sender s. *)
Seen(r, s) == SelectSeq(got[r], LAMBDA x : x[1] = s)

(* A sender's messages are seen in order and once, without gaps by a receiver
   that always listened; a private channel shows nothing but the messages of
   its target. *)
OrderedDelivery ==
    \A r, s \in Ends :
        LET seen == Seen(r, s) IN
        /\ \A i \in 1..Len(seen) - 1 :
            IF faults[r] = {} THEN seen[i + 1][2] = seen[i][2] + 1 ELSE seen[i + 1][2] > seen[i][2]
        /\ kind = "private" /\ s = r => seen = <<>>

(* The close listeners run once, and only at an end that the other one closed:
   neither one's own echo nor a close that crosses one's own counts. *)
CloseSeenOnce ==
    \A e \in Ends : closes[e] > 0 => closes[e] = 1 /\ closedBy[e] = "remote" /\ closedBy[Other(e)] = "self"

(* A closed public channel answers no requests on behalf of a handler it knew
   of when it was cleaned up; one whose on_request() was under way it does not
   know, and the private channel knows none. *)
RequestsReleased ==
    \A e \in Ends : st[e] \in {"clearing", "cleaned"} /\ req[e] = "live" => ~tracked[e]

(* When both ends are there and one closes, the other one closes too and both
   clean up, unless a suspend made it miss the message. *)
CloseArrives ==
    (/\ \A e \in Ends : st[e] = "open"
     /\ <>(\E e \in Ends : closedBy[e] = "self"))
        ~> ((\A e \in Ends : st[e] = "cleaned") \/ (\E e \in Ends : "suspended" \in faults[e]))

(* Once both ends of a private channel are there, at least one learns of the
   other by its handshake, unless one closes or is suspended. *)
HandshakeArrives ==
    (kind = "private" /\ \A e \in Ends : st[e] = "open")
        ~> \E e \in Ends : remote[e] \/ st[e] # "open" \/ "suspended" \in faults[e]

(* What an application may rely on while a channel lives and after it closed:
   messages in order and its own, one close event, no requests any more. *)
Faithful == TypeOK /\ OrderedDelivery /\ CloseSeenOnce /\ RequestsReleased

(* The two ends learn of each other: that the other one is there, and that it
   closed. *)
EndsLearn == CloseArrives /\ HandshakeArrives
=============================================================================
