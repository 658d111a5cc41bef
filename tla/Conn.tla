-------------------------------- MODULE Conn --------------------------------
(***************************************************************************)
(* One connection of the fractal cluster, with the reader and the writer   *)
(* that sit on each of its two ends (fractal/connection/conn.go,           *)
(* fractal/reader.go, fractal/writer.go).                                  *)
(*                                                                         *)
(* An end has four routines around a socket (receive, send, keepalive,     *)
(* aliveness), a MessageSender that feeds its send channels, and a         *)
(* MessageReceiver that drains its receive channel.  Whoever meets an      *)
(* error spawns waitStop, which cancels, closes and waits for the four.    *)
(* The network is external: frames arrive in order, a closed socket is     *)
(* read to its end, and the path may be cut, which no one is told.         *)
(***************************************************************************)
EXTENDS Integers, Sequences, FiniteSets, SequencesExt

CONSTANTS
    Ends,        \* the pool's end and the relay's end
    Peer,        \* the other end
    Pinger,      \* ends with a keepaliveInterval: they ping, the others answer
    Script,      \* the messages each end's user sends, in order
    RecvCap,     \* recvQueueSize
    SendCap,     \* sendQueueSize and prioritySendQueueSize
    WireCap,     \* frames the path holds
    MaxPings,    \* bound: keepalive packets an end sends by its ticker
    MaxFaults    \* bound: timeouts, cancellations, cuts and too large messages

Low  == "low"    \* Send: request_qualities, report_qualities
High == "high"   \* SendPriority: proofs and signatures

\* a message: its priority, its place in the script, whether it decodes
Messages == [class : {Low, High}, id : Nat, good : BOOLEAN]
Ping == [class |-> "ping", id |-> 0, good |-> TRUE]

ASSUME ConnAssumption ==
    /\ Peer \in [Ends -> Ends]
    /\ \A e \in Ends : Peer[Peer[e]] = e
    /\ Pinger \subseteq Ends
    /\ \A e \in Ends : /\ Script[e] \in Seq(Messages)
                       /\ \A i \in DOMAIN Script[e] : Script[e][i].id = i
    /\ \A c \in {RecvCap, SendCap, WireCap} : c \in Nat \ {0}
    /\ MaxPings \in Nat
    /\ MaxFaults \in Nat

VARIABLES
    sent,      \* messages of the script that went into the MessageSender
    sendCh,    \* sendCh and prioritySendCh
    prioCh,
    send,      \* where sendRoutine is
    out,       \* data it has taken
    wire,      \* frames on their way to each end
    cut,       \* the path is cut
    recv,      \* where receiveRoutine is
    hand,      \* data it has read
    recvCh,    \* recvCh
    reader,    \* MessageReceiver is running
    got,       \* what the user has read
    pings,     \* ticks of keepaliveRoutine so far
    ctx,       \* conn.ctx is done
    parent,    \* the context it was made with is done
    sock,      \* this end's socket is open
    stop,      \* waitStop: not called, called, stopping, stopped
    faults     \* of those, how many so far

sendVars == <<sendCh, prioCh, send, out>>
netVars  == <<wire, cut>>
recvVars == <<recv, hand, recvCh>>
userVars == <<sent, reader, got, pings>>
stopVars == <<ctx, parent, sock, stop>>
vars == <<sent, sendCh, prioCh, send, out, wire, cut, recv, hand,
          recvCh, reader, got, pings, ctx, parent, sock, stop, faults>>

Nothing == [class |-> "none", id |-> 0, good |-> TRUE]
Frames == Messages \cup {Ping}

TypeOK ==
    /\ sent \in [Ends -> Nat]
    /\ sendCh \in [Ends -> Seq(Messages)]
    /\ prioCh \in [Ends -> Seq(Frames)]
    /\ send \in [Ends -> {"poll", "select", "write", "ended"}]
    /\ out \in [Ends -> Frames \cup {Nothing}]
    /\ wire \in [Ends -> Seq(Frames)]
    /\ cut \in BOOLEAN
    /\ recv \in [Ends -> {"read", "ctrl", "deliver", "ended"}]
    /\ hand \in [Ends -> Messages \cup {Nothing}]
    /\ recvCh \in [Ends -> Seq(Messages)]
    /\ reader \in [Ends -> BOOLEAN]
    /\ got \in [Ends -> Seq(Messages)]
    /\ pings \in [Ends -> 0..MaxPings]
    /\ ctx \in [Ends -> BOOLEAN]
    /\ parent \in [Ends -> BOOLEAN]
    /\ sock \in [Ends -> BOOLEAN]
    /\ stop \in [Ends -> {"no", "called", "stopping", "stopped"}]
    /\ faults \in 0..MaxFaults

All(v) == [e \in Ends |-> v]

\* newConn and run: both ends are connected, their routines started
Init ==
    /\ sent = All(0)
    /\ sendCh = All(<<>>)
    /\ prioCh = All(<<>>)
    /\ send = All("poll")
    /\ out = All(Nothing)
    /\ wire = All(<<>>)
    /\ cut = FALSE
    /\ recv = All("read")
    /\ hand = All(Nothing)
    /\ recvCh = All(<<>>)
    /\ reader = All(TRUE)
    /\ got = All(<<>>)
    /\ pings = All(0)
    /\ ctx = All(FALSE)
    /\ parent = All(FALSE)
    /\ sock = All(TRUE)
    /\ stop = All("no")
    /\ faults = 0

-----------------------------------------------------------------------------
(* waitStop.                                                               *)

\* go conn.waitStop(err): only the first call does anything
CallStop(e) == stop' = [stop EXCEPT ![e] = IF @ = "no" THEN "called" ELSE @]

\* ctxCanceller, then c.Close
WaitStop(e) ==
    /\ stop[e] = "called"
    /\ stop' = [stop EXCEPT ![e] = "stopping"]
    /\ ctx' = [ctx EXCEPT ![e] = TRUE]
    /\ sock' = [sock EXCEPT ![e] = FALSE]
    /\ UNCHANGED <<userVars, sendVars, netVars, recvVars, parent, faults>>

\* wg.Wait: the routines have ended.  keepaliveRoutine and alivenessMonitor
\* do nothing more once ctx is done.
Stopped(e) ==
    /\ stop[e] = "stopping"
    /\ send[e] = "ended" /\ recv[e] = "ended"
    /\ stop' = [stop EXCEPT ![e] = "stopped"]
    /\ UNCHANGED <<userVars, sendVars, netVars, recvVars, ctx, parent, sock,
                   faults>>

Fault == faults < MaxFaults /\ faults' = faults + 1

\* the owner calls the function that run returned
Cancel(e) ==
    /\ Fault /\ stop[e] = "no"
    /\ CallStop(e)
    /\ UNCHANGED <<userVars, sendVars, netVars, recvVars, ctx, parent, sock>>

\* the context given to connection, reader and writer is cancelled
ParentDone(e) ==
    /\ Fault /\ ~parent[e]
    /\ parent' = [parent EXCEPT ![e] = TRUE]
    /\ ctx' = [ctx EXCEPT ![e] = TRUE]
    /\ UNCHANGED <<userVars, sendVars, netVars, recvVars, sock, stop>>

\* alivenessMonitor: nothing has come for keepaliveTimeout
Timeout(e) ==
    /\ stop[e] = "no" /\ ~ctx[e]
    /\ CallStop(e)
    /\ UNCHANGED <<userVars, sendVars, netVars, recvVars, ctx, parent, sock>>

SpuriousTimeout(e) == Fault /\ Timeout(e)
TimeoutWhenCut(e) == cut /\ Timeout(e) /\ UNCHANGED faults

Cut ==
    /\ Fault /\ ~cut
    /\ cut' = TRUE
    /\ wire' = All(<<>>)
    /\ UNCHANGED <<userVars, sendVars, recvVars, stopVars>>

-----------------------------------------------------------------------------
(* MessageSender, sendRoutine, keepaliveRoutine.                           *)

\* SafeSendChannel and sendRemoteMessage: a message goes through messageCh
\* into the channel of its priority, or is lost: the connection's channels
\* are closed, or the writer ended with its context.
Forward(e) ==
    LET m == Script[e][sent[e] + 1] IN
    /\ sent[e] < Len(Script[e])
    /\ sent' = [sent EXCEPT ![e] = @ + 1]
    /\ \/ /\ send[e] # "ended" /\ m.class = High
          /\ Len(prioCh[e]) < SendCap
          /\ prioCh' = [prioCh EXCEPT ![e] = Append(@, m)]
          /\ UNCHANGED sendCh
       \/ /\ send[e] # "ended" /\ m.class = Low
          /\ Len(sendCh[e]) < SendCap
          /\ sendCh' = [sendCh EXCEPT ![e] = Append(@, m)]
          /\ UNCHANGED prioCh
       \/ /\ send[e] = "ended" \/ parent[e]
          /\ UNCHANGED <<sendCh, prioCh>>
    /\ UNCHANGED <<reader, got, pings, send, out, netVars, recvVars,
                   stopVars, faults>>

Take(e, ch, next) ==
    /\ out' = [out EXCEPT ![e] = Head(ch)]
    /\ send' = [send EXCEPT ![e] = next]

TakePriority(e) ==
    /\ prioCh[e] # <<>>
    /\ Take(e, prioCh[e], "write")
    /\ prioCh' = [prioCh EXCEPT ![e] = Tail(@)]
    /\ UNCHANGED sendCh

\* the deferred closes: what the channels held is lost
SendEnds(e) ==
    /\ send' = [send EXCEPT ![e] = "ended"]
    /\ sendCh' = [sendCh EXCEPT ![e] = <<>>]
    /\ prioCh' = [prioCh EXCEPT ![e] = <<>>]
    /\ out' = [out EXCEPT ![e] = Nothing]

OnlySend == UNCHANGED <<userVars, netVars, recvVars, stopVars, faults>>

\* mutant: the priority channel is not looked at first
PollBlind(e) ==
    /\ send[e] = "poll"
    /\ \/ ~ctx[e] /\ send' = [send EXCEPT ![e] = "select"]
                  /\ UNCHANGED <<sendCh, prioCh, out>>
       \/ ctx[e] /\ SendEnds(e)
    /\ OnlySend

\* the outer select
Poll(e) ==
    /\ send[e] = "poll"
    /\ \/ TakePriority(e)
       \/ ctx[e] /\ SendEnds(e)
       \/ /\ prioCh[e] = <<>> /\ ~ctx[e]
          /\ send' = [send EXCEPT ![e] = "select"]
          /\ UNCHANGED <<sendCh, prioCh, out>>
    /\ OnlySend

\* the inner select
Select(e) ==
    /\ send[e] = "select"
    /\ \/ TakePriority(e)
       \/ ctx[e] /\ SendEnds(e)
       \/ /\ sendCh[e] # <<>>
          /\ Take(e, sendCh[e], "write")
          /\ sendCh' = [sendCh EXCEPT ![e] = Tail(@)]
          /\ UNCHANGED prioCh
    /\ OnlySend

\* size and data reach the path, which a cut one swallows
Write(e) ==
    LET to == Peer[e] IN
    /\ send[e] = "write" /\ sock[e]
    /\ IF cut \/ ~sock[to] THEN UNCHANGED wire
       ELSE /\ Len(wire[to]) < WireCap
            /\ wire' = [wire EXCEPT ![to] = Append(@, out[e])]
    /\ send' = [send EXCEPT ![e] = "poll"]
    /\ out' = [out EXCEPT ![e] = Nothing]
    /\ UNCHANGED <<userVars, sendCh, prioCh, cut, recvVars, stopVars, faults>>

\* the socket is closed, here or at the peer
WriteFails(e) ==
    /\ send[e] = "write" /\ (~sock[e] \/ ~sock[Peer[e]])
    /\ SendEnds(e)
    /\ CallStop(e)
    /\ UNCHANGED <<userVars, netVars, recvVars, ctx, parent, sock,
                   faults>>

\* sendKeepalivePacket: a closed channel or a done ctx is an error
PutPing(e) ==
    \/ /\ send[e] # "ended" /\ Len(prioCh[e]) < SendCap
       /\ prioCh' = [prioCh EXCEPT ![e] = Append(@, Ping)]
       /\ UNCHANGED stop
    \/ /\ ctx[e] \/ send[e] = "ended"
       /\ CallStop(e)
       /\ UNCHANGED prioCh

Tick(e) ==
    /\ e \in Pinger /\ pings[e] < MaxPings /\ ~ctx[e]
    /\ pings' = [pings EXCEPT ![e] = @ + 1]
    /\ PutPing(e)
    /\ UNCHANGED <<sent, reader, got, sendCh, send, out, netVars,
                   recvVars, ctx, parent, sock, faults>>

-----------------------------------------------------------------------------
(* receiveRoutine.                                                         *)

\* a size of zero is a control message, another one is followed by data
Read(e) ==
    LET f == Head(wire[e]) IN
    /\ recv[e] = "read" /\ sock[e] /\ wire[e] # <<>>
    /\ wire' = [wire EXCEPT ![e] = Tail(@)]
    /\ recv' = [recv EXCEPT ![e] = IF f = Ping THEN "ctrl" ELSE "deliver"]
    /\ hand' = [hand EXCEPT ![e] = IF f = Ping THEN Nothing ELSE f]
    /\ UNCHANGED <<userVars, sendVars, cut, recvCh, stopVars, faults>>

\* mutant: the end of the stream is not an error
ReadFailsOwn(e) ==
    /\ recv[e] = "read" /\ ~sock[e]
    /\ recv' = [recv EXCEPT ![e] = "ended"]
    /\ CallStop(e)
    /\ UNCHANGED <<userVars, sendVars, netVars, hand, recvCh, ctx, parent,
                   sock, faults>>

\* own socket closed, or the peer's and all it wrote is read
ReadFails(e) ==
    /\ recv[e] = "read"
    /\ ~sock[e] \/ (~sock[Peer[e]] /\ wire[e] = <<>> /\ ~cut)
    /\ recv' = [recv EXCEPT ![e] = "ended"]
    /\ CallStop(e)
    /\ UNCHANGED <<userVars, sendVars, netVars, hand, recvCh, ctx, parent,
                   sock, faults>>

\* ErrRecvMsgTooLarge: a size greater than maxRecvMsgSize, the data is not read
TooLarge(e) ==
    /\ Fault
    /\ recv[e] = "read" /\ sock[e] /\ wire[e] # <<>> /\ Head(wire[e]) # Ping
    /\ recv' = [recv EXCEPT ![e] = "ended"]
    /\ CallStop(e)
    /\ UNCHANGED <<userVars, sendVars, netVars, hand, recvCh, ctx, parent, sock>>

\* handleCtrlMsg: answered by the end that does not ping by itself
Ctrl(e) ==
    /\ recv[e] = "ctrl"
    /\ recv' = [recv EXCEPT ![e] = "read"]
    /\ IF e \in Pinger THEN UNCHANGED <<prioCh, stop>> ELSE PutPing(e)
    /\ UNCHANGED <<userVars, sendCh, send, out, netVars, hand, recvCh,
                   ctx, parent, sock, faults>>

\* conn.recvCh <- data: waits for room, whatever ctx says
Deliver(e) ==
    /\ recv[e] = "deliver"
    /\ Len(recvCh[e]) < RecvCap
    /\ recvCh' = [recvCh EXCEPT ![e] = Append(@, hand[e])]
    /\ hand' = [hand EXCEPT ![e] = Nothing]
    /\ recv' = [recv EXCEPT ![e] = "read"]
    /\ UNCHANGED <<userVars, sendVars, netVars, stopVars, faults>>

-----------------------------------------------------------------------------
(* MessageReceiver and its user.                                           *)

\* conn.Read, DecodeMessage, messageCh and SafeReadChannel: the user reads
\* on; what does not decode ends the receiver
Receive(e) ==
    LET m == Head(recvCh[e]) IN
    /\ reader[e] /\ recvCh[e] # <<>>
    /\ recvCh' = [recvCh EXCEPT ![e] = Tail(@)]
    /\ got' = [got EXCEPT ![e] = IF m.good THEN Append(@, m) ELSE @]
    /\ reader' = [reader EXCEPT ![e] = m.good]
    /\ UNCHANGED <<sent, pings, sendVars, netVars, recv, hand, stopVars, faults>>

\* ctx is done, or recvCh is closed and empty
ReaderEnds(e) ==
    /\ reader[e]
    /\ parent[e] \/ (recv[e] = "ended" /\ recvCh[e] = <<>>)
    /\ reader' = [reader EXCEPT ![e] = FALSE]
    /\ UNCHANGED <<sent, got, pings, sendVars, netVars, recvVars, stopVars,
                   faults>>

-----------------------------------------------------------------------------
Routine(e) ==
    \/ WaitStop(e) \/ Stopped(e)
    \/ Forward(e) \/ Poll(e) \/ Select(e) \/ Write(e) \/ WriteFails(e) \/ Tick(e)
    \/ Read(e) \/ ReadFails(e) \/ Ctrl(e) \/ Deliver(e)
    \/ Receive(e) \/ ReaderEnds(e)
    \/ TimeoutWhenCut(e)

Next ==
    \/ \E e \in Ends : \/ Routine(e)
                       \/ Cancel(e) \/ ParentDone(e) \/ SpuriousTimeout(e) \/ TooLarge(e)
    \/ Cut

Spec == Init /\ [][Next]_vars

\* Every routine runs when it can; the keepalive timer fires on a cut path.
LiveSpec ==
    /\ Spec
    /\ \A e \in Ends :
        /\ WF_vars(WaitStop(e)) /\ WF_vars(Stopped(e))
        /\ WF_vars(Forward(e))
        /\ WF_vars(Poll(e) \/ Select(e) \/ Write(e) \/ WriteFails(e))
        /\ WF_vars(Read(e) \/ ReadFails(e) \/ Ctrl(e) \/ Deliver(e))
        /\ WF_vars(Receive(e) \/ ReaderEnds(e))
        /\ WF_vars(TimeoutWhenCut(e))

-----------------------------------------------------------------------------
(* Properties.                                                             *)

\* Through the channels and goroutines of both ends, what a user reads of each
\* priority is what its peer's user sent, in that order, nothing twice, and
\* without gaps up to where the connection ended.  (A writer whose context is
\* done may lose one message and still send the next.)
InOrder == \A e \in Ends : \A i \in DOMAIN got[Peer[e]] :
    LET here == got[Peer[e]]
        m == here[i]
    IN  /\ m.id \in 1..sent[e] /\ m = Script[e][m.id]
        /\ \A k \in 1..i - 1 : here[k].class = m.class => here[k].id < m.id
        /\ ~parent[e] => \A n \in 1..m.id :
             Script[e][n].class = m.class => \E k \in 1..i : here[k] = Script[e][n]

\* A priority message is overtaken by at most one of the ordinary messages
\* that were sent after it: the one sendRoutine may take in its inner select
\* when both have come between its two looks.
OvertakenOnce == \A e \in Ends : \A i \in 1..Len(got[e]) :
    got[e][i].class = High =>
        Cardinality({k \in 1..i - 1 : /\ got[e][k].class = Low
                                      /\ got[e][k].id > got[e][i].id})
            <= 1

\* receiveRoutine waits to hand its data to a MessageReceiver that has ended
Stuck(e) == recv[e] = "deliver" /\ Len(recvCh[e]) = RecvCap /\ ~reader[e]

\* waitStop returns: the four routines end whatever they were doing, also in
\* a send to the peer, in a send of a ping, or with messages not yet read.
\* The one exception is receiveRoutine's send into a full recvCh, which does
\* not look at ctx: after its MessageReceiver has ended it waits for ever.
StopReturns == \A e \in Ends :
    stop[e] = "called" ~> (stop[e] = "stopped" \/ Stuck(e))

\* When one end is down, the other goes down too, be it by the end of the
\* stream or, on a cut path, by the keepalive timer.
BothGoDown == \A e \in Ends :
    stop[e] = "stopped" ~> (stop[Peer[e]] = "stopped" \/ Stuck(Peer[e]))

\* Without a stop, a cut path or a context that is done, all that the users
\* have to send is read at the other end.
Delivered == \A e \in Ends :
    <>(\/ Len(got[Peer[e]]) = Len(Script[e])
       \/ cut
       \/ \E f \in Ends : stop[f] # "no" \/ parent[f])

\* What a connection says about order: each priority is a gapless sequence, and
\* a priority message is overtaken by at most one ordinary one.
Ordered == InOrder /\ OvertakenOnce

\* What it promises to bring to an end: messages arrive as long as it stands,
\* and when it goes down it does so on both ends and altogether.
DeliversOrEnds == Delivered /\ StopReturns /\ BothGoDown
=============================================================================
