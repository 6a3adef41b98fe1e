---------------------------- MODULE PipeListener ----------------------------
(***************************************************************************)
(* The in-memory listener of sessionutil/socketprovider/pipe.go: any       *)
(* number of goroutines call Accept, Dialer and Close on one listener.     *)
(*                                                                         *)
(* The code between pl.mu.Lock() and pl.mu.Unlock() is one step; so is one *)
(* channel operation.  chConn is an unbuffered Go channel: a send meets a  *)
(* receive in a single step, a receive from the closed channel yields nil, *)
(* and a send to the closed channel panics, which ends the process.        *)
(*                                                                         *)
(* closedCh is made by Accept and closed by nobody, so the select of       *)
(* Accept can never take the "case <-pl.closedCh" branch; the variable is  *)
(* left out with it.                                                       *)
(***************************************************************************)
CONSTANTS Acceptors,    \* goroutines that call Accept
          Dialers,      \* goroutines that call Dialer
          Pipes,        \* the net.Pipe()s made; bounds the number of dials
          NoPipe        \* the absent connection

ASSUME NoPipeAssumption == NoPipe \notin Pipes

VARIABLES closed,       \* pl.closed
          chConn,       \* pl.chConn: "nil", "open" or "closed"
          conns,        \* the connections in pl.conns
          apc,          \* where each acceptor is in Accept
          held,         \* the variable conn of Accept
          dpc,          \* where each dialer is in Dialer, or what it returned
          offer,        \* the pipe a dialer offers or has obtained
          far,          \* the accepting end c2 of each pipe
          near,         \* the dialing end c1 of each pipe
          panicked      \* a goroutine sent on the closed channel

vars == <<closed, chConn, conns, apc, held, dpc, offer, far, near, panicked>>

\* Accept: "recv" is the select, "got" the second critical section.
AcceptStates == {"idle", "recv", "got", "ErrClosed"}

\* Dialer: "send" is the select, the rest are results of the last call.
DialStates == {"idle", "send", "conn", "ErrClosed", "canceled"}

\* "made": still in the dialer's hands; "pending": received by Accept but not
\* yet returned; "served": returned by Accept.
FarStates == {"unmade", "made", "pending", "served", "closed"}

NearStates == {"unmade", "open", "closed"}

\* The zero value of the listener; no call has been made.
Init ==
  /\ closed = FALSE
  /\ chConn = "nil"
  /\ conns = {}
  /\ apc = [a \in Acceptors |-> "idle"]
  /\ held = [a \in Acceptors |-> NoPipe]
  /\ dpc = [d \in Dialers |-> "idle"]
  /\ offer = [d \in Dialers |-> NoPipe]
  /\ far = [c \in Pipes |-> "unmade"]
  /\ near = [c \in Pipes |-> "unmade"]
  /\ panicked = FALSE

-----------------------------------------------------------------------------
\* pl.chConn is made by the first Accept or Dialer that finds it nil.
MakeChan == chConn' = IF chConn = "nil" THEN "open" ELSE chConn

\* Accept: the first critical section, up to the select.
AcceptCall(a) ==
  /\ ~panicked
  /\ apc[a] \in {"idle", "ErrClosed"}
  /\ MakeChan
  /\ apc' = [apc EXCEPT ![a] = "recv"]
  /\ UNCHANGED <<closed, conns, held, dpc, offer, far, near, panicked>>

\* Dialer on a closed listener returns net.ErrClosed.
DialRefused(d) ==
  /\ ~panicked
  /\ dpc[d] \in {"idle", "canceled"}
  /\ closed
  /\ dpc' = [dpc EXCEPT ![d] = "ErrClosed"]
  /\ UNCHANGED <<closed, chConn, conns, apc, held, offer, far, near, panicked>>

\* Dialer: the critical section and net.Pipe(), up to the select.
DialCall(d, c) ==
  /\ ~panicked
  /\ dpc[d] \in {"idle", "canceled"}
  /\ ~closed
  /\ far[c] = "unmade"
  /\ MakeChan
  /\ far' = [far EXCEPT ![c] = "made"]
  /\ near' = [near EXCEPT ![c] = "open"]
  /\ offer' = [offer EXCEPT ![d] = c]
  /\ dpc' = [dpc EXCEPT ![d] = "send"]
  /\ UNCHANGED <<closed, conns, apc, held, panicked>>

\* The select of Dialer meets the select of Accept on the open channel: Accept
\* holds c2, Dialer returns c1.
HandOff(a, d) ==
  /\ ~panicked
  /\ chConn = "open"
  /\ apc[a] = "recv"
  /\ dpc[d] = "send"
  /\ held' = [held EXCEPT ![a] = offer[d]]
  /\ far' = [far EXCEPT ![offer[d]] = "pending"]
  /\ apc' = [apc EXCEPT ![a] = "got"]
  /\ dpc' = [dpc EXCEPT ![d] = "conn"]
  /\ UNCHANGED <<closed, chConn, conns, offer, near, panicked>>

\* ctx.Done() in the select of Dialer: neither end is closed.
DialCanceled(d) ==
  /\ ~panicked
  /\ dpc[d] = "send"
  /\ dpc' = [dpc EXCEPT ![d] = "canceled"]
  /\ UNCHANGED <<closed, chConn, conns, apc, held, offer, far, near, panicked>>

\* "pl.chConn <- c2" on the channel that Close has closed.
DialPanics(d) ==
  /\ ~panicked
  /\ dpc[d] = "send"
  /\ chConn = "closed"
  /\ panicked' = TRUE
  /\ UNCHANGED <<closed, chConn, conns, apc, held, dpc, offer, far, near>>

\* Mutant of AcceptNil: Accept goes back to its select.
AcceptNilRetries(a) ==
  /\ ~panicked
  /\ apc[a] = "recv"
  /\ chConn = "closed"
  /\ UNCHANGED vars

\* "conn == nil": the channel is closed, Accept returns net.ErrClosed.
AcceptNil(a) ==
  /\ ~panicked
  /\ apc[a] = "recv"
  /\ chConn = "closed"
  /\ apc' = [apc EXCEPT ![a] = "ErrClosed"]
  /\ UNCHANGED <<closed, chConn, conns, held, dpc, offer, far, near, panicked>>

\* Mutant of AcceptReturn: pl.closed is not looked at again after the receive.
AcceptReturnUnchecked(a) ==
  /\ ~panicked
  /\ apc[a] = "got"
  /\ held' = [held EXCEPT ![a] = NoPipe]
  /\ far' = [far EXCEPT ![held[a]] = "served"]
  /\ apc' = [apc EXCEPT ![a] = "idle"]
  /\ conns' = conns \cup {held[a]}
  /\ UNCHANGED <<closed, chConn, dpc, offer, near, panicked>>

\* Mutant of AcceptReturn: the late connection is dropped without being closed.
AcceptReturnLeaks(a) ==
  /\ ~panicked
  /\ apc[a] = "got"
  /\ held' = [held EXCEPT ![a] = NoPipe]
  /\ apc' = [apc EXCEPT ![a] = IF closed THEN "ErrClosed" ELSE "idle"]
  /\ far' = IF closed THEN far ELSE [far EXCEPT ![held[a]] = "served"]
  /\ conns' = IF closed THEN conns ELSE conns \cup {held[a]}
  /\ UNCHANGED <<closed, chConn, dpc, offer, near, panicked>>

\* Mutant of AcceptReturn: conn is reset before it is remembered.
AcceptReturnStale(a) ==
  /\ ~panicked
  /\ apc[a] = "got"
  /\ held' = [held EXCEPT ![a] = NoPipe]
  /\ apc' = [apc EXCEPT ![a] = IF closed THEN "ErrClosed" ELSE "idle"]
  /\ far' = [far EXCEPT ![held[a]] = IF closed THEN "closed" ELSE "served"]
  /\ conns' = IF closed THEN conns ELSE conns \cup {held'[a]}
  /\ UNCHANGED <<closed, chConn, dpc, offer, near, panicked>>

\* The second critical section of Accept: a connection that arrives after Close
\* is closed, any other is remembered in pl.conns and returned.
AcceptReturn(a) ==
  /\ ~panicked
  /\ apc[a] = "got"
  /\ held' = [held EXCEPT ![a] = NoPipe]
  /\ \/ /\ closed
        /\ far' = [far EXCEPT ![held[a]] = "closed"]
        /\ apc' = [apc EXCEPT ![a] = "ErrClosed"]
        /\ UNCHANGED conns
     \/ /\ ~closed
        /\ far' = [far EXCEPT ![held[a]] = "served"]
        /\ apc' = [apc EXCEPT ![a] = "idle"]
        /\ conns' = conns \cup {held[a]}
  /\ UNCHANGED <<closed, chConn, dpc, offer, near, panicked>>

\* Mutant of Close: the connections are forgotten but not closed.
CloseKeepsConns ==
  /\ ~panicked
  /\ ~closed
  /\ closed' = TRUE
  /\ chConn' = IF chConn = "nil" THEN "nil" ELSE "closed"
  /\ conns' = {}
  /\ UNCHANGED <<apc, held, dpc, offer, far, near, panicked>>

\* Mutant of Close: the channel stays open.
CloseKeepsChan ==
  /\ ~panicked
  /\ ~closed
  /\ closed' = TRUE
  /\ conns' = {}
  /\ far' = [c \in Pipes |-> IF c \in conns THEN "closed" ELSE far[c]]
  /\ UNCHANGED <<chConn, apc, held, dpc, offer, near, panicked>>

\* Close, the first time; a second call changes nothing.
Close ==
  /\ ~panicked
  /\ ~closed
  /\ closed' = TRUE
  /\ chConn' = IF chConn = "nil" THEN "nil" ELSE "closed"
  /\ far' = [c \in Pipes |-> IF c \in conns THEN "closed" ELSE far[c]]
  /\ conns' = {}
  /\ UNCHANGED <<apc, held, dpc, offer, near, panicked>>

\* The server closes a connection Accept gave it.  pl.conns still lists it.
ServerHangUp(c) ==
  /\ ~panicked
  /\ far[c] = "served"
  /\ far' = [far EXCEPT ![c] = "closed"]
  /\ UNCHANGED <<closed, chConn, conns, apc, held, dpc, offer, near, panicked>>

\* The caller of Dialer closes the connection it obtained.
DialerHangUp(d) ==
  /\ ~panicked
  /\ dpc[d] = "conn"
  /\ near' = [near EXCEPT ![offer[d]] = "closed"]
  /\ offer' = [offer EXCEPT ![d] = NoPipe]
  /\ dpc' = [dpc EXCEPT ![d] = "idle"]
  /\ UNCHANGED <<closed, chConn, conns, apc, held, far, panicked>>

Next ==
  \/ \E a \in Acceptors : AcceptCall(a) \/ AcceptNil(a) \/ AcceptReturn(a)
  \/ \E d \in Dialers : \/ DialRefused(d) \/ DialCanceled(d)
                        \/ DialPanics(d) \/ DialerHangUp(d)
  \/ \E d \in Dialers, c \in Pipes : DialCall(d, c)
  \/ \E a \in Acceptors, d \in Dialers : HandOff(a, d)
  \/ Close
  \/ \E c \in Pipes : ServerHangUp(c)

Spec == Init /\ [][Next]_vars

\* A goroutine that can run is run: Accept goes on once its select is ready.
\* Nothing obliges anyone to call, to hang up or to cancel.
Fairness ==
  /\ \A a \in Acceptors : WF_vars(AcceptNil(a)) /\ WF_vars(AcceptReturn(a))
  /\ \A a \in Acceptors, d \in Dialers : WF_vars(HandOff(a, d))

FairSpec == Spec /\ Fairness

-----------------------------------------------------------------------------
\* Every variable keeps to the values its Go counterpart can take.
TypeOK ==
  /\ closed \in BOOLEAN
  /\ chConn \in {"nil", "open", "closed"}
  /\ conns \in SUBSET Pipes
  /\ apc \in [Acceptors -> AcceptStates]
  /\ held \in [Acceptors -> Pipes \cup {NoPipe}]
  /\ dpc \in [Dialers -> DialStates]
  /\ offer \in [Dialers -> Pipes \cup {NoPipe}]
  /\ far \in [Pipes -> FarStates]
  /\ near \in [Pipes -> NearStates]
  /\ panicked \in BOOLEAN

\* Once Close has run, no connection that Accept returned is still open: the
\* ones in pl.conns are closed by Close, and an Accept that was between its
\* receive and its second critical section does not return its connection.
CloseReclaims == closed => \A c \in Pipes : far[c] # "served"

\* A connection that Dialer returned is never lost: its other end is with
\* exactly one Accept that has yet to return it, or it was returned and
\* pl.conns knows it, or it is closed, so the dialing side sees the end.
NoOrphan ==
  \A d \in Dialers : dpc[d] = "conn" =>
    \/ \E a \in Acceptors :
         /\ apc[a] = "got" /\ held[a] = offer[d]
         /\ \A b \in Acceptors \ {a} : held[b] # offer[d]
    \/ far[offer[d]] = "served" /\ offer[d] \in conns
    \/ far[offer[d]] = "closed"

\* Who owns the accepting end of each pipe, and what Close relies on.  A pipe is
\* in the hands of one dialer, then of one Accept, then of the server; whatever
\* has been served is in pl.conns until Close empties it; and after Close no
\* dialer faces an open channel, because it had made the channel before.
Ownership ==
  /\ \A a \in Acceptors : apc[a] = "got" => held[a] \in Pipes /\ far[held[a]] = "pending"
  /\ \A a \in Acceptors : apc[a] # "got" => held[a] = NoPipe
  /\ \A a, b \in Acceptors : a # b /\ apc[a] = "got" => held[a] # held[b]
  /\ \A c \in Pipes : far[c] = "pending" => \E a \in Acceptors : held[a] = c
  /\ \A d \in Dialers : dpc[d] = "send" => offer[d] \in Pipes /\ far[offer[d]] = "made"
  /\ \A d, e \in Dialers : d # e /\ dpc[d] = "send" /\ dpc[e] = "send" => offer[d] # offer[e]
  /\ \A d \in Dialers : dpc[d] = "conn" =>
       offer[d] \in Pipes /\ far[offer[d]] \in {"pending", "served", "closed"}
  /\ \A c \in Pipes : far[c] = "served" => c \in conns
  /\ \A c \in conns : far[c] \in {"served", "closed"}
  /\ closed => conns = {}
  /\ chConn = "closed" => closed
  /\ \A d \in Dialers : dpc[d] = "send" => chConn # "nil" /\ (closed => chConn = "closed")

\* What the callers see of a connection, for the abstract listener.
lifeBar == [c \in Pipes |-> IF far[c] \in {"unmade", "made"} THEN "new" ELSE far[c]]

Abs == INSTANCE ConnListener WITH open <- ~closed, life <- lifeBar

\* pipe.go implements the abstract listener: connections are handed over and
\* served only while it is open, each at most once, and closing it closes all.
ImplementsListener == Abs!Spec

\* Closing a listener ends every connection that went through it: those already
\* returned and the one an Accept had in hand (unless the process panics).
CloseDrains ==
  \A c \in Pipes :
    (closed /\ far[c] \in {"pending", "served"}) ~> (far[c] = "closed" \/ panicked)

\* An Accept that was waiting when Close closed the channel returns.
CloseUnblocksAccept ==
  \A a \in Acceptors :
    (apc[a] = "recv" /\ chConn = "closed") ~> (apc[a] # "recv" \/ panicked)

-----------------------------------------------------------------------------
\* "Dialer implements the [DialerFn] type": a call returns a connection or an
\* error, whenever Close is called; it never ends the process.
DialerReturns == ~panicked

\* "PipeListener is a net.Listener": once it is closed, an Accept that waits is
\* unblocked and returns, whether it was called before or after Close.
AcceptReturnsOnceClosed ==
  \A a \in Acceptors :
    (closed /\ apc[a] = "recv") ~> (apc[a] # "recv" \/ panicked)
=============================================================================
