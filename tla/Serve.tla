-------------------------------- MODULE Serve --------------------------------
(***************************************************************************)
(* The server of tgf serve (src/tgf/tgf_serve.cpp): client connections,    *)
(* grammar sessions, and the relay between a client and the child process  *)
(* of its session.  One thread runs one Asio loop, so a handler is one     *)
(* step; only a read handler is split, one step for each line of the       *)
(* chunk, and nothing else runs until the chunk ends (rx).                 *)
(*                                                                         *)
(* Bytes are abstracted to lines, times to "long enough ago" and timers to *)
(* "may fire while armed".  A killed child dies within the grace that      *)
(* shutdown_session gives it, an open log takes every write, and logging   *)
(* is on.  Clients, children and the network are the environment: a client *)
(* may send, stall or leave at any time, a child may answer, hang or exit. *)
(***************************************************************************)
EXTENDS Naturals, Sequences, FiniteSets

CONSTANTS
  Conns,          \* bound: the connections accepted in a run
  Sessions,       \* bound: the sessions started in a run
  None,
  MaxSessions,    \* serve_options::max_sessions
  MaxOpen,        \* serve_open_requests_limit
  MaxOut,         \* serve_conn_out_limit, in lines
  MaxDetached,    \* serve_detached_limit, in lines
  IdleTimeout,    \* whether serve_options::idle_timeout_minutes is set
  WriteTimeout,   \* whether serve_options::write_timeout_seconds is set
  MaxLines        \* bound: the lines all clients send in a run

ASSUME ServeAssumption ==
  /\ None \notin Conns \cup Sessions
  /\ Sessions \cap {"new", "eval", "quit", "end"} = {}       \* the kinds of lines
  /\ Conns \cap (Sessions \X {"to", "from"}) = {}  \* the names of descriptors
  /\ MaxSessions \in Nat \ {0} /\ MaxOpen \in Nat \ {0} /\ MaxOut \in Nat \ {0}
  /\ MaxDetached \in Nat /\ MaxLines \in Nat
  /\ IdleTimeout \in BOOLEAN /\ WriteTimeout \in BOOLEAN

VARIABLES
  conn,     \* serve_connection, by connection
  ses,      \* serve_session, by session
  tracked,  \* child_fds: the descriptors a forked child closes
  report,   \* whether the server report holds a log failure
  rx,       \* the connection whose read handler runs, or None
  lines,    \* the lines the clients have sent
  up        \* whether the Asio loop runs

vars == <<conn, ses, tracked, report, rx, lines, up>>

(***************************************************************************)
(* A connection.  st is closed and close_when_drained; "lost" is one that  *)
(* no handler references any more, which destroys it.  out is the length   *)
(* of the output queue, timer whether a wait on write_timer is pending.    *)
(***************************************************************************)
NewConn == [st |-> "unborn", ses |-> None, out |-> 0, paused |-> FALSE,
            reading |-> FALSE, timer |-> FALSE]

(***************************************************************************)
(* A session: st "ending" is ended, "gone" is shutting_down.  toChild is   *)
(* what the child still has to answer, the hello it writes by itself first,*)
(* and fromChild its answers on the way back; a line keeps its number in   *)
(* its answer.  given is auxiliary: the answers sent to a client or dropped*)
(* from the buffer.  idle and silent: last_activity and last_child_output  *)
(* are the idle timeout ago.                                               *)
(***************************************************************************)
NewSession == [st |-> "free", conn |-> None, open |-> 0, quitPending |-> FALSE,
               quitWait |-> 0, child |-> "none", toChild |-> << >>,
               fromChild |-> << >>, detached |-> << >>, next |-> 0, given |-> 0,
               idle |-> FALSE, silent |-> FALSE, endTimer |-> FALSE,
               logOpen |-> FALSE, logOk |-> FALSE]

\* the state the handlers pass on to each other
World == [conn |-> conn, ses |-> ses, tracked |-> tracked, report |-> report]

IsOpen(w, c) == w.conn[c].st \in {"open", "draining"}
Ended(w, s)  == w.ses[s].st \in {"ending", "gone"}
InTable(w)   == {s \in Sessions : w.ses[s].st \in {"live", "ending"}}
Pipes(s)     == {<<s, "to">>, <<s, "from">>}

-------------------------------------------------------------------------------
(***************************************************************************)
(* What the handlers are built from.                                       *)
(***************************************************************************)
\* log_write: a write to a log that shutdown_session closed fails
LogWrite(w, s) ==
  IF w.ses[s].logOk /\ ~w.ses[s].logOpen
  THEN [w EXCEPT !.ses[s].logOk = FALSE, !.report = TRUE]
  ELSE w

\* mutant: the session keeps the closed client
CloseKeepsClient(w, c) ==
  IF ~IsOpen(w, c) THEN w
  ELSE [w EXCEPT !.conn[c] = [NewConn EXCEPT !.st = "closed"], !.tracked = @ \ {c}]

Close(w, c) ==
  LET s == w.conn[c].ses
      v == [w EXCEPT !.conn[c] = [NewConn EXCEPT !.st = "closed"], !.tracked = @ \ {c}]
  IN  IF ~IsOpen(w, c) THEN w
      ELSE IF s = None THEN v
      ELSE LogWrite([v EXCEPT !.ses[s].conn = IF @ = c THEN None ELSE @], s)

CloseAfterFlush(w, c) ==
  IF ~IsOpen(w, c) THEN w
  ELSE IF w.conn[c].out = 0 THEN Close(w, c) ELSE [w EXCEPT !.conn[c].st = "draining"]

Congested(w, c) ==
  \/ w.conn[c].out >= MaxOut
  \/ w.conn[c].ses # None /\ w.ses[w.conn[c].ses].open >= MaxOpen

\* mutant: a pause is never undone
UpdateReadStateStays(w, c) ==
  IF IsOpen(w, c) /\ Congested(w, c) THEN [w EXCEPT !.conn[c].paused = TRUE] ELSE w

UpdateReadState(w, c) ==
  LET resumed == [w.conn[c] EXCEPT !.paused = FALSE, !.reading = TRUE]
  IN  IF ~IsOpen(w, c) THEN w
      ELSE IF Congested(w, c) THEN [w EXCEPT !.conn[c].paused = TRUE]
      ELSE IF w.conn[c].paused THEN [w EXCEPT !.conn[c] = resumed] ELSE w

\* mutant: the first write arms no deadline
SendUntimed(w, c, k) ==
  IF ~IsOpen(w, c) \/ k = 0 THEN w
  ELSE UpdateReadState([w EXCEPT !.conn[c].out = @ + k], c)

\* k lines, one after the other; the first of an empty queue arms the deadline
Send(w, c, k) ==
  LET x == w.conn[c]
      q == [x EXCEPT !.out = x.out + k, !.timer = IF x.out = 0 THEN WriteTimeout ELSE x.timer]
  IN  IF ~IsOpen(w, c) \/ k = 0 THEN w ELSE UpdateReadState([w EXCEPT !.conn[c] = q], c)

\* an answer of the server itself, and the end of the connection
Refuse(w, c) == CloseAfterFlush(Send(w, c, 1), c)

SendToChild(w, s, kind) ==
  LET x == w.ses[s]
      y == [x EXCEPT !.toChild = Append(x.toChild, [n |-> x.next, kind |-> kind]),
                     !.next = x.next + 1]
  IN  IF Ended(w, s) THEN w ELSE [w EXCEPT !.ses[s] = y]

\* what the relay held is dropped with the session
Shutdown(w, s) ==
  LET v == [w EXCEPT !.ses[s].st = "gone"]
      u == IF v.ses[s].conn = None THEN v ELSE CloseAfterFlush(v, v.ses[s].conn)
  IN  IF w.ses[s].st = "gone" THEN w
      ELSE [u EXCEPT !.ses[s] = [NewSession EXCEPT !.st = "gone", !.conn = u.ses[s].conn,
                                   !.open = u.ses[s].open, !.logOk = u.ses[s].logOk],
                     !.tracked = @ \ Pipes(s)]

\* mutant: a child that stays is never stopped
EndSessionUntimed(w, s) ==
  LET v == [w EXCEPT !.ses[s].st = "ending", !.tracked = @ \ {<<s, "to">>}]
  IN  IF Ended(w, s) THEN w
      ELSE IF v.ses[s].conn = None THEN v ELSE Refuse(v, v.ses[s].conn)

EndSession(w, s) ==
  LET v == [w EXCEPT !.ses[s] = [w.ses[s] EXCEPT !.st = "ending", !.endTimer = TRUE],
                     !.tracked = @ \ {<<s, "to">>}]
  IN  IF Ended(w, s) THEN w
      ELSE IF v.ses[s].conn = None THEN v ELSE Refuse(v, v.ses[s].conn)

\* mutant: the buffer is sent and kept
AttachKeepsBuffer(w, s, c) ==
  Send([w EXCEPT !.conn[c].ses = s, !.ses[s].conn = c, !.ses[s].idle = FALSE],
       c, Len(w.ses[s].detached))

\* the buffered answers go to the client before anything else does
Attach(w, s, c) ==
  LET x == w.ses[s]
      k == Len(x.detached)
      y == [x EXCEPT !.conn = c, !.idle = FALSE, !.detached = << >>, !.given = x.given + k]
  IN  Send([w EXCEPT !.conn[c].ses = s, !.ses[s] = y], c, k)

-------------------------------------------------------------------------------
(***************************************************************************)
(* The lines of a client: "new", "quit", "end", a session (an attach), and *)
(* "eval" for every other one.  Only a first line can be answered in more  *)
(* than one way: a fork, a pipe or the random source may fail.             *)
(***************************************************************************)
\* mutant: the pipe the child's answers come from is not in the list
NewStartedUntracked(w, c, s) ==
  [w EXCEPT !.ses[s] = [NewSession EXCEPT
                !.st = "live", !.conn = c, !.open = 1, !.child = "running",
                !.toChild = <<[n |-> 0, kind |-> "hello"]>>, !.next = 1,
                !.logOpen = TRUE, !.logOk = TRUE],
            !.conn[c].ses = s, !.tracked = @ \cup {<<s, "to">>}]

NewStarted(w, c, s) ==
  [w EXCEPT !.ses[s] = [NewSession EXCEPT
                !.st = "live", !.conn = c, !.open = 1, !.child = "running",
                !.toChild = <<[n |-> 0, kind |-> "hello"]>>, !.next = 1,
                !.logOpen = TRUE, !.logOk = TRUE],
            !.conn[c].ses = s, !.tracked = @ \cup Pipes(s)]

HandleNew(w, c) ==
  {Refuse(w, c)} \cup
    {NewStarted(w, c, s) : s \in {r \in Sessions : /\ w.ses[r].st = "free"
                                                   /\ Cardinality(InTable(w)) < MaxSessions}}

\* mutant: the hello a new client asks for is no open request
HandleAttachUncounted(w, c, s) ==
  IF s \notin InTable(w) \/ Ended(w, s) \/ w.ses[s].conn # None
  THEN Refuse(w, c)
  ELSE SendToChild(Attach(w, s, c), s, "hello")

HandleAttach(w, c, s) ==
  IF s \notin InTable(w) \/ Ended(w, s) \/ w.ses[s].conn # None
  THEN Refuse(w, c)
  ELSE SendToChild([Attach(w, s, c) EXCEPT !.ses[s].open = @ + 1], s, "hello")

Forward(w, c, s, kind) ==
  UpdateReadState(SendToChild([w EXCEPT !.ses[s].open = @ + 1], s, kind), c)

\* mutant: the count is taken before the quit is an open request itself
QuitEarly(w, c, s) ==
  Forward([w EXCEPT !.ses[s].quitPending = TRUE, !.ses[s].quitWait = w.ses[s].open],
          c, s, "quit")

Quit(w, c, s) ==
  LET x == w.ses[s]
      y == [x EXCEPT !.quitPending = TRUE, !.quitWait = x.open + 1]
  IN  Forward([w EXCEPT !.ses[s] = y], c, s, "quit")

HandleRequest(w, c, kind) ==
  LET s == w.conn[c].ses
      v == [w EXCEPT !.ses[s].idle = FALSE]
  IN  IF Ended(w, s) THEN Close(w, c)
      ELSE CASE kind = "quit" -> Quit(v, c, s)
             [] kind = "end"  -> EndSession(v, s)
             [] OTHER         -> Forward(v, c, s, "eval")

LineKinds == {"new", "eval", "quit", "end"} \cup Sessions

\* handle_line and handle_first_line
HandleLine(w, c, kind) ==
  IF w.conn[c].st # "open" THEN {w}
  ELSE IF w.conn[c].ses # None THEN {HandleRequest(w, c, kind)}
  ELSE CASE kind = "new"      -> HandleNew(w, c)
         [] kind \in Sessions -> {HandleAttach(w, c, kind)}
         [] OTHER             -> {Refuse(w, c)}

\* handle_too_long: answered in any state of the connection
HandleTooLong(w, c) ==
  Send(IF w.conn[c].ses = None THEN w ELSE LogWrite(w, w.conn[c].ses), c, 1)

(***************************************************************************)
(* An answer of the child: to the client, or to the buffer.                *)
(***************************************************************************)
Deliver(w, s, a) ==
  LET x == w.ses[s]
      closes == x.quitPending /\ x.quitWait <= 1
      full == Len(x.detached) >= MaxDetached
      y == [x EXCEPT !.open = IF x.open > 0 THEN x.open - 1 ELSE 0,
                     !.quitWait = IF x.quitPending /\ x.quitWait > 0 THEN x.quitWait - 1
                                  ELSE x.quitWait,
                     !.quitPending = x.quitPending /\ ~closes,
                     !.idle = FALSE, !.silent = FALSE]
      b == Append(x.detached, a)
      u == Send([w EXCEPT !.ses[s] = [y EXCEPT !.given = a.n + 1]], x.conn, 1)
  IN  IF x.conn # None
      THEN IF closes THEN CloseAfterFlush(u, x.conn) ELSE u
      ELSE [w EXCEPT !.ses[s] = [y EXCEPT !.detached = IF full THEN Tail(b) ELSE b,
                                          !.given = IF full THEN x.given + 1 ELSE x.given]]

-------------------------------------------------------------------------------
(***************************************************************************)
(* A handler returns: a connection that no pending read, write or timer    *)
(* keeps is destroyed.  Its descriptor stays in child_fds.                 *)
(***************************************************************************)
Unreferenced(w, c, r) ==
  /\ IsOpen(w, c) /\ r # c
  /\ ~w.conn[c].reading /\ w.conn[c].out = 0 /\ ~w.conn[c].timer

Becomes(w, r) ==
  LET Lost(c) == Unreferenced(w, c, r)
  IN  /\ conn' = [c \in Conns |-> IF Lost(c) THEN [NewConn EXCEPT !.st = "lost"]
                                  ELSE w.conn[c]]
      /\ ses' = [s \in Sessions |-> IF w.ses[s].conn \in {c \in Conns : Lost(c)}
                                    THEN [w.ses[s] EXCEPT !.conn = None] ELSE w.ses[s]]
      /\ tracked' = w.tracked /\ report' = w.report /\ rx' = r

Handler == up /\ rx = None

Init ==
  /\ conn = [c \in Conns |-> NewConn] /\ ses = [s \in Sessions |-> NewSession]
  /\ tracked = {} /\ report = FALSE /\ rx = None /\ lines = 0 /\ up = TRUE

(***************************************************************************)
(* Connection handlers.                                                    *)
(***************************************************************************)
Accept(c) ==
  /\ Handler /\ conn[c].st = "unborn"
  /\ Becomes([World EXCEPT !.conn[c] = [conn[c] EXCEPT !.st = "open", !.reading = TRUE],
                           !.tracked = @ \cup {c}], None)
  /\ UNCHANGED <<lines, up>>

LineOf(w, c) ==
  /\ lines < MaxLines /\ lines' = lines + 1
  /\ \/ \E kind \in LineKinds : \E v \in HandleLine(w, c, kind) : Becomes(v, c)
     \/ Becomes(HandleTooLong(w, c), c)
  /\ UNCHANGED up

\* a chunk with its first line; a chunk without a whole line changes nothing
OnRead(c) ==
  /\ Handler /\ conn[c].reading
  /\ LineOf([World EXCEPT !.conn[c].reading = FALSE], c)

NextLine(c) == up /\ rx = c /\ LineOf(World, c)

EndChunk(c) ==
  /\ up /\ rx = c
  /\ Becomes(IF conn[c].st = "open" /\ ~conn[c].paused
             THEN [World EXCEPT !.conn[c].reading = TRUE] ELSE World, None)
  /\ UNCHANGED <<lines, up>>

\* a read or a write fails, or the deadline passes
ConnectionFails(c) ==
  /\ Handler
  /\ conn[c].reading \/ conn[c].out > 0
  /\ Becomes(Close(World, c), None)
  /\ UNCHANGED <<lines, up>>

Deadline(c) ==
  /\ Handler /\ conn[c].timer
  /\ Becomes(Close(World, c), None)
  /\ UNCHANGED <<lines, up>>

WriteDone(c) ==
  /\ Handler /\ conn[c].out > 0
  /\ LET k == conn[c].out - 1
         w == [World EXCEPT !.conn[c].out = k]
     IN  Becomes(IF k = 0 /\ conn[c].st = "draining" THEN Close(w, c)
                 ELSE UpdateReadState(
                        [w EXCEPT !.conn[c].timer = IF k > 0 THEN WriteTimeout ELSE @], c),
                 None)
  /\ UNCHANGED <<lines, up>>

(***************************************************************************)
(* The child process.                                                      *)
(***************************************************************************)
ChildIs(s, x) == ses' = [ses EXCEPT ![s] = x] /\ UNCHANGED <<conn, tracked, report, rx, lines, up>>

ChildAnswers(s) ==
  /\ Handler /\ ses[s].child = "running" /\ ses[s].toChild # << >>
  /\ ChildIs(s, [ses[s] EXCEPT !.toChild = Tail(@),
                               !.fromChild = Append(@, Head(ses[s].toChild))])

ChildExits(s) ==
  /\ Handler /\ ses[s].child = "running"
  /\ ChildIs(s, [ses[s] EXCEPT !.child = "exited"])

(***************************************************************************)
(* Session handlers.                                                       *)
(***************************************************************************)
Relay(s, w) == Becomes(w, None) /\ UNCHANGED <<lines, up>>

ReadAnswer(s) ==
  /\ Handler /\ ses[s].fromChild # << >>
  /\ LET a == Head(ses[s].fromChild)
         w == [World EXCEPT !.ses[s].fromChild = Tail(@)]
     IN  Relay(s, IF Ended(World, s) THEN w ELSE Deliver(w, s, a))

\* the end of the child's output, or its exit: SIGCHLD may come first
ChildGone(s) ==
  /\ Handler /\ s \in InTable(World) /\ ses[s].child = "exited"
  /\ Relay(s, Shutdown(World, s))

\* a write fails: the child is gone, or end_session closed the pipe under it
PipeError(s) ==
  /\ Handler /\ s \in InTable(World)
  /\ ses[s].child = "exited" \/ ses[s].st = "ending"
  /\ \E i \in DOMAIN ses[s].toChild : ses[s].toChild[i].n > 0
  /\ Relay(s, Shutdown(World, s))

EndTimer(s) ==
  /\ Handler /\ ses[s].endTimer
  /\ Relay(s, Shutdown(World, s))

TimePasses(s) ==
  /\ Handler /\ IdleTimeout /\ ses[s].st = "live"
  /\ \E i \in {ses[s].idle, TRUE} : ChildIs(s, [ses[s] EXCEPT !.silent = TRUE, !.idle = i])

\* mutant: a session that waits for its child is never idle
IdleUnlessWaiting(x) == x.open = 0 /\ x.idle

IdleBy(x) == IF x.open # 0 THEN x.silent ELSE x.idle

CheckIdle(s) ==
  /\ Handler /\ IdleTimeout /\ ses[s].st = "live" /\ IdleBy(ses[s])
  /\ Relay(s, Shutdown(World, s))

(***************************************************************************)
(* A stop signal ends the loop, and run() shuts down what is in the table. *)
(***************************************************************************)
Stop == Handler /\ up' = FALSE /\ UNCHANGED <<conn, ses, tracked, report, rx, lines>>

EndOfRun(s) == ~up /\ s \in InTable(World) /\ Relay(s, Shutdown(World, s))

Stopped == ~up /\ InTable(World) = {} /\ UNCHANGED vars

Next ==
  \/ \E c \in Conns : \/ Accept(c) \/ OnRead(c) \/ NextLine(c) \/ EndChunk(c)
                      \/ ConnectionFails(c) \/ Deadline(c) \/ WriteDone(c)
  \/ \E s \in Sessions : \/ ChildAnswers(s) \/ ChildExits(s) \/ ReadAnswer(s)
                         \/ ChildGone(s) \/ PipeError(s) \/ EndTimer(s)
                         \/ TimePasses(s) \/ CheckIdle(s) \/ EndOfRun(s)
  \/ Stop \/ Stopped

(***************************************************************************)
(* The loop runs what is ready, a timer that is armed fires and time goes  *)
(* on; nothing is asked of clients, of children or of the network.         *)
(***************************************************************************)
Fairness ==
  /\ \A c \in Conns : WF_vars(EndChunk(c)) /\ WF_vars(Deadline(c))
  /\ \A s \in Sessions : /\ WF_vars(ReadAnswer(s)) /\ WF_vars(EndTimer(s))
                         /\ WF_vars(TimePasses(s)) /\ WF_vars(CheckIdle(s))

Spec == Init /\ [][Next]_vars
FairSpec == Spec /\ Fairness

-------------------------------------------------------------------------------
(***************************************************************************)
(* What the relay must keep true.                                          *)
(***************************************************************************)
Answers == [n : Nat, kind : {"hello", "eval", "quit"}]

Clients == [st : {"unborn", "open", "draining", "closed", "lost"},
            ses : Sessions \cup {None}, out : Nat, paused : BOOLEAN,
            reading : BOOLEAN, timer : BOOLEAN]

Relayed == [st : {"free", "live", "ending", "gone"}, conn : Conns \cup {None},
            open : Nat, quitPending : BOOLEAN, quitWait : Nat,
            child : {"none", "running", "exited"}, toChild : Seq(Answers),
            fromChild : Seq(Answers), detached : Seq(Answers), next : Nat, given : Nat,
            idle : BOOLEAN, silent : BOOLEAN, endTimer : BOOLEAN,
            logOpen : BOOLEAN, logOk : BOOLEAN]

\* The records keep their fields, and the buffer of a session without a
\* client stays within serve_detached_limit (deliver drops the oldest).
TypeOK ==
  /\ conn \in [Conns -> Clients] /\ ses \in [Sessions -> Relayed]
  /\ \A s \in Sessions : Len(ses[s].detached) <= MaxDetached
  /\ tracked \subseteq Conns \cup (Sessions \X {"to", "from"})
  /\ report \in BOOLEAN /\ rx \in Conns \cup {None} /\ lines \in 0..MaxLines
  /\ up \in BOOLEAN

Live(s) == ses[s].st = "live"

\* the answers the relay still owes, oldest first
Owed(s) == ses[s].fromChild \o ses[s].toChild

\* A connection and a session point at each other or not at all, whoever of
\* them closed, ended or was destroyed first: no two clients share a session
\* (handle_attach, close, detach).
OneClient ==
  \A c \in Conns, s \in Sessions :
    ses[s].conn = c <=> IsOpen(World, c) /\ conn[c].ses = s

\* open_requests is the number of answers the child still owes, through
\* hellos, detaches, attaches and quits (handle_new, handle_attach,
\* handle_request, deliver).
OpenRequestsExact == \A s \in Sessions : Live(s) => ses[s].open = Len(Owed(s))

\* quit_wait counts down to the answer of a quit and to no other answer, also
\* while the client is away (handle_request, deliver).
QuitWaitExact ==
  \A s \in Sessions : Live(s) /\ ses[s].quitPending =>
    /\ ses[s].quitWait \in DOMAIN Owed(s)
    /\ Owed(s)[ses[s].quitWait].kind = "quit"

\* Both counts of a session agree with the answers under way, whoever asked for
\* them, left and attached meanwhile (handle_request, deliver, detach).
CountsExact == OpenRequestsExact /\ QuitWaitExact

\* Every answer reaches a client or the buffer once, in the order of the
\* requests, across any number of detaches and attaches (deliver, attach).
AnswersInOrder ==
  \A s \in Sessions : Live(s) =>
    LET a == ses[s].detached \o Owed(s)
    IN  /\ ses[s].given + Len(a) = ses[s].next
        /\ \A i \in DOMAIN a : a[i].n = ses[s].given + i - 1

\* Whatever the server holds open is on the list a forked child closes, so a
\* child keeps no socket and no pipe of another session (track_fd, untrack_fd
\* and every close).
ChildInheritsNothing ==
  /\ \A c \in Conns : IsOpen(World, c) => c \in tracked
  /\ \A s \in Sessions : /\ Live(s) => Pipes(s) \subseteq tracked
                         /\ s \in InTable(World) => <<s, "from">> \in tracked

\* A client is read from, except while its output or its session has no room:
\* no order of pauses, answers and writes leaves one waiting for nothing
\* (on_read, deliver, update_read_state).
NeverStalled ==
  \A c \in Conns : conn[c].st = "open" /\ rx # c =>
    conn[c].reading \/ (conn[c].paused /\ Congested(World, c))

\* A session whose client ended it leaves the table, also when its child hangs
\* (end_session, start_end_timer).
EndedLeaves == \A s \in Sessions : ses[s].st = "ending" ~> ses[s].st = "gone" \/ ~up

\* A connection that only drains is closed, also when its client reads nothing
\* (close_after_flush, arm_write_timer).
DrainingCloses ==
  \A c \in Conns : conn[c].st = "draining" ~> conn[c].st = "closed" \/ ~up

\* A session whose child owes answers gets them or ends: a hung child does not
\* keep its client waiting (check_idle, deliver).
Waits(s) == Live(s) /\ ses[s].open # 0
RequestsEnd == \A s \in Sessions : Waits(s) ~> ~Waits(s) \/ ~up

(***************************************************************************)
(* What the documentation says of it.                                      *)
(***************************************************************************)
\* A connection keeps its socket until it closes it, so the list of
\* descriptors holds no closed one.
NoStaleDescriptor == \A c \in tracked \cap Conns : IsOpen(World, c)

\* Every log takes every write here, so no run reports a log failure.
CleanReport == ~report
===============================================================================
