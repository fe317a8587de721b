---------------------------- MODULE PluginBridge ----------------------------
(***************************************************************************)
(* Inputs for accessories of Homebridge: from the daemon (apps/            *)
(* decksmith-daemon/src/plugin_runtime.rs) over a socket to the companion  *)
(* (plugins/openhomeb/runtime), which owns the plugin and passes it one    *)
(* command at a time.                                                      *)
(*                                                                         *)
(*   - the client is the execution service's lane (HomebridgeBackend),     *)
(*     which grants a command when the companion is ready to pass it, or   *)
(*     the single deck's worker (Queue, Worker), which does not;           *)
(*   - a connection is one exchange: its handler (hardware_bridge.py), the *)
(*     operation it runs (accessory_actions.py) and what is in transit;    *)
(*   - the panel (live_panel.py) reconnects for the user, or by itself;    *)
(*   - the host (paced_host.py) holds the command the plugin has not       *)
(*     answered.                                                           *)
(*                                                                         *)
(* The companion is one event loop: a step is what it does between two     *)
(* awaits.  A context that is left never comes back, so that a job only    *)
(* knows whether its context is the present one (`live`).  Twenty ticks    *)
(* are one turn.  Whether the catalogue is available and the trial's       *)
(* accessory fresh is a choice at each look.                               *)
(***************************************************************************)
EXTENDS Integers, Sequences

CONSTANTS
  Clients,   \* which of "lane" and "worker" runs
  Conn,      \* connections
  NoConn,
  Amount,    \* turns of one input; a key is 0
  MaxTurns,  \* turns that wait at most
  Onward     \* bound: does anything begin anew when doubt is "crossed"

ASSUME BridgeAssumption ==
  /\ Clients \subseteq {"lane", "worker"} /\ NoConn \notin Conn
  /\ Amount \subseteq Int /\ MaxTurns \in Nat \ {0} /\ Onward \in BOOLEAN

VARIABLES
  client,   \* the daemon's side
  conn,     \* the exchanges
  panel,    \* busy, manual_recovery, and what the panel itself does
  host,     \* the plugin's host
  doubt     \* history: "open" while it is not known what became of a command
            \* and the user has not reconnected; "crossed" once recover() has
            \* restarted the plugin by what it saw before an operation began

vars == <<client, conn, panel, host, doubt>>

\* `pure`: history, every input in it was made in the present context and
\* since the last exchange that failed.
Job(turns) == [turns |-> turns, live |-> TRUE, pure |-> TRUE]
NoJob == [turns |-> 0, live |-> FALSE, pure |-> FALSE]

\* The client's stream carries a decision and its end, the handler's replies
\* and its end.
Closed == [at |-> "done", watched |-> FALSE, decision |-> "none", left |-> TRUE,
           down |-> <<>>, same |-> FALSE, passed |-> FALSE,
           outcome |-> "none", verdict |-> "none"]
Opened == [Closed EXCEPT !.at = "request", !.left = FALSE]
Sent(x, reply) == IF x.left THEN x ELSE [x EXCEPT !.down = Append(@, reply)]
Ended(x) == [x EXCEPT !.at = "done", !.watched = FALSE, !.decision = "none", !.same = FALSE]

Fresh == [ready |-> TRUE, unknown |-> FALSE, running |-> TRUE, pending |-> NoConn]
Quiet == [busy |-> FALSE, manual |-> FALSE, stage |-> [by \in {"user", "recover"} |-> "none"]]

Init ==
  /\ \E kind \in Clients :
       client = [kind |-> kind, pc |-> "idle", on |-> NoConn, granted |-> FALSE,
                 blocked |-> FALSE, active |-> NoJob, pending |-> NoJob]
  /\ conn = [c \in Conn |-> Closed]
  /\ panel = Quiet /\ host = Fresh /\ doubt = "none"

Lane == client.kind = "lane"
Companion == <<panel, host, doubt>>
MayBegin == Onward \/ doubt # "crossed"

-----------------------------------------------------------------------------
(* The daemon.                                                             *)

\* A page, a lock, another application: no job's context is present any more.
ChangeContext ==
  /\ client.active.live
  /\ client' = [client EXCEPT !.active.live = FALSE, !.active.pure = FALSE,
                              !.pending.live = FALSE, !.pending.pure = FALSE]
  /\ UNCHANGED <<conn, Companion>>

Clamp(n, max) == IF n > max THEN max ELSE IF n < -max THEN -max ELSE n

Compatible(turns) == client.active.live /\ client.active.turns # 0 /\ turns # 0

\* A turn joins those that wait behind an exchange of turns; the merged job
\* is the new one.
Joined(turns) ==
  LET old == client.pending
      waits == old # NoJob
  IN  [Job(Clamp(old.turns + turns, MaxTurns)) EXCEPT !.pure = waits => old.pure]

\* The lane's dispatcher has joined turns before.
Submit ==
  /\ MayBegin
  /\ \/ /\ client.pc = "idle"
        /\ \E turns \in IF Lane THEN Amount \cup {MaxTurns} ELSE Amount :
             client' = [client EXCEPT !.pc = "begin", !.active = Job(turns)]
     \/ /\ client.pc # "idle" /\ ~Lane
        /\ \E turns \in Amount :
             /\ Compatible(turns)
             /\ client' = [client EXCEPT !.pending = Joined(turns)]
  /\ UNCHANGED <<conn, Companion>>

\* Faulty: what waits is exchanged whether or not the last exchange failed.
NextAnyway(cl, success) ==
  IF cl.pending = NoJob \/ cl.pending.turns = 0
    THEN [cl EXCEPT !.pc = "idle", !.active = NoJob, !.pending = NoJob]
    ELSE [cl EXCEPT !.pc = "begin", !.active = cl.pending, !.pending = NoJob]

\* What waits is taken a turn at a time, if it is not older than two seconds.
NextJob(cl, success) ==
  LET n == Clamp(cl.pending.turns, 1)
      rest == cl.pending.turns - n
  IN  IF cl.pending = NoJob \/ ~success \/ n = 0
        THEN [cl EXCEPT !.pc = "idle", !.active = NoJob, !.pending = NoJob]
        ELSE [cl EXCEPT !.pc = "begin", !.active = [cl.pending EXCEPT !.turns = n],
                        !.pending = IF rest = 0 THEN NoJob
                                    ELSE [cl.pending EXCEPT !.turns = rest]]

\* The lane goes on with the remaining turns of its job.
NextStep(cl, success) ==
  LET rest == cl.active.turns - Clamp(cl.active.turns, 1)
  IN  IF success /\ rest # 0
        THEN [cl EXCEPT !.pc = "begin", !.active.turns = rest]
        ELSE [cl EXCEPT !.pc = "idle", !.active = NoJob]

\* The client's answer to whoever submitted; what waits may have become old.
Verdict(v) ==
  LET over == [client EXCEPT !.on = NoConn, !.granted = FALSE,
                             !.blocked = @ \/ (Lane /\ v = "unknown"),
                             !.pending.pure = @ /\ v = "ok"]
  IN  IF Lane THEN client' = NextStep(over, v = "ok")
      ELSE \E young \in BOOLEAN : client' = NextJob(over, v = "ok" /\ young)

\* The answer also ends the client's stream.
Concluded(c, v) == [conn EXCEPT ![c].verdict = v, ![c].left = TRUE, ![c].down = <<>>]

Begin ==
  /\ client.pc = "begin" /\ MayBegin
  /\ \/ Verdict("never") /\ UNCHANGED conn \* blocked, not live, no socket
     \/ /\ ~client.blocked /\ client.active.live
        /\ \E c \in Conn :
             /\ conn[c].at = "done" /\ conn[c].left
             /\ client' = [client EXCEPT !.pc = "wait", !.on = c]
             /\ conn' = [d \in Conn |-> IF d = c THEN [Opened EXCEPT !.watched = ~Lane]
                                      ELSE IF conn[d].at = "done" THEN Closed ELSE conn[d]]
  /\ UNCHANGED Companion

\* Faulty: the grant is forgotten.
InterruptedEarly == IF Lane THEN "never" ELSE "unknown"
\* What the lane makes of an exchange that ends without an answer
\* ("plugin_cancelled" and "plugin_unavailable" are "never").
Interrupted == IF Lane /\ ~client.granted THEN "never" ELSE "unknown"

\* No longer allowed, five seconds over, or the end of the handler's stream.
GiveUp ==
  /\ client.pc = "wait"
  /\ Verdict(Interrupted) /\ conn' = Concluded(client.on, Interrupted)
  /\ UNCHANGED Companion

\* The companion is ready to pass the command; only the lane is asked.
Grant ==
  /\ client.pc = "wait"
  /\ LET c == client.on IN
     /\ conn[c].down # <<>> /\ Head(conn[c].down) = "ready"
     /\ \/ /\ client.active.live
           /\ conn' = [conn EXCEPT ![c].decision = "apply", ![c].down = Tail(@)]
           /\ client' = [client EXCEPT !.granted = TRUE]
        \/ /\ ~client.active.live
           /\ Verdict("never")
           /\ conn' = [Concluded(c, "never") EXCEPT ![c].decision = "abort"]
        \/ /\ conn[c].at = "done" \* the decision cannot be written
           /\ Verdict("unknown") /\ conn' = Concluded(c, "unknown")
  /\ UNCHANGED Companion

Answer ==
  /\ client.pc = "wait"
  /\ LET c == client.on IN
     /\ conn[c].down # <<>> /\ Head(conn[c].down) # "ready"
     /\ LET reply == Head(conn[c].down)
            v == CASE reply = "fail" -> "failed"
                   [] Lane /\ (reply = "ok") # client.granted -> "unknown"
                   [] OTHER -> "ok"
        IN  Verdict(v) /\ conn' = Concluded(c, v)
  /\ UNCHANGED Companion

-----------------------------------------------------------------------------
(* The companion: what the steps of a handler are made of.                 *)

\* What a loss of the host's process, or its stop, does to whoever counted on
\* it to be the same.
Moved(cs) == [c \in Conn |-> [cs[c] EXCEPT !.same = FALSE]]

\* Unconfirmed: the history remembers it until somebody reconnects.
Doubtful(c) ==
  doubt' = IF conn[c].passed /\ doubt = "none" THEN "open" ELSE doubt

\* perform returns; the handler will look at what it returned.
Return(c, outcome) ==
  [conn EXCEPT ![c].at = "returned", ![c].outcome = outcome, ![c].same = FALSE]

\* An exception before the command, and one after it.
Fail(c) ==
  /\ conn' = Return(c, "failed")
  /\ panel' = [panel EXCEPT !.busy = FALSE]
  /\ UNCHANGED <<host, doubt>>

\* Faulty: a command that failed is thought to need no reconnect.
FailLightly(c) ==
  /\ conn' = Return(c, "failed")
  /\ panel' = [panel EXCEPT !.busy = FALSE]
  /\ Doubtful(c)

FailDispatched(c) ==
  /\ conn' = Return(c, "failed")
  /\ panel' = [panel EXCEPT !.busy = FALSE, !.manual = TRUE]
  /\ Doubtful(c)

Quarantined == [host EXCEPT !.unknown = TRUE, !.ready = FALSE, !.pending = NoConn]

\* stop: the command under way is abandoned and its operation will hear of it.
StopHost(cs) ==
  LET c == host.pending IN
  /\ conn' = IF c = NoConn THEN Moved(cs) ELSE [Moved(cs) EXCEPT ![c].at = "abandoned"]
  /\ host' = [IF c = NoConn THEN host ELSE Quarantined EXCEPT !.ready = FALSE, !.running = FALSE]

AssignedReady == host.ready /\ ~host.unknown /\ ~panel.manual

-----------------------------------------------------------------------------
(* The companion: one exchange.                                            *)

Accept(c) ==
  /\ conn[c].at = "request"
  /\ \/ /\ ~panel.busy /\ AssignedReady
        /\ panel' = [panel EXCEPT !.busy = TRUE]
        /\ conn' = [conn EXCEPT ![c].at = "read"]
     \/ \* busy, or not ready
        /\ conn' = [conn EXCEPT ![c] = Ended(Sent(@, "fail"))]
        /\ UNCHANGED panel
  /\ UNCHANGED <<host, doubt>>

\* The accessory is read; a status, or the level of a light that is off, needs
\* no command.
ReadAccessory(c) ==
  /\ conn[c].at = "read"
  /\ \/ Fail(c)
     \/ /\ conn' = Return(c, "needless") /\ panel' = [panel EXCEPT !.busy = FALSE]
        /\ UNCHANGED <<host, doubt>>
     \/ /\ conn' = [conn EXCEPT ![c].at = "prepare"] /\ UNCHANGED Companion

\* The action appears in the plugin; the lane is asked for its grant.
Prepare(c) ==
  /\ conn[c].at = "prepare"
  /\ \/ Fail(c)
     \/ /\ host.ready
        /\ conn' = [conn EXCEPT ![c] =
             [IF @.watched THEN @ ELSE Sent(@, "ready") EXCEPT !.at = "ask"]]
        /\ UNCHANGED Companion

\* The lane aborted, closed, or let a second pass.
Unauthorized(c) ==
  /\ conn[c].at = "ask" /\ ~conn[c].watched
  /\ Fail(c)

\* The command goes to the plugin, or the attempt fails: then it is as
\* uncertain as one that is not answered.
Dispatch(c) ==
  /\ conn[c].at = "ask" /\ (conn[c].watched \/ conn[c].decision = "apply")
  /\ IF host.ready /\ host.pending = NoConn
     THEN /\ host' = [host EXCEPT !.pending = c]
          /\ conn' = [conn EXCEPT ![c].at = "dispatch", ![c].watched = TRUE,
                                  ![c].passed = TRUE, ![c].same = TRUE]
          /\ UNCHANGED <<panel, doubt>>
     ELSE FailDispatched(c) /\ UNCHANGED host

\* showOk, showAlert, or nothing for three seconds.
Completed(c) ==
  /\ conn[c].at = "dispatch" /\ host.pending = c
  /\ \/ /\ conn' = [conn EXCEPT ![c].at = "readback"]
        /\ host' = [host EXCEPT !.pending = NoConn]
        /\ UNCHANGED <<panel, doubt>>
     \/ /\ host.ready
        /\ conn' = [conn EXCEPT ![c].at = "reread"]
        /\ host' = [host EXCEPT !.pending = NoConn]
        /\ panel' = [panel EXCEPT !.manual = TRUE]
        /\ UNCHANGED doubt
     \/ /\ conn' = Moved(Return(c, "failed"))
        /\ host' = Quarantined
        /\ panel' = [panel EXCEPT !.busy = FALSE, !.manual = TRUE]
        /\ Doubtful(c)
     \/ /\ FailDispatched(c) \* the plugin's connection or authentication is gone
        /\ \E ready \in {FALSE, host.ready} :
             host' = [host EXCEPT !.pending = NoConn, !.ready = ready]

Abandoned(c) ==
  /\ conn[c].at = "abandoned"
  /\ FailDispatched(c) /\ UNCHANGED host

\* Three seconds of independent reads.
Readback(c) ==
  /\ conn[c].at = "readback"
  /\ \/ /\ conn' = Return(c, "confirmed") /\ panel' = [panel EXCEPT !.busy = FALSE]
        /\ UNCHANGED doubt
     \/ FailDispatched(c)
  /\ UNCHANGED host

\* The plugin rejected the command: one fresh read from the same host permits
\* the next input.
Reread(c) ==
  /\ conn[c].at = "reread"
  /\ \/ /\ conn[c].same /\ host.ready /\ ~host.unknown
        /\ conn' = Return(c, "failed")
        /\ panel' = [panel EXCEPT !.busy = FALSE, !.manual = FALSE]
        /\ UNCHANGED doubt
     \/ FailDispatched(c)
  /\ UNCHANGED host

Reply(c) ==
  /\ conn[c].at = "returned"
  /\ LET success == conn[c].outcome \in {"confirmed", "needless"} /\ ~panel.manual
         reply == IF ~success THEN "fail"
                  ELSE IF conn[c].watched THEN "ok" ELSE "needless"
     IN  conn' = [conn EXCEPT ![c] = Ended(Sent(@, reply))]
  /\ UNCHANGED Companion

\* Where an operation awaits; behind the command, it is dispatched.
Dispatched == {"dispatch", "readback", "reread", "abandoned"}
Operating == {"read", "prepare", "ask"} \cup Dispatched

\* The client has closed, or 4.5 seconds have passed: the operation is
\* cancelled before the host is stopped.
Interrupt(c) ==
  /\ conn[c].at \in Operating
  /\ IF host.pending = c
       THEN host' = Quarantined /\ conn' = Moved([conn EXCEPT ![c].at = "stopping"])
       ELSE conn' = [conn EXCEPT ![c].at = "stopping"] /\ UNCHANGED host
  /\ panel' = [panel EXCEPT !.busy = FALSE, !.manual = @ \/ conn[c].at \in Dispatched]
  /\ IF conn[c].at \in Dispatched THEN Doubtful(c) ELSE UNCHANGED doubt

\* So is the host when the client closed as the operation returned.
Crossed(c) ==
  /\ conn[c].at = "returned" /\ conn[c].left /\ conn[c].watched
  /\ conn' = [conn EXCEPT ![c].at = "stopping"]
  /\ UNCHANGED Companion

Stop(c) ==
  /\ conn[c].at = "stopping"
  /\ StopHost([conn EXCEPT ![c].at = "stopped"])
  /\ UNCHANGED <<panel, doubt>>

Stopped(c) ==
  /\ conn[c].at = "stopped"
  /\ conn' = [conn EXCEPT ![c] = Ended(@)]
  /\ panel' = [panel EXCEPT !.manual = TRUE]
  /\ UNCHANGED <<host, doubt>>

Handler(c) ==
  \/ Accept(c) \/ ReadAccessory(c) \/ Prepare(c) \/ Unauthorized(c) \/ Dispatch(c)
  \/ Completed(c) \/ Abandoned(c) \/ Readback(c) \/ Reread(c) \/ Reply(c)
  \/ Interrupt(c) \/ Crossed(c) \/ Stop(c) \/ Stopped(c)

-----------------------------------------------------------------------------
(* The companion: the panel reconnects, the plugin exits.                  *)

Staged(by, stage) == [panel EXCEPT !.stage[by] = stage]
Over(by) == [panel EXCEPT !.busy = FALSE, !.stage[by] = "none"]

\* Every reconnection begins with a stop of the host.
Reconnects(by) ==
  /\ panel' = [panel EXCEPT !.busy = TRUE, !.stage[by] = "start"]
  /\ StopHost(conn)

UserReconnects ==
  /\ MayBegin /\ ~panel.busy /\ panel.stage["user"] = "none"
  /\ Reconnects("user")
  /\ doubt' = IF doubt = "open" THEN "none" ELSE doubt
  /\ UNCHANGED client

\* Something is ready, or the plugin is restarted.
Decide ==
  \/ /\ host.ready /\ ~host.unknown
     /\ panel' = Staged("recover", "none") /\ UNCHANGED <<conn, host>>
  \/ Reconnects("recover")

\* recover, every few seconds; the first alternative awaits a read of the
\* trial's accessory, and comes back without looking again.
Look ==
  /\ MayBegin /\ panel.stage["recover"] = "none"
  /\ ~panel.busy /\ ~panel.manual /\ ~host.unknown
  /\ \/ /\ AssignedReady
        /\ panel' = Staged("recover", "reading") /\ UNCHANGED <<conn, host>>
     \/ Decide
  /\ UNCHANGED <<client, doubt>>

LookedAgain ==
  /\ panel.stage["recover"] = "reading"
  /\ \/ panel' = Staged("recover", "none") /\ UNCHANGED <<conn, host>> \* it failed
     \/ Decide
  /\ doubt' = IF (panel.busy \/ panel.manual) /\ panel'.stage["recover"] = "start"
                THEN "crossed" ELSE doubt
  /\ UNCHANGED client

Down == [host EXCEPT !.ready = FALSE, !.running = FALSE, !.unknown = FALSE]
CanStart ==
  ~host.running /\ host.pending = NoConn /\ \A c \in Conn : conn[c].at # "abandoned"

Reconnect(by) ==
  /\ \/ /\ panel.stage[by] = "start" \* the catalogue, the host or the plugin fails
        /\ host' \in {host} \cup (IF CanStart THEN {Down} ELSE {})
        /\ panel' = Over(by) /\ UNCHANGED conn
     \/ /\ panel.stage[by] = "start" /\ CanStart
        /\ host' = Fresh /\ conn' = Moved(conn) /\ panel' = Staged(by, "finish")
     \/ /\ panel.stage[by] = "finish"
        /\ panel' \in {Over(by), [Over(by) EXCEPT !.manual = FALSE]}
        /\ UNCHANGED <<conn, host>>
  /\ UNCHANGED <<client, doubt>>

PluginExits ==
  /\ host.ready /\ host' = [host EXCEPT !.ready = FALSE]
  /\ UNCHANGED <<client, conn, panel, doubt>>

\* The companion ends and starts again: every exchange ends where it is.
CompanionRestarts ==
  /\ conn' = [c \in Conn |-> Ended(conn[c])]
  /\ panel' = Quiet /\ host' \in {Fresh, [Fresh EXCEPT !.ready = FALSE, !.running = FALSE]}
  /\ doubt' = "none"
  /\ UNCHANGED client

-----------------------------------------------------------------------------
Daemon == ChangeContext \/ Submit \/ Begin \/ GiveUp \/ Grant \/ Answer
Serving(c) == Handler(c) /\ UNCHANGED client

Next ==
  \/ Daemon
  \/ \E c \in Conn : Serving(c)
  \/ UserReconnects \/ Look \/ LookedAgain
  \/ \E by \in {"user", "recover"} : Reconnect(by)
  \/ PluginExits \/ CompanionRestarts

Spec == Init /\ [][Next]_vars

-----------------------------------------------------------------------------
\* What the daemon says of an exchange is true of the plugin, also when the
\* two ends give up at different moments: the lane's "cancelled" and
\* "unavailable" were never passed on and will not be, and "ok" was confirmed
\* by a read or needed no command.
VerdictsTrue ==
  \A c \in Conn :
    /\ conn[c].verdict = "never" => ~conn[c].passed
    /\ conn[c].verdict = "ok" => conn[c].outcome \in {"confirmed", "needless"}

\* What is exchanged was asked for in the present context and after the last
\* exchange that failed: turns that waited for it are not replayed.
FreshInputs ==
  [][client.pc = "begin" /\ client'.pc = "wait" => client.active.live /\ client.active.pure]_vars

\* While it is not known what became of a command, the plugin is passed no
\* other until the user has reconnected (docs/openhomeb-runtime.md).  recover()
\* must not have been under way: it looks before it awaits a read, and not
\* again (README).
ExplicitRecovery ==
  [][\A c \in Conn : ~conn[c].passed /\ conn'[c].passed => doubt # "open"]_vars
=============================================================================
