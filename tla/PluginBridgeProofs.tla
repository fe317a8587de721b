------------------------- MODULE PluginBridgeProofs -------------------------
(***************************************************************************)
(* Proofs about PluginBridge for any connections, amounts and limits.      *)
(* IInv has four parts: what waits behind an exchange (Waiting), what a    *)
(* connection's verdict rests on (Told, Asking), and who holds the panel   *)
(* (Owned, which recover() may break: then the history says "crossed").    *)
(* Every step of the companion changes an exchange as Obeys says, and the  *)
(* owners as Shift says; each part follows from these.                     *)
(***************************************************************************)
EXTENDS PluginBridge, TLAPS

Ats == {"done", "request", "read", "prepare", "ask", "dispatch", "readback", "reread",
        "abandoned", "returned", "stopping", "stopped"}
Replies == {"ready", "ok", "needless", "fail"}
Good == {"confirmed", "needless"}

Exchange == [at: Ats, watched: BOOLEAN, decision: {"none", "apply", "abort"}, left: BOOLEAN,
             down: Seq(Replies), same: BOOLEAN, passed: BOOLEAN,
             outcome: {"none", "failed", "needless", "confirmed"},
             verdict: {"none", "never", "ok", "failed", "unknown"}]
JobType == [turns: Int, live: BOOLEAN, pure: BOOLEAN]
ClientType == [kind: {"lane", "worker"}, pc: {"idle", "begin", "wait"}, on: Conn \cup {NoConn},
               granted: BOOLEAN, blocked: BOOLEAN, active: JobType, pending: JobType]
PanelType == [busy: BOOLEAN, manual: BOOLEAN,
              stage: [{"user", "recover"} -> {"none", "reading", "start", "finish"}]]
HostType == [ready: BOOLEAN, unknown: BOOLEAN, running: BOOLEAN, pending: Conn \cup {NoConn}]
Doubts == {"none", "open", "crossed"}

Typed ==
  /\ client \in ClientType /\ conn \in [Conn -> Exchange]
  /\ panel \in PanelType /\ host \in HostType /\ doubt \in Doubts

\* What is to be exchanged, and what waits, is of the present context and asked
\* for since the last failure, or its context is gone.
Waiting ==
  /\ client.active.live => client.pc # "idle" /\ client.active.pure
  /\ client.pending # NoJob =>
       /\ client.pc # "idle" /\ ~Lane
       /\ client.pending.live = client.active.live
       /\ client.pending.live => client.pending.pure

Early == {"request", "read", "prepare"}

\* A connection alone: "never" cannot be passed on any more, "ok" is final, and
\* the companion's replies say what became of the input.
Told(x) ==
  /\ x.verdict = "never" => ~x.passed /\ (x.at # "done" => ~x.watched /\ x.decision # "apply")
  /\ x.verdict = "ok" => x.at = "done" /\ x.outcome \in Good
  /\ x.at \in Early => x.down = <<>>
  /\ \A i \in 1..Len(x.down) :
       /\ x.down[i] = "ready" => i = 1 /\ Lane
       /\ x.down[i] \in {"ok", "needless"} => x.at = "done" /\ x.outcome \in Good
  /\ ~Lane /\ x.at # "done" => x.watched

\* The connection the client waits for: without a grant nothing was passed, and
\* a grant is given once.
Asking ==
  IF client.pc = "wait"
    THEN LET x == conn[client.on] IN
      /\ client.on \in Conn /\ x.verdict = "none" /\ ~x.left
      /\ client.granted => x.at \notin Early /\ \A i \in 1..Len(x.down) : x.down[i] # "ready"
      /\ Lane /\ ~client.granted =>
           ~x.passed /\ x.decision = "none" /\ (x.at # "done" => ~x.watched)
    ELSE ~client.granted

\* The plugin's command is the one of an operation that waits for its answer.
PendingOK == host.pending # NoConn => conn[host.pending].at = "dispatch"

Owns(c) == conn[c].at \in Operating
Reconnecting(by) == panel.stage[by] \in {"start", "finish"}
Ways == {"user", "recover"}

\* One operation or reconnection at a time holds the panel, unless recover() has
\* crossed one; and none does while it is not known what became of a command.
Owned ==
  doubt # "crossed" =>
    /\ \A c, d \in Conn : Owns(c) /\ Owns(d) => c = d
    /\ \A c \in Conn : Owns(c) => panel.busy /\ \A by \in Ways : ~Reconnecting(by)
    /\ \A by \in Ways : Reconnecting(by) => panel.busy
    /\ ~(Reconnecting("user") /\ Reconnecting("recover"))
    /\ doubt = "open" =>
         panel.manual /\ (\A c \in Conn : ~Owns(c)) /\ \A by \in Ways : ~Reconnecting(by)

IInv ==
  Typed /\ Waiting /\ (\A c \in Conn : Told(conn[c])) /\ Asking /\ PendingOK /\ Owned

-----------------------------------------------------------------------------
(* What a step of the companion does to an exchange.                       *)

Obeys(x, y) ==
  /\ y.left = x.left /\ y.verdict = x.verdict
  /\ x.at = "done" => y.at = "done" /\ y.outcome = x.outcome /\ y.down = x.down
  /\ y.at \in Early => x.at \in Early /\ y.down = x.down
  /\ y.passed /\ ~x.passed => x.at = "ask" /\ (x.watched \/ x.decision = "apply")
  /\ x.passed => y.passed
  /\ y.at # "done" => /\ y.decision = x.decision /\ (x.watched => y.watched)
                      /\ y.watched => x.watched \/ x.decision = "apply"
  /\ y.decision \in {x.decision, "none"}
  /\ \/ y.down = x.down
     \/ \E reply \in Replies :
          /\ y.down = Append(x.down, reply) /\ x.at # "done"
          /\ reply = "ready" => x.at = "prepare" /\ y.at = "ask" /\ ~x.watched
          /\ reply \in {"ok", "needless"} => y.at = "done" /\ y.outcome \in Good
  /\ y.at # "done" /\ y.down # x.down => y.at = "ask"
  /\ y.at = "done" => y.outcome = x.outcome

LEMMA AppendedReplies ==
  ASSUME NEW s \in Seq(Replies), NEW reply \in Replies
  PROVE  /\ Append(s, reply) \in Seq(Replies) /\ Len(Append(s, reply)) = Len(s) + 1
         /\ \A i \in 1..Len(Append(s, reply)) :
              Append(s, reply)[i] = IF i = Len(s) + 1 THEN reply ELSE s[i]
OBVIOUS

LEMMA ToldStays ==
  ASSUME NEW x \in Exchange, NEW y \in Exchange, Obeys(x, y), Told(x)
  PROVE  Told(y)
<1>1. y.verdict = "never" => ~y.passed /\ (y.at # "done" => ~y.watched /\ y.decision # "apply")
  BY DEF Obeys, Told
<1>2. y.verdict = "ok" => y.at = "done" /\ y.outcome \in Good
  BY DEF Obeys, Told
<1>3. y.at \in Early => y.down = <<>>
  BY DEF Obeys, Told
<1>4. ~Lane /\ y.at # "done" => y.watched
  BY DEF Obeys, Told
<1>5. ASSUME NEW i \in 1..Len(y.down)
      PROVE  /\ y.down[i] = "ready" => i = 1 /\ Lane
             /\ y.down[i] \in {"ok", "needless"} => y.at = "done" /\ y.outcome \in Good
  <2>1. CASE y.down = x.down
    BY <2>1 DEF Obeys, Told
  <2>2. CASE y.down # x.down
    <3>1. PICK reply \in Replies :
            /\ y.down = Append(x.down, reply) /\ x.at # "done"
            /\ reply = "ready" => x.at = "prepare" /\ y.at = "ask" /\ ~x.watched
            /\ reply \in {"ok", "needless"} => y.at = "done" /\ y.outcome \in Good
      BY <2>2 DEF Obeys
    <3>2. x.down \in Seq(Replies)
      BY DEF Exchange
    <3>3. y.down[i] = IF i = Len(x.down) + 1 THEN reply ELSE x.down[i]
      BY <3>1, <3>2, AppendedReplies
    <3>4. CASE i = Len(x.down) + 1
      BY <3>1, <3>2, <3>3, <3>4 DEF Told, Early
    <3>5. CASE i # Len(x.down) + 1
      <4>1. i \in 1..Len(x.down) /\ y.down[i] = x.down[i]
        BY <3>1, <3>2, <3>3, <3>5, AppendedReplies
      <4>2. x.down[i] \notin {"ok", "needless"}
        BY <3>1, <4>1 DEF Told
      <4>3. QED
        BY <4>1, <4>2 DEF Told
    <3>6. QED
      BY <3>4, <3>5
  <2>3. QED
    BY <2>1, <2>2
<1>6. QED
  BY <1>1, <1>2, <1>3, <1>4, <1>5 DEF Told

LEMMA AskingStays ==
  ASSUME Typed, conn' \in [Conn -> Exchange], UNCHANGED client, Asking,
         \A c \in Conn : Obeys(conn[c], conn'[c]) /\ Told(conn[c])
  PROVE  Asking'
<1>1. CASE client.pc # "wait"
  BY <1>1 DEF Asking
<1>2. CASE client.pc = "wait"
  <2> DEFINE x == conn[client.on]
             y == conn'[client.on]
  <2>1. /\ client.on \in Conn /\ x.verdict = "none" /\ ~x.left
        /\ client.granted => x.at \notin Early /\ \A i \in 1..Len(x.down) : x.down[i] # "ready"
        /\ Lane /\ ~client.granted =>
             ~x.passed /\ x.decision = "none" /\ (x.at # "done" => ~x.watched)
    BY <1>2 DEF Asking
  <2>2. Obeys(x, y) /\ Told(x) /\ x \in Exchange /\ y \in Exchange
    BY <2>1 DEF Typed
  <2> HIDE DEF x, y
  <2>3. y.verdict = "none" /\ ~y.left
    BY <2>1, <2>2 DEF Obeys
  <2>4. Lane /\ ~client.granted => ~y.passed /\ y.decision = "none" /\ (y.at # "done" => ~y.watched)
    BY <2>1, <2>2 DEF Obeys
  <2>5. ASSUME client.granted
        PROVE  y.at \notin Early /\ \A i \in 1..Len(y.down) : y.down[i] # "ready"
    <3>1. y.at \notin Early
      BY <2>1, <2>2, <2>5 DEF Obeys
    <3>2. ASSUME NEW i \in 1..Len(y.down), y.down[i] = "ready"
          PROVE  FALSE
      <4>1. CASE y.down = x.down
        BY <2>1, <2>5, <3>2, <4>1
      <4>2. CASE y.down # x.down
        <5>1. PICK reply \in Replies :
                y.down = Append(x.down, reply) /\ (reply = "ready" => x.at = "prepare")
          BY <2>2, <4>2 DEF Obeys
        <5>2. x.down \in Seq(Replies)
          BY <2>2 DEF Exchange
        <5>3. reply # "ready"
          BY <2>1, <2>5, <5>1 DEF Early
        <5>4. i \in 1..Len(x.down) /\ y.down[i] = x.down[i]
          BY <3>2, <5>1, <5>2, <5>3, AppendedReplies
        <5>5. QED
          BY <2>1, <2>5, <3>2, <5>4
      <4>3. QED
        BY <4>1, <4>2
    <3>3. QED
      BY <3>1, <3>2
  <2>6. QED
    BY <1>2, <2>1, <2>3, <2>4, <2>5 DEF Asking, Lane, x, y
<1>3. QED
  BY <1>1, <1>2

-----------------------------------------------------------------------------
(* The changes of an exchange the companion makes.                         *)

LEMMA SameObeys ==
  ASSUME NEW x \in Exchange, NEW y \in Exchange, Obeys(x, y)
  PROVE  /\ [y EXCEPT !.same = FALSE] \in Exchange /\ [y EXCEPT !.same = FALSE].at = y.at
         /\ Obeys(x, [y EXCEPT !.same = FALSE])
<1> DEFINE z == [y EXCEPT !.same = FALSE]
<1>1. /\ z \in Exchange /\ z.at = y.at /\ z.watched = y.watched /\ z.decision = y.decision
      /\ z.left = y.left /\ z.down = y.down /\ z.passed = y.passed /\ z.outcome = y.outcome
      /\ z.verdict = y.verdict
  BY DEF Exchange
<1> HIDE DEF z
<1>2. Obeys(x, z)
  BY <1>1 DEF Obeys
<1>3. QED
  BY <1>1, <1>2 DEF z

LEMMA StillObeys ==
  ASSUME NEW x \in Exchange
  PROVE  Obeys(x, x)
BY DEF Obeys

\* Another place that is neither the end nor an earlier one.
LEMMA PlaceObeys ==
  ASSUME NEW x \in Exchange, x.at # "done",
         NEW a \in Ats \ {"done"}, a \in Early => x.at \in Early
  PROVE  /\ [x EXCEPT !.at = a] \in Exchange /\ [x EXCEPT !.at = a].at = a
         /\ Obeys(x, [x EXCEPT !.at = a])
<1> DEFINE z == [x EXCEPT !.at = a]
<1>1. /\ z \in Exchange /\ z.at = a /\ z.watched = x.watched /\ z.decision = x.decision
      /\ z.left = x.left /\ z.down = x.down /\ z.passed = x.passed /\ z.outcome = x.outcome
      /\ z.verdict = x.verdict
  BY DEF Exchange
<1> HIDE DEF z
<1>2. Obeys(x, z)
  BY <1>1 DEF Obeys
<1>3. QED
  BY <1>1, <1>2 DEF z

LEMMA ReturnedObeys ==
  ASSUME NEW x \in Exchange, x.at # "done", NEW o \in {"failed", "needless", "confirmed"}
  PROVE  /\ [x EXCEPT !.at = "returned", !.outcome = o, !.same = FALSE] \in Exchange
         /\ [x EXCEPT !.at = "returned", !.outcome = o, !.same = FALSE].at = "returned"
         /\ Obeys(x, [x EXCEPT !.at = "returned", !.outcome = o, !.same = FALSE])
<1> DEFINE z == [x EXCEPT !.at = "returned", !.outcome = o, !.same = FALSE]
<1>1. /\ z \in Exchange /\ z.at = "returned" /\ z.watched = x.watched /\ z.decision = x.decision
      /\ z.left = x.left /\ z.down = x.down /\ z.passed = x.passed /\ z.verdict = x.verdict
  BY DEF Exchange, Ats
<1> HIDE DEF z
<1>2. Obeys(x, z)
  BY <1>1 DEF Obeys, Early
<1>3. QED
  BY <1>1, <1>2 DEF z

LEMMA PassedObeys ==
  ASSUME NEW x \in Exchange, x.at = "ask", x.watched \/ x.decision = "apply"
  PROVE  /\ [x EXCEPT !.at = "dispatch", !.watched = TRUE, !.passed = TRUE, !.same = TRUE] \in Exchange
         /\ [x EXCEPT !.at = "dispatch", !.watched = TRUE, !.passed = TRUE, !.same = TRUE].at = "dispatch"
         /\ Obeys(x, [x EXCEPT !.at = "dispatch", !.watched = TRUE, !.passed = TRUE, !.same = TRUE])
<1> DEFINE z == [x EXCEPT !.at = "dispatch", !.watched = TRUE, !.passed = TRUE, !.same = TRUE]
<1>1. /\ z \in Exchange /\ z.at = "dispatch" /\ z.watched /\ z.decision = x.decision
      /\ z.left = x.left /\ z.down = x.down /\ z.passed /\ z.verdict = x.verdict
  BY DEF Exchange, Ats
<1> HIDE DEF z
<1>2. Obeys(x, z)
  BY <1>1 DEF Obeys, Early
<1>3. QED
  BY <1>1, <1>2 DEF z

LEMMA SentFields ==
  ASSUME NEW x \in Exchange, NEW reply \in Replies
  PROVE  LET z == Sent(x, reply) IN
         /\ z \in Exchange /\ z.at = x.at /\ z.watched = x.watched /\ z.decision = x.decision
         /\ z.left = x.left /\ z.passed = x.passed /\ z.outcome = x.outcome /\ z.verdict = x.verdict
         /\ z.down \in {x.down, Append(x.down, reply)}
<1>1. x.down \in Seq(Replies) /\ Append(x.down, reply) \in Seq(Replies)
  BY DEF Exchange
<1>2. QED
  BY <1>1 DEF Exchange, Sent

LEMMA AskedObeys ==
  ASSUME NEW x \in Exchange, x.at = "prepare"
  PROVE  LET z == [IF x.watched THEN x ELSE Sent(x, "ready") EXCEPT !.at = "ask"]
         IN  z \in Exchange /\ z.at = "ask" /\ Obeys(x, z)
<1> DEFINE y == IF x.watched THEN x ELSE Sent(x, "ready")
           z == [y EXCEPT !.at = "ask"]
<1>1. "ready" \in Replies
  BY DEF Replies
<1>2. /\ y \in Exchange /\ y.at = x.at /\ y.watched = x.watched /\ y.decision = x.decision
      /\ y.left = x.left /\ y.passed = x.passed /\ y.outcome = x.outcome /\ y.verdict = x.verdict
      /\ y.down = x.down \/ (y.down = Append(x.down, "ready") /\ ~x.watched)
  BY <1>1, SentFields
<1> HIDE DEF y
<1>3. /\ z \in Exchange /\ z.at = "ask" /\ z.watched = y.watched /\ z.decision = y.decision
      /\ z.left = y.left /\ z.passed = y.passed /\ z.outcome = y.outcome /\ z.verdict = y.verdict
      /\ z.down = y.down
  BY <1>2 DEF Exchange, Ats
<1> HIDE DEF z
<1>4. Obeys(x, z)
  BY <1>1, <1>2, <1>3 DEF Obeys, Early
<1>5. QED
  BY <1>3, <1>4 DEF y, z

LEMMA EndedObeys ==
  ASSUME NEW x \in Exchange
  PROVE  /\ Ended(x) \in Exchange /\ Ended(x).at = "done" /\ Obeys(x, Ended(x))
         /\ \A reply \in Replies :
              x.at # "done" /\ reply # "ready" /\ (reply \in {"ok", "needless"} => x.outcome \in Good) =>
                LET z == Ended(Sent(x, reply)) IN z \in Exchange /\ z.at = "done" /\ Obeys(x, z)
<1>1. ASSUME NEW y \in Exchange
      PROVE  LET z == Ended(y) IN
             /\ z \in Exchange /\ z.at = "done" /\ ~z.watched /\ z.decision = "none"
             /\ z.left = y.left /\ z.passed = y.passed /\ z.outcome = y.outcome
             /\ z.verdict = y.verdict /\ z.down = y.down
  BY DEF Exchange, Ats, Ended
<1>2. Obeys(x, Ended(x))
  BY <1>1 DEF Obeys, Early
<1>3. ASSUME NEW reply \in Replies, x.at # "done", reply # "ready",
             reply \in {"ok", "needless"} => x.outcome \in Good
      PROVE  LET z == Ended(Sent(x, reply)) IN z \in Exchange /\ z.at = "done" /\ Obeys(x, z)
  <2> DEFINE y == Sent(x, reply)
             z == Ended(y)
  <2>1. /\ y \in Exchange /\ y.left = x.left /\ y.passed = x.passed /\ y.outcome = x.outcome
        /\ y.verdict = x.verdict /\ y.down \in {x.down, Append(x.down, reply)}
    BY SentFields
  <2> HIDE DEF y
  <2>2. /\ z \in Exchange /\ z.at = "done" /\ ~z.watched /\ z.decision = "none"
        /\ z.left = y.left /\ z.passed = y.passed /\ z.outcome = y.outcome
        /\ z.verdict = y.verdict /\ z.down = y.down
    BY <1>1, <2>1
  <2> HIDE DEF z
  <2>3. Obeys(x, z)
    BY <1>3, <2>1, <2>2 DEF Obeys, Early
  <2>4. QED
    BY <2>2, <2>3 DEF y, z
<1>4. QED
  BY <1>1, <1>2, <1>3

-----------------------------------------------------------------------------
(* A step of the companion.                                                *)

LEMMA CompanionStep ==
  ASSUME IInv, UNCHANGED client, conn' \in [Conn -> Exchange],
         \A c \in Conn : Obeys(conn[c], conn'[c]),
         panel' \in PanelType, host' \in HostType, doubt' \in Doubts, PendingOK', Owned'
  PROVE  IInv'
<1>1. Typed'
  BY DEF IInv, Typed
<1>2. Waiting'
  BY DEF IInv, Waiting, Lane
<1>3. ASSUME NEW c \in Conn PROVE Told(conn[c])'
  <2>1. Told(conn'[c])
    BY ToldStays DEF IInv, Typed
  <2>2. QED
    BY <2>1 DEF Told, Lane
<1>4. Asking'
  BY AskingStays DEF IInv
<1>5. QED
  BY <1>1, <1>2, <1>3, <1>4 DEF IInv

\* Who holds the panel: an operation begins, goes on, ends, or is over already.
Shift(c) ==
  \/ /\ ~Owns(c) /\ Owns(c)' /\ ~panel.busy /\ panel'.busy
     /\ ~panel.manual /\ doubt' = doubt
  \/ Owns(c) /\ Owns(c)' /\ panel'.busy = panel.busy /\ doubt' = doubt
  \/ /\ Owns(c) /\ ~Owns(c)' /\ ~panel'.busy
     /\ doubt' = doubt \/ (doubt = "none" /\ doubt' = "open" /\ panel'.manual)
  \/ /\ ~Owns(c) /\ ~Owns(c)' /\ panel'.busy = panel.busy
     /\ panel.manual => panel'.manual
     /\ doubt' = doubt

LEMMA ShiftOwned ==
  ASSUME Owned, NEW c \in Conn, \A d \in Conn \ {c} : Owns(d) <=> Owns(d)',
         panel'.stage = panel.stage, Shift(c)
  PROVE  Owned'
<1> SUFFICES ASSUME doubt' # "crossed" PROVE Owned'
  BY DEF Owned
<1>1. doubt # "crossed"
  BY DEF Shift
<1>2. \A by \in Ways : Reconnecting(by)' <=> Reconnecting(by)
  BY DEF Reconnecting
<1>3. CASE /\ ~Owns(c) /\ Owns(c)' /\ ~panel.busy /\ panel'.busy
           /\ ~panel.manual /\ doubt' = doubt
  BY <1>1, <1>2, <1>3 DEF Owned, Ways
<1>4. CASE Owns(c) /\ Owns(c)' /\ panel'.busy = panel.busy /\ doubt' = doubt
  BY <1>1, <1>2, <1>4 DEF Owned, Ways
<1>5. CASE /\ Owns(c) /\ ~Owns(c)' /\ ~panel'.busy
           /\ doubt' = doubt \/ (doubt = "none" /\ doubt' = "open" /\ panel'.manual)
  BY <1>1, <1>2, <1>5 DEF Owned, Ways
<1>6. CASE /\ ~Owns(c) /\ ~Owns(c)' /\ panel'.busy = panel.busy
           /\ panel.manual => panel'.manual
           /\ doubt' = doubt
  BY <1>1, <1>2, <1>6 DEF Owned, Ways
<1>7. QED
  BY <1>3, <1>4, <1>5, <1>6 DEF Shift

\* The handler of one exchange, which may find the host's process gone.
LEMMA HandlerStep ==
  ASSUME IInv, UNCHANGED client, NEW c \in Conn, NEW y \in Exchange, Obeys(conn[c], y),
         conn' \in {[conn EXCEPT ![c] = y], Moved([conn EXCEPT ![c] = y])},
         panel' \in PanelType, panel'.stage = panel.stage, host' \in HostType, doubt' \in Doubts,
         host'.pending \in {host.pending, c, NoConn},
         host'.pending = c => y.at = "dispatch",
         Shift(c)
  PROVE  IInv'
<1>1. conn \in [Conn -> Exchange] /\ PendingOK /\ Owned
  BY DEF IInv, Typed
<1>2. ASSUME NEW d \in Conn
      PROVE  /\ conn'[d] \in Exchange /\ Obeys(conn[d], conn'[d])
             /\ conn'[d].at = IF d = c THEN y.at ELSE conn[d].at
  <2> DEFINE z == IF d = c THEN y ELSE conn[d]
  <2>1. z \in Exchange /\ Obeys(conn[d], z) /\ conn[d] \in Exchange
        /\ z.at = IF d = c THEN y.at ELSE conn[d].at
    BY <1>1, StillObeys
  <2>2. conn'[d] \in {z, [z EXCEPT !.same = FALSE]}
    BY <1>1 DEF Moved
  <2> HIDE DEF z
  <2>3. QED
    BY <2>1, <2>2, SameObeys
<1>3. conn' \in [Conn -> Exchange]
  BY <1>1, <1>2 DEF Moved
<1>4. \A d \in Conn \ {c} : Owns(d) <=> Owns(d)'
  BY <1>2 DEF Owns
<1>5. Owned'
  BY <1>1, <1>4, ShiftOwned
<1>6. PendingOK'
  BY <1>1, <1>2 DEF PendingOK, HostType
<1>7. QED
  BY <1>2, <1>3, <1>5, <1>6, CompanionStep

LEMMA Facts ==
  ASSUME IInv
  PROVE  /\ panel \in PanelType /\ host \in HostType /\ doubt \in Doubts
         /\ conn \in [Conn -> Exchange] /\ \A c \in Conn : conn[c] \in Exchange
         /\ PendingOK /\ Owned
BY DEF IInv, Typed

LEMMA PanelBusy ==
  ASSUME NEW p \in PanelType, NEW b \in BOOLEAN
  PROVE  /\ [p EXCEPT !.busy = b] \in PanelType /\ [p EXCEPT !.busy = b].busy = b
         /\ [p EXCEPT !.busy = b].manual = p.manual /\ [p EXCEPT !.busy = b].stage = p.stage
BY DEF PanelType

LEMMA PanelManual ==
  ASSUME NEW p \in PanelType, NEW b \in BOOLEAN
  PROVE  /\ [p EXCEPT !.manual = b] \in PanelType /\ [p EXCEPT !.manual = b].manual = b
         /\ [p EXCEPT !.manual = b].busy = p.busy /\ [p EXCEPT !.manual = b].stage = p.stage
         /\ [p EXCEPT !.busy = FALSE, !.manual = b] \in PanelType
         /\ ~[p EXCEPT !.busy = FALSE, !.manual = b].busy
         /\ [p EXCEPT !.busy = FALSE, !.manual = b].manual = b
         /\ [p EXCEPT !.busy = FALSE, !.manual = b].stage = p.stage
BY DEF PanelType

LEMMA HostPending ==
  ASSUME NEW h \in HostType, NEW p \in Conn \cup {NoConn}
  PROVE  /\ [h EXCEPT !.pending = p] \in HostType /\ [h EXCEPT !.pending = p].pending = p
BY DEF HostType

LEMMA HostEnds ==
  ASSUME NEW h \in HostType, NEW b \in BOOLEAN
  PROVE  /\ [h EXCEPT !.pending = NoConn, !.ready = b] \in HostType
         /\ [h EXCEPT !.pending = NoConn, !.ready = b].pending = NoConn
BY DEF HostType

LEMMA HostStops ==
  ASSUME NEW h \in HostType
  PROVE  /\ [h EXCEPT !.unknown = TRUE, !.ready = FALSE, !.pending = NoConn] \in HostType
         /\ [h EXCEPT !.unknown = TRUE, !.ready = FALSE, !.pending = NoConn].pending = NoConn
         /\ [h EXCEPT !.ready = FALSE, !.running = FALSE] \in HostType
         /\ [h EXCEPT !.ready = FALSE, !.running = FALSE].pending = h.pending
         /\ [h EXCEPT !.ready = FALSE] \in HostType
         /\ [h EXCEPT !.ready = FALSE].pending = h.pending
BY DEF HostType

-----------------------------------------------------------------------------
(* The handler.                                                            *)

\* An operation returns: it held the panel, and holds it no more.
LEMMA ReturnStep ==
  ASSUME IInv, UNCHANGED client, NEW c \in Conn, Owns(c),
         NEW o \in {"failed", "needless", "confirmed"}, conn' \in {Return(c, o), Moved(Return(c, o))},
         panel' \in PanelType, panel'.stage = panel.stage, ~panel'.busy,
         host' \in HostType, host'.pending \in {host.pending, NoConn}, host'.pending # c,
         doubt' = doubt \/ (doubt = "none" /\ doubt' = "open" /\ panel'.manual)
  PROVE  IInv'
<1> DEFINE y == [conn[c] EXCEPT !.at = "returned", !.outcome = o, !.same = FALSE]
<1>1. conn[c].at # "done"
  BY DEF Owns, Operating, Dispatched
<1>2. y \in Exchange /\ y.at = "returned" /\ Obeys(conn[c], y)
  BY <1>1, Facts, ReturnedObeys
<1>3. Return(c, o) = [conn EXCEPT ![c] = y]
  BY Facts DEF Return
<1> HIDE DEF y
<1>4. conn'[c].at = "returned"
  <2>1. conn'[c] \in {y, [y EXCEPT !.same = FALSE]}
    BY <1>3, Facts DEF Moved
  <2>2. QED
    BY <1>2, <2>1, SameObeys, Facts
<1>5. ~Owns(c)'
  BY <1>4 DEF Owns, Operating, Dispatched
<1>6. Shift(c) /\ doubt' \in Doubts
  BY <1>5, Facts DEF Shift, Doubts
<1>7. QED
  BY <1>2, <1>3, <1>6, HandlerStep

\* It fails: before the command went to the plugin, or after.
LEMMA FailStep ==
  ASSUME IInv, UNCHANGED client, NEW c \in Conn, Owns(c), host.pending # c, Fail(c)
  PROVE  IInv'
<1>1. panel' \in PanelType /\ panel'.stage = panel.stage /\ ~panel'.busy
  BY Facts, PanelBusy DEF Fail
<1>2. QED
  BY <1>1, Facts, ReturnStep DEF Fail

LEMMA FailDispatchedStep ==
  ASSUME IInv, UNCHANGED client, NEW c \in Conn, Owns(c), FailDispatched(c),
         host' \in HostType, host'.pending \in {host.pending, NoConn}, host'.pending # c
  PROVE  IInv'
<1>1. panel' \in PanelType /\ panel'.stage = panel.stage /\ ~panel'.busy /\ panel'.manual
  BY Facts, PanelManual DEF FailDispatched
<1>2. doubt' = doubt \/ (doubt = "none" /\ doubt' = "open" /\ panel'.manual)
  BY <1>1 DEF FailDispatched, Doubtful
<1>3. QED
  BY <1>1, <1>2, ReturnStep DEF FailDispatched

\* It goes on elsewhere.
LEMMA OnwardStep ==
  ASSUME IInv, UNCHANGED <<client, doubt>>, NEW c \in Conn, Owns(c),
         NEW y \in Exchange, Obeys(conn[c], y), y.at \in Operating,
         conn' = [conn EXCEPT ![c] = y],
         panel' \in PanelType, panel'.stage = panel.stage, panel'.busy = panel.busy,
         host' \in HostType, host'.pending \in {host.pending, c, NoConn},
         host'.pending = c => y.at = "dispatch"
  PROVE  IInv'
<1>1. Owns(c)'
  BY Facts DEF Owns
<1>2. Shift(c)
  BY <1>1 DEF Shift
<1>3. QED
  BY <1>2, Facts, HandlerStep

LEMMA AcceptStep ==
  ASSUME IInv, UNCHANGED client, NEW c \in Conn, Accept(c)
  PROVE  IInv'
<1>1. conn[c].at = "request" /\ ~Owns(c) /\ host.pending # c
  BY Facts, BridgeAssumption DEF Accept, Owns, Operating, Dispatched, PendingOK
<1>2. CASE /\ ~panel.busy /\ AssignedReady /\ panel' = [panel EXCEPT !.busy = TRUE]
           /\ conn' = [conn EXCEPT ![c].at = "read"] /\ UNCHANGED <<host, doubt>>
  <2> DEFINE y == [conn[c] EXCEPT !.at = "read"]
  <2>1. y \in Exchange /\ y.at = "read" /\ Obeys(conn[c], y)
    BY <1>1, Facts, PlaceObeys DEF Ats, Early
  <2>2. conn' = [conn EXCEPT ![c] = y]
    BY <1>2, Facts
  <2> HIDE DEF y
  <2>3. /\ panel' \in PanelType /\ panel'.stage = panel.stage /\ panel'.busy
    BY <1>2, Facts, PanelBusy
  <2>4. Owns(c)'
    BY <2>1, <2>2, Facts DEF Owns, Operating
  <2>5. Shift(c)
    BY <1>1, <1>2, <2>3, <2>4 DEF Shift, AssignedReady
  <2>6. QED
    BY <1>1, <1>2, <2>1, <2>2, <2>3, <2>5, Facts, HandlerStep
<1>3. CASE conn' = [conn EXCEPT ![c] = Ended(Sent(conn[c], "fail"))] /\ UNCHANGED <<panel, host, doubt>>
  <2> DEFINE y == Ended(Sent(conn[c], "fail"))
  <2>1. y \in Exchange /\ y.at = "done" /\ Obeys(conn[c], y)
    BY <1>1, Facts, EndedObeys DEF Replies
  <2>2. conn' = [conn EXCEPT ![c] = y]
    BY <1>3
  <2> HIDE DEF y
  <2>3. ~Owns(c)'
    BY <2>1, <2>2, Facts DEF Owns, Operating, Dispatched
  <2>4. Shift(c)
    BY <1>1, <1>3, <2>3 DEF Shift
  <2>5. QED
    BY <1>1, <1>3, <2>1, <2>2, <2>4, Facts, HandlerStep
<1>4. QED
  BY <1>2, <1>3 DEF Accept

LEMMA ReadAccessoryStep ==
  ASSUME IInv, UNCHANGED client, NEW c \in Conn, ReadAccessory(c)
  PROVE  IInv'
<1>1. conn[c].at = "read" /\ Owns(c) /\ host.pending # c
  BY Facts, BridgeAssumption DEF ReadAccessory, Owns, Operating, PendingOK
<1>2. CASE Fail(c)
  BY <1>1, <1>2, FailStep
<1>3. CASE /\ conn' = Return(c, "needless") /\ panel' = [panel EXCEPT !.busy = FALSE]
           /\ UNCHANGED <<host, doubt>>
  <2>1. panel' \in PanelType /\ panel'.stage = panel.stage /\ ~panel'.busy
    BY <1>3, Facts, PanelBusy
  <2>2. QED
    BY <1>1, <1>3, <2>1, Facts, ReturnStep
<1>4. CASE conn' = [conn EXCEPT ![c].at = "prepare"] /\ UNCHANGED Companion
  <2> DEFINE y == [conn[c] EXCEPT !.at = "prepare"]
  <2>1. y \in Exchange /\ y.at = "prepare" /\ Obeys(conn[c], y)
    BY <1>1, Facts, PlaceObeys DEF Ats, Early
  <2>2. conn' = [conn EXCEPT ![c] = y]
    BY <1>4, Facts
  <2> HIDE DEF y
  <2>3. QED
    BY <1>1, <1>4, <2>1, <2>2, Facts, OnwardStep DEF Companion, Operating
<1>5. QED
  BY <1>2, <1>3, <1>4 DEF ReadAccessory

LEMMA PrepareStep ==
  ASSUME IInv, UNCHANGED client, NEW c \in Conn, Prepare(c)
  PROVE  IInv'
<1>1. conn[c].at = "prepare" /\ Owns(c) /\ host.pending # c
  BY Facts, BridgeAssumption DEF Prepare, Owns, Operating, PendingOK
<1>2. CASE Fail(c)
  BY <1>1, <1>2, FailStep
<1>3. CASE /\ conn' = [conn EXCEPT ![c] =
                [IF conn[c].watched THEN conn[c] ELSE Sent(conn[c], "ready") EXCEPT !.at = "ask"]]
           /\ UNCHANGED Companion
  <2> DEFINE y == [IF conn[c].watched THEN conn[c] ELSE Sent(conn[c], "ready") EXCEPT !.at = "ask"]
  <2>1. y \in Exchange /\ y.at = "ask" /\ Obeys(conn[c], y)
    BY <1>1, Facts, AskedObeys
  <2>2. conn' = [conn EXCEPT ![c] = y]
    BY <1>3
  <2> HIDE DEF y
  <2>3. QED
    BY <1>1, <1>3, <2>1, <2>2, Facts, OnwardStep DEF Companion, Operating
<1>4. QED
  BY <1>2, <1>3 DEF Prepare

LEMMA UnauthorizedStep ==
  ASSUME IInv, UNCHANGED client, NEW c \in Conn, Unauthorized(c)
  PROVE  IInv'
<1>1. Owns(c) /\ host.pending # c
  BY Facts, BridgeAssumption DEF Unauthorized, Owns, Operating, PendingOK
<1>2. QED
  BY <1>1, FailStep DEF Unauthorized

LEMMA DispatchStep ==
  ASSUME IInv, UNCHANGED client, NEW c \in Conn, Dispatch(c)
  PROVE  IInv'
<1>1. conn[c].at = "ask" /\ Owns(c) /\ host.pending # c
  BY Facts, BridgeAssumption DEF Dispatch, Owns, Operating, PendingOK
<1>2. CASE FailDispatched(c) /\ UNCHANGED host
  BY <1>1, <1>2, Facts, FailDispatchedStep
<1>3. CASE /\ host' = [host EXCEPT !.pending = c]
           /\ conn' = [conn EXCEPT ![c].at = "dispatch", ![c].watched = TRUE,
                                   ![c].passed = TRUE, ![c].same = TRUE]
           /\ UNCHANGED <<panel, doubt>>
  <2> DEFINE y == [conn[c] EXCEPT !.at = "dispatch", !.watched = TRUE, !.passed = TRUE, !.same = TRUE]
  <2>1. y \in Exchange /\ y.at = "dispatch" /\ Obeys(conn[c], y)
    BY <1>1, Facts, PassedObeys DEF Dispatch
  <2>2. conn' = [conn EXCEPT ![c] = y]
    BY <1>3, Facts
  <2> HIDE DEF y
  <2>3. host' \in HostType /\ host'.pending = c
    BY <1>3, Facts, HostPending
  <2>4. QED
    BY <1>1, <1>3, <2>1, <2>2, <2>3, Facts, OnwardStep DEF Operating, Dispatched
<1>4. QED
  BY <1>2, <1>3 DEF Dispatch

LEMMA CompletedStep ==
  ASSUME IInv, UNCHANGED client, NEW c \in Conn, Completed(c)
  PROVE  IInv'
<1>1. conn[c].at = "dispatch" /\ Owns(c) /\ host.pending = c /\ NoConn # c
  BY BridgeAssumption DEF Completed, Owns, Operating, Dispatched
<1>2. CASE /\ conn' = [conn EXCEPT ![c].at = "readback"] /\ host' = [host EXCEPT !.pending = NoConn]
           /\ UNCHANGED <<panel, doubt>>
  <2> DEFINE y == [conn[c] EXCEPT !.at = "readback"]
  <2>1. y \in Exchange /\ y.at = "readback" /\ Obeys(conn[c], y)
    BY <1>1, Facts, PlaceObeys DEF Ats, Early
  <2>2. conn' = [conn EXCEPT ![c] = y]
    BY <1>2, Facts
  <2> HIDE DEF y
  <2>3. host' \in HostType /\ host'.pending = NoConn
    BY <1>2, Facts, HostPending
  <2>4. QED
    BY <1>1, <1>2, <2>1, <2>2, <2>3, Facts, OnwardStep DEF Operating, Dispatched
<1>3. CASE /\ conn' = [conn EXCEPT ![c].at = "reread"] /\ host' = [host EXCEPT !.pending = NoConn]
           /\ panel' = [panel EXCEPT !.manual = TRUE] /\ UNCHANGED doubt
  <2> DEFINE y == [conn[c] EXCEPT !.at = "reread"]
  <2>1. y \in Exchange /\ y.at = "reread" /\ Obeys(conn[c], y)
    BY <1>1, Facts, PlaceObeys DEF Ats, Early
  <2>2. conn' = [conn EXCEPT ![c] = y]
    BY <1>3, Facts
  <2> HIDE DEF y
  <2>3. host' \in HostType /\ host'.pending = NoConn
    BY <1>3, Facts, HostPending
  <2>4. panel' \in PanelType /\ panel'.stage = panel.stage /\ panel'.busy = panel.busy
    BY <1>3, Facts, PanelManual
  <2>5. QED
    BY <1>1, <1>3, <2>1, <2>2, <2>3, <2>4, OnwardStep DEF Operating, Dispatched
<1>4. CASE /\ conn' = Moved(Return(c, "failed")) /\ host' = Quarantined
           /\ panel' = [panel EXCEPT !.busy = FALSE, !.manual = TRUE] /\ Doubtful(c)
  <2>1. panel' \in PanelType /\ panel'.stage = panel.stage /\ ~panel'.busy /\ panel'.manual
    BY <1>4, Facts, PanelManual
  <2>2. host' \in HostType /\ host'.pending = NoConn
    BY <1>4, Facts, HostStops DEF Quarantined
  <2>3. doubt' = doubt \/ (doubt = "none" /\ doubt' = "open" /\ panel'.manual)
    BY <1>4, <2>1 DEF Doubtful
  <2>4. QED
    BY <1>1, <1>4, <2>1, <2>2, <2>3, ReturnStep
<1>5. CASE /\ FailDispatched(c)
           /\ \E ready \in {FALSE, host.ready} : host' = [host EXCEPT !.pending = NoConn, !.ready = ready]
  <2>1. PICK ready \in {FALSE, host.ready} : host' = [host EXCEPT !.pending = NoConn, !.ready = ready]
    BY <1>5
  <2>2. ready \in BOOLEAN
    BY Facts DEF HostType
  <2>3. host' \in HostType /\ host'.pending = NoConn
    BY <2>1, <2>2, Facts, HostEnds
  <2>4. QED
    BY <1>1, <1>5, <2>3, FailDispatchedStep
<1>6. QED
  BY <1>2, <1>3, <1>4, <1>5 DEF Completed

LEMMA AfterwardsStep ==
  ASSUME IInv, UNCHANGED client, NEW c \in Conn, Abandoned(c) \/ Readback(c) \/ Reread(c)
  PROVE  IInv'
<1>1. Owns(c) /\ host.pending # c /\ UNCHANGED host
  BY Facts, BridgeAssumption DEF Abandoned, Readback, Reread, Owns, Operating, Dispatched, PendingOK
<1>2. CASE FailDispatched(c)
  BY <1>1, <1>2, Facts, FailDispatchedStep
<1>3. CASE /\ conn' = Return(c, "confirmed") /\ panel' = [panel EXCEPT !.busy = FALSE]
           /\ UNCHANGED doubt
  <2>1. panel' \in PanelType /\ panel'.stage = panel.stage /\ ~panel'.busy
    BY <1>3, Facts, PanelBusy
  <2>2. QED
    BY <1>1, <1>3, <2>1, Facts, ReturnStep
<1>4. CASE /\ conn' = Return(c, "failed") /\ panel' = [panel EXCEPT !.busy = FALSE, !.manual = FALSE]
           /\ UNCHANGED doubt
  <2>1. panel' \in PanelType /\ panel'.stage = panel.stage /\ ~panel'.busy
    BY <1>4, Facts, PanelManual
  <2>2. QED
    BY <1>1, <1>4, <2>1, Facts, ReturnStep
<1>5. QED
  BY <1>2, <1>3, <1>4 DEF Abandoned, Readback, Reread

\* What follows an operation does not hold the panel.
LEMMA AfterStep ==
  ASSUME IInv, UNCHANGED <<client, doubt, host>>, NEW c \in Conn, ~Owns(c),
         NEW y \in Exchange, Obeys(conn[c], y), y.at \notin Operating,
         conn' = [conn EXCEPT ![c] = y],
         panel' \in PanelType, panel'.stage = panel.stage, panel'.busy = panel.busy,
         panel.manual => panel'.manual
  PROVE  IInv'
<1>1. ~Owns(c)'
  BY Facts DEF Owns
<1>2. Shift(c)
  BY <1>1 DEF Shift
<1>3. host.pending # c
  BY Facts, BridgeAssumption DEF PendingOK, Owns, Operating, Dispatched
<1>4. QED
  BY <1>2, <1>3, Facts, HandlerStep

LEMMA ReplyStep ==
  ASSUME IInv, UNCHANGED client, NEW c \in Conn, Reply(c)
  PROVE  IInv'
<1> DEFINE success == conn[c].outcome \in {"confirmed", "needless"} /\ ~panel.manual
           reply == IF ~success THEN "fail" ELSE IF conn[c].watched THEN "ok" ELSE "needless"
           y == Ended(Sent(conn[c], reply))
<1>1. conn[c].at = "returned" /\ ~Owns(c)
  BY DEF Reply, Owns, Operating, Dispatched
<1>2. conn' = [conn EXCEPT ![c] = y] /\ UNCHANGED Companion
  BY DEF Reply
<1>3. reply \in Replies /\ reply # "ready" /\ (reply \in {"ok", "needless"} => conn[c].outcome \in Good)
  BY DEF Replies, Good
<1> HIDE DEF reply
<1>4. y \in Exchange /\ y.at = "done" /\ Obeys(conn[c], y)
  BY <1>1, <1>3, Facts, EndedObeys
<1> HIDE DEF y
<1>5. QED
  BY <1>1, <1>2, <1>4, Facts, AfterStep DEF Companion, Operating, Dispatched

LEMMA InterruptStep ==
  ASSUME IInv, UNCHANGED client, NEW c \in Conn, Interrupt(c)
  PROVE  IInv'
<1> DEFINE y == [conn[c] EXCEPT !.at = "stopping"]
           manual == panel.manual \/ conn[c].at \in Dispatched
<1>1. Owns(c) /\ conn[c].at # "done"
  BY DEF Interrupt, Owns, Operating, Dispatched
<1>2. y \in Exchange /\ y.at = "stopping" /\ Obeys(conn[c], y)
  BY <1>1, Facts, PlaceObeys DEF Ats, Early
<1>3. [conn EXCEPT ![c].at = "stopping"] = [conn EXCEPT ![c] = y]
  BY Facts
<1> HIDE DEF y
<1>4. panel' = [panel EXCEPT !.busy = FALSE, !.manual = manual] /\ manual \in BOOLEAN
  BY Facts DEF Interrupt, PanelType
<1>5. conn[c].at \in Dispatched => manual
  OBVIOUS
<1> HIDE DEF manual
<1>6. panel' \in PanelType /\ panel'.stage = panel.stage /\ ~panel'.busy /\ panel'.manual = manual
  BY <1>4, Facts, PanelManual
<1>7. doubt' = doubt \/ (doubt = "none" /\ doubt' = "open" /\ panel'.manual)
  BY <1>5, <1>6 DEF Interrupt, Doubtful
<1>8. /\ conn' \in {[conn EXCEPT ![c] = y], Moved([conn EXCEPT ![c] = y])}
      /\ host' \in HostType /\ host'.pending \in {host.pending, NoConn} /\ host'.pending # c
  <2>1. CASE host.pending = c
    <3>1. host' \in HostType /\ host'.pending = NoConn
      BY <2>1, Facts, HostStops DEF Interrupt, Quarantined
    <3>2. QED
      BY <1>3, <2>1, <3>1, BridgeAssumption DEF Interrupt
  <2>2. CASE host.pending # c
    BY <1>3, <2>2, Facts DEF Interrupt
  <2>3. QED
    BY <2>1, <2>2
<1>9. ~Owns(c)'
  <2>1. conn'[c] \in {y, [y EXCEPT !.same = FALSE]}
    BY <1>8, Facts DEF Moved
  <2>2. conn'[c].at = "stopping"
    BY <1>2, <2>1, Facts, SameObeys
  <2>3. QED
    BY <2>2 DEF Owns, Operating, Dispatched
<1>10. Shift(c) /\ doubt' \in Doubts
  BY <1>1, <1>6, <1>7, <1>9, Facts DEF Shift, Doubts
<1>11. QED
  BY <1>2, <1>6, <1>8, <1>10, HandlerStep

LEMMA CrossedStep ==
  ASSUME IInv, UNCHANGED client, NEW c \in Conn, Crossed(c)
  PROVE  IInv'
<1> DEFINE y == [conn[c] EXCEPT !.at = "stopping"]
<1>1. conn[c].at = "returned" /\ ~Owns(c)
  BY DEF Crossed, Owns, Operating, Dispatched
<1>2. y \in Exchange /\ y.at = "stopping" /\ Obeys(conn[c], y)
  BY <1>1, Facts, PlaceObeys DEF Ats, Early
<1>3. conn' = [conn EXCEPT ![c] = y] /\ UNCHANGED Companion
  BY Facts DEF Crossed
<1> HIDE DEF y
<1>4. QED
  BY <1>1, <1>2, <1>3, Facts, AfterStep DEF Companion, Operating, Dispatched

LEMMA StoppedStep ==
  ASSUME IInv, UNCHANGED client, NEW c \in Conn, Stopped(c)
  PROVE  IInv'
<1> DEFINE y == Ended(conn[c])
<1>1. conn[c].at = "stopped" /\ ~Owns(c)
  BY DEF Stopped, Owns, Operating, Dispatched
<1>2. y \in Exchange /\ y.at = "done" /\ Obeys(conn[c], y)
  BY Facts, EndedObeys
<1>3. conn' = [conn EXCEPT ![c] = y] /\ UNCHANGED <<host, doubt>>
  BY DEF Stopped
<1> HIDE DEF y
<1>4. /\ panel' \in PanelType /\ panel'.stage = panel.stage /\ panel'.busy = panel.busy
      /\ panel'.manual
  BY Facts, PanelManual DEF Stopped
<1>5. QED
  BY <1>1, <1>2, <1>3, <1>4, AfterStep DEF Operating, Dispatched

-----------------------------------------------------------------------------
(* Stops of the host, and the panel.                                       *)

LEMMA AbandonedObeys ==
  ASSUME NEW x \in Exchange, NEW y \in Exchange, Obeys(x, y), y.at = "dispatch"
  PROVE  /\ [y EXCEPT !.at = "abandoned"] \in Exchange /\ [y EXCEPT !.at = "abandoned"].at = "abandoned"
         /\ Obeys(x, [y EXCEPT !.at = "abandoned"])
<1> DEFINE z == [y EXCEPT !.at = "abandoned"]
<1>1. /\ z \in Exchange /\ z.at = "abandoned" /\ z.watched = y.watched /\ z.decision = y.decision
      /\ z.left = y.left /\ z.down = y.down /\ z.passed = y.passed /\ z.outcome = y.outcome
      /\ z.verdict = y.verdict
  BY DEF Exchange, Ats
<1> HIDE DEF z
<1>2. Obeys(x, z)
  BY <1>1 DEF Obeys, Early
<1>3. QED
  BY <1>1, <1>2 DEF z

\* The command under way is abandoned; nobody else hears of a stop.
LEMMA StopHostStep ==
  ASSUME IInv, NEW cs \in [Conn -> Exchange], \A c \in Conn : Obeys(conn[c], cs[c]),
         host.pending # NoConn => cs[host.pending].at = "dispatch", StopHost(cs)
  PROVE  /\ conn' \in [Conn -> Exchange]
         /\ \A c \in Conn :
              /\ Obeys(conn[c], conn'[c])
              /\ conn'[c].at = IF c = host.pending THEN "abandoned" ELSE cs[c].at
         /\ host' \in HostType /\ host'.pending = NoConn
<1> DEFINE p == host.pending
           ms == Moved(cs)
<1>1. /\ ms \in [Conn -> Exchange]
      /\ \A c \in Conn : ms[c] \in Exchange /\ Obeys(conn[c], ms[c]) /\ ms[c].at = cs[c].at
  BY Facts, SameObeys DEF Moved
<1>2. /\ conn' = IF p = NoConn THEN ms ELSE [ms EXCEPT ![p].at = "abandoned"]
      /\ host' = [IF p = NoConn THEN host ELSE Quarantined EXCEPT !.ready = FALSE, !.running = FALSE]
  BY DEF StopHost
<1> HIDE DEF ms
<1>3. p \in Conn \cup {NoConn} /\ NoConn \notin Conn
  BY Facts, BridgeAssumption DEF HostType
<1>4. host' \in HostType /\ host'.pending = NoConn
  <2>1. Quarantined \in HostType /\ Quarantined.pending = NoConn
    BY Facts, HostStops DEF Quarantined
  <2>2. CASE p = NoConn
    BY <1>2, <2>2, Facts, HostStops
  <2>3. CASE p # NoConn
    BY <1>2, <2>1, <2>3, HostStops
  <2>4. QED
    BY <2>2, <2>3
<1>5. CASE p = NoConn
  BY <1>1, <1>2, <1>3, <1>4, <1>5
<1>6. CASE p # NoConn
  <2> DEFINE z == [ms[p] EXCEPT !.at = "abandoned"]
  <2>1. p \in Conn /\ ms[p].at = "dispatch"
    BY <1>1, <1>3, <1>6
  <2>2. z \in Exchange /\ z.at = "abandoned" /\ Obeys(conn[p], z)
    BY <1>1, <2>1, Facts, AbandonedObeys
  <2>3. conn' = [ms EXCEPT ![p] = z]
    BY <1>1, <1>2, <1>6
  <2> HIDE DEF z
  <2>4. conn' \in [Conn -> Exchange]
    BY <1>1, <2>1, <2>2, <2>3
  <2>5. \A c \in Conn : conn'[c] = IF c = p THEN z ELSE ms[c]
    BY <1>1, <2>3
  <2>6. QED
    BY <1>1, <1>4, <2>1, <2>2, <2>4, <2>5
<1>7. QED
  BY <1>5, <1>6

\* A stop of the host with every exchange where it is.
LEMMA StopHere ==
  ASSUME IInv, StopHost(conn)
  PROVE  /\ conn' \in [Conn -> Exchange]
         /\ \A c \in Conn : Obeys(conn[c], conn'[c]) /\ (Owns(c) <=> Owns(c)')
         /\ host' \in HostType /\ host'.pending = NoConn
<1>1. \A c \in Conn : Obeys(conn[c], conn[c])
  BY Facts, StillObeys
<1>2. /\ conn' \in [Conn -> Exchange]
      /\ \A c \in Conn :
           /\ Obeys(conn[c], conn'[c])
           /\ conn'[c].at = IF c = host.pending THEN "abandoned" ELSE conn[c].at
      /\ host' \in HostType /\ host'.pending = NoConn
  BY <1>1, Facts, StopHostStep DEF PendingOK
<1>3. \A c \in Conn : Owns(c) <=> Owns(c)'
  BY <1>2, Facts, BridgeAssumption DEF Owns, PendingOK, Operating, Dispatched
<1>4. QED
  BY <1>2, <1>3

LEMMA StopStep ==
  ASSUME IInv, UNCHANGED client, NEW c \in Conn, Stop(c)
  PROVE  IInv'
<1> DEFINE y == [conn[c] EXCEPT !.at = "stopped"]
           cs == [conn EXCEPT ![c] = y]
<1>1. conn[c].at = "stopping" /\ ~Owns(c) /\ host.pending # c
  BY Facts, BridgeAssumption DEF Stop, Owns, Operating, Dispatched, PendingOK
<1>2. y \in Exchange /\ y.at = "stopped" /\ Obeys(conn[c], y)
  BY <1>1, Facts, PlaceObeys DEF Ats, Early
<1>3. StopHost(cs) /\ UNCHANGED <<panel, doubt>>
  BY Facts DEF Stop
<1> HIDE DEF y
<1>4. /\ cs \in [Conn -> Exchange] /\ \A d \in Conn : Obeys(conn[d], cs[d])
      /\ \A d \in Conn : cs[d] = IF d = c THEN y ELSE conn[d]
  BY <1>2, Facts, StillObeys
<1> HIDE DEF cs
<1>5. host.pending # NoConn => host.pending \in Conn /\ cs[host.pending].at = "dispatch"
  BY <1>1, <1>4, Facts DEF PendingOK, HostType
<1>6. /\ conn' \in [Conn -> Exchange]
      /\ \A d \in Conn :
           /\ Obeys(conn[d], conn'[d])
           /\ conn'[d].at = IF d = host.pending THEN "abandoned" ELSE cs[d].at
      /\ host' \in HostType /\ host'.pending = NoConn
  BY <1>3, <1>4, <1>5, StopHostStep
<1>7. \A d \in Conn : Owns(d) <=> Owns(d)'
  BY <1>1, <1>2, <1>4, <1>5, <1>6, BridgeAssumption DEF Owns, Operating, Dispatched
<1>8. Shift(c)
  BY <1>1, <1>3, <1>7 DEF Shift
<1>9. Owned'
  BY <1>3, <1>7, <1>8, Facts, ShiftOwned
<1>10. PendingOK'
  BY <1>6 DEF PendingOK
<1>11. QED
  BY <1>3, <1>6, <1>9, <1>10, Facts, CompanionStep

Stages == {"none", "reading", "start", "finish"}

WithStage(p, by, stage) == [p EXCEPT !.stage[by] = stage]

LEMMA PanelStaged ==
  ASSUME NEW p \in PanelType, NEW by \in Ways, NEW stage \in Stages
  PROVE  /\ WithStage(p, by, stage) \in PanelType
         /\ WithStage(p, by, stage).busy = p.busy
         /\ WithStage(p, by, stage).manual = p.manual
         /\ \A w \in Ways : WithStage(p, by, stage).stage[w] = IF w = by THEN stage ELSE p.stage[w]
<1>1. p.stage \in [Ways -> Stages]
  BY DEF PanelType, Ways, Stages
<1> DEFINE s == [p.stage EXCEPT ![by] = stage]
<1>2. s \in [Ways -> Stages] /\ \A w \in Ways : s[w] = IF w = by THEN stage ELSE p.stage[w]
  BY <1>1
<1>3. WithStage(p, by, stage) = [p EXCEPT !.stage = s]
  BY <1>1 DEF PanelType, WithStage
<1> HIDE DEF s
<1>4. /\ [p EXCEPT !.stage = s] \in PanelType /\ [p EXCEPT !.stage = s].busy = p.busy
      /\ [p EXCEPT !.stage = s].manual = p.manual /\ [p EXCEPT !.stage = s].stage = s
  BY <1>2 DEF PanelType, Ways, Stages
<1>5. QED
  BY <1>2, <1>3, <1>4

LEMMA PanelReconnects ==
  ASSUME NEW p \in PanelType, NEW by \in Ways
  PROVE  LET q == [p EXCEPT !.busy = TRUE, !.stage[by] = "start"] IN
         /\ q \in PanelType /\ q.busy /\ q.manual = p.manual
         /\ \A w \in Ways : q.stage[w] = IF w = by THEN "start" ELSE p.stage[w]
<1> DEFINE r == [p EXCEPT !.busy = TRUE]
<1>1. r \in PanelType /\ r.busy = TRUE /\ r.manual = p.manual /\ r.stage = p.stage
  BY PanelBusy
<1>2. "start" \in Stages
  BY DEF Stages
<1>3. [p EXCEPT !.busy = TRUE, !.stage[by] = "start"] = WithStage(r, by, "start")
  BY DEF WithStage
<1> HIDE DEF r
<1> DEFINE q == WithStage(r, by, "start")
<1>4. /\ q \in PanelType /\ q.busy = r.busy /\ q.manual = r.manual
      /\ \A w \in Ways : q.stage[w] = IF w = by THEN "start" ELSE r.stage[w]
  BY <1>1, <1>2, PanelStaged
<1> HIDE DEF q
<1>5. [p EXCEPT !.busy = TRUE, !.stage[by] = "start"] = q
  BY <1>3 DEF q
<1>6. QED
  BY <1>1, <1>4, <1>5

LEMMA PanelOver ==
  ASSUME NEW p \in PanelType, NEW by \in Ways
  PROVE  LET q == [p EXCEPT !.busy = FALSE, !.stage[by] = "none"] IN
         /\ q \in PanelType /\ ~q.busy
         /\ \A w \in Ways : q.stage[w] = IF w = by THEN "none" ELSE p.stage[w]
<1> DEFINE r == [p EXCEPT !.busy = FALSE]
<1>1. r \in PanelType /\ ~r.busy /\ r.stage = p.stage
  BY PanelBusy
<1>2. "none" \in Stages
  BY DEF Stages
<1>3. [p EXCEPT !.busy = FALSE, !.stage[by] = "none"] = WithStage(r, by, "none")
  BY DEF WithStage
<1> HIDE DEF r
<1> DEFINE q == WithStage(r, by, "none")
<1>4. /\ q \in PanelType /\ q.busy = r.busy /\ q.manual = r.manual
      /\ \A w \in Ways : q.stage[w] = IF w = by THEN "none" ELSE r.stage[w]
  BY <1>1, <1>2, PanelStaged
<1> HIDE DEF q
<1>5. [p EXCEPT !.busy = FALSE, !.stage[by] = "none"] = q
  BY <1>3 DEF q
<1>6. QED
  BY <1>1, <1>4, <1>5

LEMMA StagedPanel ==
  ASSUME IInv, NEW by \in Ways, NEW stage \in Stages
  PROVE  /\ Staged(by, stage) \in PanelType
         /\ Staged(by, stage).busy = panel.busy /\ Staged(by, stage).manual = panel.manual
         /\ \A w \in Ways : Staged(by, stage).stage[w] = IF w = by THEN stage ELSE panel.stage[w]
<1>1. Staged(by, stage) = WithStage(panel, by, stage)
  BY DEF Staged, WithStage
<1>2. QED
  BY <1>1, Facts, PanelStaged

\* A step of the panel that changes no exchange's place.
LEMMA PanelStep ==
  ASSUME IInv, UNCHANGED client, conn' \in [Conn -> Exchange],
         \A c \in Conn : Obeys(conn[c], conn'[c]) /\ (Owns(c) <=> Owns(c)'),
         panel' \in PanelType, host' \in HostType, doubt' \in Doubts,
         host'.pending = NoConn \/ UNCHANGED <<conn, host>>, Owned'
  PROVE  IInv'
<1>1. PendingOK'
  BY Facts DEF PendingOK
<1>2. QED
  BY <1>1, CompanionStep

LEMMA SameConn ==
  ASSUME IInv, UNCHANGED conn
  PROVE  /\ conn' \in [Conn -> Exchange]
         /\ \A c \in Conn : Obeys(conn[c], conn'[c]) /\ (Owns(c) <=> Owns(c)')
BY Facts, StillObeys DEF Owns

LEMMA MovedConn ==
  ASSUME IInv, conn' = Moved(conn)
  PROVE  /\ conn' \in [Conn -> Exchange]
         /\ \A c \in Conn : Obeys(conn[c], conn'[c]) /\ (Owns(c) <=> Owns(c)')
<1>1. ASSUME NEW c \in Conn
      PROVE  conn'[c] \in Exchange /\ Obeys(conn[c], conn'[c]) /\ conn'[c].at = conn[c].at
  <2>1. conn'[c] = [conn[c] EXCEPT !.same = FALSE]
    BY DEF Moved
  <2>2. QED
    BY <2>1, Facts, StillObeys, SameObeys
<1>2. QED
  BY <1>1 DEF Owns, Moved

\* The panel is taken for a reconnection, which nobody else holds then.
LEMMA ReconnectsStep ==
  ASSUME IInv, UNCHANGED client, NEW by \in Ways, Reconnects(by), ~panel.busy, doubt' \in Doubts,
         doubt' # "open", doubt = "crossed" => doubt' = "crossed"
  PROVE  IInv'
<1>1. /\ panel' \in PanelType /\ panel'.busy
      /\ \A w \in Ways : panel'.stage[w] = IF w = by THEN "start" ELSE panel.stage[w]
  BY Facts, PanelReconnects DEF Reconnects
<1>2. /\ conn' \in [Conn -> Exchange]
      /\ \A c \in Conn : Obeys(conn[c], conn'[c]) /\ (Owns(c) <=> Owns(c)')
      /\ host' \in HostType /\ host'.pending = NoConn
  BY StopHere DEF Reconnects
<1>3. ASSUME doubt' # "crossed" PROVE Owned'
  <2>1. (\A c \in Conn : ~Owns(c)) /\ \A w \in Ways : ~Reconnecting(w)
    BY <1>3, Facts DEF Owned
  <2>2. \A c \in Conn : ~Owns(c)'
    BY <1>2, <2>1
  <2>3. \A w \in Ways : Reconnecting(w)' => w = by
    BY <1>1, <2>1 DEF Reconnecting
  <2>4. QED
    BY <1>1, <2>2, <2>3 DEF Owned, Ways
<1>4. Owned'
  BY <1>3 DEF Owned
<1>5. QED
  BY <1>1, <1>2, <1>4, PanelStep

\* Nothing but what recover() is at changes.
LEMMA RecoverStep ==
  ASSUME IInv, UNCHANGED <<client, conn, host>>, doubt' \in {doubt, "crossed"},
         ~Reconnecting("recover"), NEW stage \in {"none", "reading"},
         panel' = Staged("recover", stage)
  PROVE  IInv'
<1>1. /\ panel' \in PanelType /\ panel'.busy = panel.busy /\ panel'.manual = panel.manual
      /\ \A w \in Ways : panel'.stage[w] = IF w = "recover" THEN stage ELSE panel.stage[w]
  <2>1. "recover" \in Ways /\ stage \in Stages
    BY DEF Ways, Stages
  <2>2. QED
    BY <2>1, StagedPanel
<1>2. /\ conn' \in [Conn -> Exchange]
      /\ \A c \in Conn : Obeys(conn[c], conn'[c]) /\ (Owns(c) <=> Owns(c)')
  BY SameConn
<1>3. \A w \in Ways : Reconnecting(w)' <=> Reconnecting(w)
  BY <1>1 DEF Reconnecting, Ways
<1>4. Owned'
  BY <1>1, <1>2, <1>3, Facts DEF Owned, Ways
<1>5. QED
  BY <1>1, <1>2, <1>4, Facts, PanelStep DEF Doubts

LEMMA UserReconnectsStep ==
  ASSUME IInv, UserReconnects
  PROVE  IInv'
<1>1. doubt' \in Doubts /\ doubt' # "open" /\ (doubt = "crossed" => doubt' = "crossed")
  BY Facts DEF UserReconnects, Doubts
<1>2. QED
  BY <1>1, ReconnectsStep DEF UserReconnects, Ways

LEMMA LookStep ==
  ASSUME IInv, Look
  PROVE  IInv'
<1>1. ~panel.busy /\ ~panel.manual /\ ~Reconnecting("recover") /\ UNCHANGED <<client, doubt>>
  BY DEF Look, Reconnecting
<1>2. doubt # "open"
  BY <1>1, Facts DEF Owned
<1>3. CASE Reconnects("recover")
  BY <1>1, <1>2, <1>3, Facts, ReconnectsStep DEF Ways
<1>4. CASE \E stage \in {"none", "reading"} : panel' = Staged("recover", stage) /\ UNCHANGED <<conn, host>>
  BY <1>1, <1>4, RecoverStep
<1>5. QED
  BY <1>3, <1>4 DEF Look, Decide

\* What recover() restarts beside a reconnection or an operation is history.
LEMMA LookedAgainStep ==
  ASSUME IInv, LookedAgain
  PROVE  IInv'
<1>1. ~Reconnecting("recover") /\ UNCHANGED client /\ panel.stage["recover"] = "reading"
  BY DEF LookedAgain, Reconnecting
<1>2. doubt' \in {doubt, "crossed"} /\ doubt' \in Doubts
  BY Facts DEF LookedAgain, Doubts
<1>3. CASE panel' = Staged("recover", "none") /\ UNCHANGED <<conn, host>>
  BY <1>1, <1>2, <1>3, RecoverStep
<1>4. CASE Reconnects("recover")
  <2>1. /\ panel' \in PanelType /\ panel'.stage["recover"] = "start"
    BY <1>4, Facts, PanelReconnects DEF Reconnects, Ways
  <2>2. CASE panel.busy \/ panel.manual
    <3>1. doubt' = "crossed"
      BY <2>1, <2>2 DEF LookedAgain
    <3>2. Owned'
      BY <3>1 DEF Owned
    <3>3. /\ conn' \in [Conn -> Exchange]
          /\ \A c \in Conn : Obeys(conn[c], conn'[c]) /\ (Owns(c) <=> Owns(c)')
          /\ host' \in HostType /\ host'.pending = NoConn
      BY <1>4, StopHere DEF Reconnects
    <3>4. QED
      BY <1>1, <1>2, <2>1, <3>2, <3>3, PanelStep
  <2>3. CASE ~panel.busy /\ ~panel.manual
    <3>1. doubt # "open" /\ doubt' = doubt
      BY <2>3, Facts DEF Owned, LookedAgain
    <3>2. QED
      BY <1>1, <1>2, <1>4, <2>3, <3>1, ReconnectsStep DEF Ways
  <2>4. QED
    BY <2>2, <2>3, Facts DEF PanelType
<1>5. QED
  BY <1>3, <1>4 DEF LookedAgain, Decide

\* A reconnection ends.
LEMMA OverStep ==
  ASSUME IInv, UNCHANGED <<client, doubt>>, NEW by \in Ways, Reconnecting(by),
         conn' \in [Conn -> Exchange],
         \A c \in Conn : Obeys(conn[c], conn'[c]) /\ (Owns(c) <=> Owns(c)'),
         panel' \in PanelType, ~panel'.busy,
         \A w \in Ways : panel'.stage[w] = IF w = by THEN "none" ELSE panel.stage[w],
         host' \in HostType, host'.pending = NoConn \/ UNCHANGED <<conn, host>>
  PROVE  IInv'
<1>1. ASSUME doubt' # "crossed" PROVE Owned'
  <2>1. doubt # "open" /\ (\A c \in Conn : ~Owns(c)) /\ \A w \in Ways : Reconnecting(w) => w = by
    BY <1>1, Facts DEF Owned, Ways
  <2>2. \A c \in Conn : ~Owns(c)'
    BY <2>1
  <2>3. \A w \in Ways : ~Reconnecting(w)'
    BY <2>1 DEF Reconnecting
  <2>4. QED
    BY <2>1, <2>2, <2>3 DEF Owned, Ways
<1>2. Owned'
  BY <1>1 DEF Owned
<1>3. QED
  BY <1>2, Facts, PanelStep

LEMMA ReconnectStep ==
  ASSUME IInv, NEW by \in Ways, Reconnect(by)
  PROVE  IInv'
<1>1. UNCHANGED <<client, doubt>> /\ Reconnecting(by)
  BY DEF Reconnect, Reconnecting
<1>2. /\ Over(by) \in PanelType /\ ~Over(by).busy
      /\ \A w \in Ways : Over(by).stage[w] = IF w = by THEN "none" ELSE panel.stage[w]
  BY Facts, PanelOver DEF Over
<1>3. CASE /\ host' \in {host} \cup (IF CanStart THEN {Down} ELSE {})
           /\ panel' = Over(by) /\ UNCHANGED conn
  <2>1. host' \in HostType /\ (host'.pending = NoConn \/ UNCHANGED <<conn, host>>)
    <3>1. CASE host' = host
      BY <1>3, <3>1, Facts
    <3>2. CASE host' = Down /\ host.pending = NoConn
      BY <3>2, Facts DEF Down, HostType
    <3>3. QED
      BY <1>3, <3>1, <3>2 DEF CanStart
  <2>2. QED
    BY <1>1, <1>2, <1>3, <2>1, SameConn, OverStep
<1>4. CASE host' = Fresh /\ conn' = Moved(conn) /\ panel' = Staged(by, "finish")
           /\ panel.stage[by] = "start"
  <2>1. /\ panel' \in PanelType /\ panel'.busy = panel.busy /\ panel'.manual = panel.manual
        /\ \A w \in Ways : panel'.stage[w] = IF w = by THEN "finish" ELSE panel.stage[w]
    <3>1. "finish" \in Stages
      BY DEF Stages
    <3>2. QED
      BY <1>4, <3>1, StagedPanel
  <2>2. host' \in HostType /\ host'.pending = NoConn
    BY <1>4 DEF Fresh, HostType
  <2>3. \A w \in Ways : Reconnecting(w)' <=> Reconnecting(w)
    BY <1>4, <2>1 DEF Reconnecting
  <2>4. /\ conn' \in [Conn -> Exchange]
        /\ \A c \in Conn : Obeys(conn[c], conn'[c]) /\ (Owns(c) <=> Owns(c)')
    BY <1>4, MovedConn
  <2>5. Owned'
    BY <1>1, <2>1, <2>3, <2>4, Facts DEF Owned, Ways
  <2>6. QED
    BY <1>1, <2>1, <2>2, <2>4, <2>5, Facts, PanelStep
<1>5. CASE panel' \in {Over(by), [Over(by) EXCEPT !.manual = FALSE]} /\ UNCHANGED <<conn, host>>
  <2>1. /\ panel' \in PanelType /\ ~panel'.busy
        /\ \A w \in Ways : panel'.stage[w] = IF w = by THEN "none" ELSE panel.stage[w]
    <3>1. CASE panel' = Over(by)
      BY <1>2, <3>1
    <3>2. CASE panel' = [Over(by) EXCEPT !.manual = FALSE]
      <4> DEFINE o == Over(by)
      <4>1. panel' = [o EXCEPT !.manual = FALSE] /\ o \in PanelType
        BY <1>2, <3>2
      <4> HIDE DEF o
      <4>2. panel' \in PanelType /\ panel'.busy = o.busy /\ panel'.stage = o.stage
        BY <4>1, PanelManual
      <4>3. QED
        BY <1>2, <4>2 DEF o
    <3>3. QED
      BY <1>5, <3>1, <3>2
  <2>2. QED
    BY <1>1, <1>5, <2>1, Facts, SameConn, OverStep
<1>6. QED
  BY <1>3, <1>4, <1>5 DEF Reconnect

LEMMA PluginExitsStep ==
  ASSUME IInv, PluginExits
  PROVE  IInv'
<1>1. host' \in HostType /\ host'.pending = host.pending /\ UNCHANGED <<client, conn, panel, doubt>>
  BY Facts, HostStops DEF PluginExits
<1>2. PendingOK' /\ Owned'
  BY <1>1, Facts DEF PendingOK, Owned, Owns, Reconnecting
<1>3. QED
  BY <1>1, <1>2, Facts, SameConn, CompanionStep

LEMMA CompanionRestartsStep ==
  ASSUME IInv, CompanionRestarts
  PROVE  IInv'
<1>1. UNCHANGED client /\ doubt' = "none" /\ panel' = Quiet
  BY DEF CompanionRestarts
<1>2. ASSUME NEW c \in Conn
      PROVE  conn'[c] \in Exchange /\ conn'[c].at = "done" /\ Obeys(conn[c], conn'[c])
  BY Facts, EndedObeys DEF CompanionRestarts
<1>3. conn' \in [Conn -> Exchange]
  BY <1>2 DEF CompanionRestarts
<1>4. panel' \in PanelType /\ \A w \in Ways : panel'.stage[w] = "none"
  BY <1>1 DEF Quiet, PanelType, Ways
<1>5. host' \in HostType /\ host'.pending = NoConn
  <2>1. Fresh \in HostType /\ Fresh.pending = NoConn
    BY DEF Fresh, HostType
  <2>2. QED
    BY <2>1, HostStops DEF CompanionRestarts
<1>6. Owned'
  BY <1>1, <1>2, <1>4 DEF Owned, Owns, Reconnecting, Operating, Dispatched, Ways
<1>7. QED
  BY <1>1, <1>2, <1>3, <1>4, <1>5, <1>6, CompanionStep DEF PendingOK, Doubts

-----------------------------------------------------------------------------
(* The daemon.                                                             *)

LEMMA NoJobFields == NoJob \in JobType /\ ~NoJob.live
BY DEF NoJob, JobType

\* What the client goes on with is as fresh as what it had.
LEMMA NextShape ==
  ASSUME NEW cl \in ClientType, NEW success \in BOOLEAN, NEW next,
         \/ cl.kind = "lane" /\ cl.pending = NoJob /\ next = NextStep(cl, success)
         \/ cl.kind # "lane" /\ next = NextJob(cl, success)
              /\ (cl.pending # NoJob /\ success /\ cl.pending.live => cl.pending.pure),
         cl.active.live => cl.active.pure, cl.pc # "idle"
  PROVE  /\ next \in ClientType /\ next.kind = cl.kind /\ next.pc \in {"idle", "begin"}
         /\ next.granted = cl.granted
         /\ next.active.live => next.pc # "idle" /\ next.active.pure
         /\ next.pending # NoJob =>
              /\ next.pc # "idle" /\ next.kind # "lane"
              /\ next.pending.live = next.active.live
              /\ next.pending.live => next.pending.pure
<1>0. /\ cl.active \in JobType /\ cl.pending \in JobType /\ 1 \in Int
      /\ cl.active.turns \in Int /\ cl.pending.turns \in Int
  BY DEF ClientType, JobType
<1>1. CASE cl.kind = "lane" /\ cl.pending = NoJob /\ next = NextStep(cl, success)
  <2> DEFINE rest == cl.active.turns - Clamp(cl.active.turns, 1)
             a == [cl.active EXCEPT !.turns = rest]
  <2>1. rest \in Int
    BY <1>0 DEF Clamp
  <2>2. \/ next = [cl EXCEPT !.pc = "begin", !.active = a]
        \/ next = [cl EXCEPT !.pc = "idle", !.active = NoJob]
    BY <1>0, <1>1 DEF NextStep, ClientType
  <2> HIDE DEF rest
  <2>3. a \in JobType /\ a.live = cl.active.live /\ a.pure = cl.active.pure
    BY <1>0, <2>1 DEF JobType
  <2> HIDE DEF a
  <2>4. QED
    BY <1>1, <2>2, <2>3, NoJobFields DEF ClientType
<1>2. CASE cl.kind # "lane" /\ next = NextJob(cl, success)
              /\ (cl.pending # NoJob /\ success /\ cl.pending.live => cl.pending.pure)
  <2> DEFINE n == Clamp(cl.pending.turns, 1)
             rest == cl.pending.turns - n
             a == [cl.pending EXCEPT !.turns = n]
             p == [cl.pending EXCEPT !.turns = rest]
             q == IF rest = 0 THEN NoJob ELSE p
  <2>1. n \in Int /\ rest \in Int
    BY <1>0 DEF Clamp
  <2>2. \/ next = [cl EXCEPT !.pc = "idle", !.active = NoJob, !.pending = NoJob]
        \/ /\ next = [cl EXCEPT !.pc = "begin", !.active = a, !.pending = q]
           /\ cl.pending # NoJob /\ success
    BY <1>2 DEF NextJob
  <2> HIDE DEF n, rest
  <2>3. /\ a \in JobType /\ a.live = cl.pending.live /\ a.pure = cl.pending.pure
        /\ p \in JobType /\ p.live = cl.pending.live /\ p.pure = cl.pending.pure
    BY <1>0, <2>1 DEF JobType
  <2>4. q \in {NoJob, p} /\ q \in JobType
    BY <2>3, NoJobFields
  <2> HIDE DEF a, p, q
  <2>5. CASE next = [cl EXCEPT !.pc = "idle", !.active = NoJob, !.pending = NoJob]
    BY <1>2, <2>5, NoJobFields DEF ClientType
  <2>6. CASE /\ next = [cl EXCEPT !.pc = "begin", !.active = a, !.pending = q]
             /\ cl.pending # NoJob /\ success
    <3>1. /\ next \in ClientType /\ next.kind = cl.kind /\ next.pc = "begin"
          /\ next.granted = cl.granted /\ next.active = a /\ next.pending = q
      BY <1>2, <2>3, <2>4, <2>6 DEF ClientType
    <3>2. a.live => a.pure
      BY <1>2, <2>3, <2>6
    <3>3. q # NoJob => q.live = a.live /\ (q.live => q.pure)
      BY <1>2, <2>3, <2>4, <2>6
    <3>4. QED
      BY <1>2, <3>1, <3>2, <3>3
  <2>7. QED
    BY <2>2, <2>5, <2>6
<1>3. QED
  BY <1>1, <1>2

LEMMA VerdictShape ==
  ASSUME IInv, client.pc # "idle", NEW v, Verdict(v)
  PROVE  /\ client' \in ClientType /\ client'.kind = client.kind
         /\ client'.pc \in {"idle", "begin"} /\ ~client'.granted /\ Waiting'
<1> DEFINE b == client.blocked \/ (Lane /\ v = "unknown")
           k == client.pending.pure /\ v = "ok"
           p == [client.pending EXCEPT !.pure = k]
           over == [client EXCEPT !.on = NoConn, !.granted = FALSE, !.blocked = b, !.pending = p]
<1>1. client \in ClientType /\ client.pending \in JobType /\ b \in BOOLEAN /\ k \in BOOLEAN
  BY DEF IInv, Typed, ClientType, JobType
<1>2. \/ Lane /\ client' = NextStep(over, v = "ok")
      \/ ~Lane /\ \E young \in BOOLEAN : client' = NextJob(over, v = "ok" /\ young)
  BY <1>1 DEF Verdict, ClientType, JobType
<1>3. (v = "ok" => k = client.pending.pure) /\ (k => client.pending.pure)
  BY <1>1 DEF JobType
<1> HIDE DEF b, k
<1>4. p \in JobType /\ p.live = client.pending.live /\ p.turns = client.pending.turns /\ p.pure = k
  BY <1>1 DEF JobType
<1> HIDE DEF p
<1>5. ASSUME client.pending = NoJob PROVE p = NoJob
  <2>1. ~p.pure /\ ~p.live /\ p.turns = 0
    BY <1>3, <1>4, <1>5 DEF NoJob
  <2>2. QED
    BY <1>4, <2>1 DEF JobType, NoJob
<1>6. /\ over \in ClientType /\ over.kind = client.kind /\ over.pc = client.pc
      /\ ~over.granted /\ over.active = client.active /\ over.pending = p
  BY <1>1, <1>4 DEF ClientType
<1> HIDE DEF over
<1>7. /\ client.active.live => client.active.pure
      /\ Lane => client.pending = NoJob
      /\ client.pending # NoJob /\ client.pending.live => client.pending.pure
  BY DEF IInv, Waiting
<1>8. \E success \in BOOLEAN :
        \/ over.kind = "lane" /\ over.pending = NoJob /\ client' = NextStep(over, success)
        \/ /\ over.kind # "lane" /\ client' = NextJob(over, success)
           /\ over.pending # NoJob /\ success /\ over.pending.live => over.pending.pure
  <2>1. CASE Lane
    <3>1. (v = "ok") \in BOOLEAN
      OBVIOUS
    <3>2. QED
      BY <1>2, <1>5, <1>6, <1>7, <2>1, <3>1 DEF Lane
  <2>2. CASE ~Lane
    <3>1. PICK young \in BOOLEAN : client' = NextJob(over, v = "ok" /\ young)
      BY <1>2, <2>2
    <3>2. (v = "ok" /\ young) \in BOOLEAN
      OBVIOUS
    <3>3. (v = "ok" /\ young) /\ over.pending # NoJob /\ over.pending.live => over.pending.pure
      BY <1>3, <1>4, <1>5, <1>6, <1>7
    <3>4. QED
      BY <1>6, <2>2, <3>1, <3>2, <3>3 DEF Lane
  <2>3. QED
    BY <2>1, <2>2
<1>9. PICK success \in BOOLEAN :
        \/ over.kind = "lane" /\ over.pending = NoJob /\ client' = NextStep(over, success)
        \/ /\ over.kind # "lane" /\ client' = NextJob(over, success)
           /\ over.pending # NoJob /\ success /\ over.pending.live => over.pending.pure
  BY <1>8
<1>10. QED
  BY <1>6, <1>7, <1>9, NextShape DEF Waiting, Lane

\* The companion sees an exchange end where the daemon only concludes it.
LEMMA ConcludeStep ==
  ASSUME IInv, client.pc = "wait", NEW v, Verdict(v), UNCHANGED Companion,
         NEW z \in Exchange, conn' = [conn EXCEPT ![client.on] = z],
         z.at = conn[client.on].at, Told(z)
  PROVE  IInv'
<1>1. client.on \in Conn
  BY DEF IInv, Asking
<1>2. /\ client' \in ClientType /\ client'.kind = client.kind
      /\ client'.pc \in {"idle", "begin"} /\ ~client'.granted /\ Waiting'
  BY VerdictShape
<1>3. UNCHANGED <<panel, host, doubt>>
  BY DEF Companion
<1>4. conn' \in [Conn -> Exchange] /\ \A c \in Conn : conn'[c] = IF c = client.on THEN z ELSE conn[c]
  BY <1>1, Facts
<1>5. Typed'
  BY <1>2, <1>3, <1>4, Facts DEF Typed
<1>6. ASSUME NEW c \in Conn PROVE Told(conn[c])'
  <2>1. Told(conn'[c])
    BY <1>4 DEF IInv
  <2>2. QED
    BY <1>2, <2>1 DEF Told, Lane
<1>7. Asking'
  BY <1>2 DEF Asking
<1>8. \A c \in Conn : Owns(c)' <=> Owns(c)
  BY <1>1, <1>4 DEF Owns
<1>9. PendingOK' /\ Owned'
  BY <1>3, <1>4, <1>8, Facts DEF PendingOK, Owned, Reconnecting, HostType
<1>10. QED
  BY <1>2, <1>5, <1>6, <1>7, <1>9 DEF IInv

Verdicts == {"never", "ok", "failed", "unknown"}

LEMMA ConcludedTold ==
  ASSUME IInv, NEW c \in Conn, NEW v \in Verdicts,
         v = "never" => /\ ~conn[c].passed
                        /\ conn[c].at # "done" => ~conn[c].watched /\ conn[c].decision # "apply",
         v = "ok" => conn[c].at = "done" /\ conn[c].outcome \in Good
  PROVE  \E z \in Exchange :
           /\ Concluded(c, v) = [conn EXCEPT ![c] = z]
           /\ z.at = conn[c].at /\ Told(z)
           /\ z.passed = conn[c].passed /\ z.watched = conn[c].watched /\ z.verdict = v
<1> DEFINE z == [conn[c] EXCEPT !.verdict = v, !.left = TRUE, !.down = <<>>]
<1>1. <<>> \in Seq(Replies) /\ Len(<<>>) = 0
  OBVIOUS
<1>2. /\ z \in Exchange /\ z.at = conn[c].at /\ z.watched = conn[c].watched
      /\ z.decision = conn[c].decision /\ z.passed = conn[c].passed
      /\ z.outcome = conn[c].outcome /\ z.verdict = v /\ z.down = <<>>
  BY <1>1, Facts DEF Exchange, Verdicts
<1>3. Concluded(c, v) = [conn EXCEPT ![c] = z]
  BY Facts DEF Concluded
<1> HIDE DEF z
<1>4. Told(conn[c])
  BY DEF IInv
<1>5. \A i \in 1..Len(z.down) : FALSE
  BY <1>1, <1>2
<1>6. Told(z)
  BY <1>2, <1>4, <1>5 DEF Told
<1>7. QED
  BY <1>2, <1>3, <1>6

LEMMA ConcludedStep ==
  ASSUME IInv, client.pc = "wait", NEW v \in Verdicts, Verdict(v), UNCHANGED Companion,
         conn' = Concluded(client.on, v),
         v = "never" => Lane /\ ~client.granted,
         v = "ok" => conn[client.on].at = "done" /\ conn[client.on].outcome \in Good
  PROVE  IInv'
<1>1. client.on \in Conn
  BY DEF IInv, Asking
<1>2. v = "never" => /\ ~conn[client.on].passed
                     /\ conn[client.on].at # "done" =>
                          ~conn[client.on].watched /\ conn[client.on].decision # "apply"
  BY DEF IInv, Asking
<1>3. PICK z \in Exchange : /\ Concluded(client.on, v) = [conn EXCEPT ![client.on] = z]
                            /\ z.at = conn[client.on].at /\ Told(z)
  BY <1>1, <1>2, ConcludedTold
<1>4. QED
  BY <1>3, ConcludeStep

LEMMA GiveUpStep == IInv /\ GiveUp => IInv'
<1> SUFFICES ASSUME IInv, GiveUp PROVE IInv'
  OBVIOUS
<1>1. Interrupted \in Verdicts /\ (Interrupted = "never" => Lane /\ ~client.granted) /\ Interrupted # "ok"
  BY DEF Interrupted, Verdicts
<1>2. QED
  BY <1>1, ConcludedStep DEF GiveUp

\* The reply at the head.
LEMMA HeadReply ==
  ASSUME IInv, client.pc = "wait", conn[client.on].down # <<>>
  PROVE  LET x == conn[client.on]
             reply == Head(x.down)
         IN  /\ reply \in Replies /\ x.at \notin Early
             /\ reply = "ready" => Lane /\ ~client.granted
             /\ reply \in {"ok", "needless"} => x.at = "done" /\ x.outcome \in Good
             /\ Tail(x.down) \in Seq(Replies)
             /\ \A i \in 1..Len(Tail(x.down)) : Tail(x.down)[i] # "ready" /\ Tail(x.down)[i] = x.down[i + 1]
                                                /\ i + 1 \in 1..Len(x.down)
<1> DEFINE x == conn[client.on]
           s == x.down
<1>1. client.on \in Conn
  BY DEF IInv, Asking
<1>2. s \in Seq(Replies) /\ s # <<>> /\ Told(x)
  BY <1>1, Facts DEF Exchange, IInv
<1>3. client.granted => \A i \in 1..Len(s) : s[i] # "ready"
  BY DEF IInv, Asking
<1>4. /\ Told(x)!3 /\ Told(x)!4
  BY <1>2 DEF Told
<1> HIDE DEF s
<1>5. /\ 1 \in 1..Len(s) /\ Head(s) = s[1] /\ Head(s) \in Replies
      /\ Tail(s) \in Seq(Replies) /\ Len(Tail(s)) = Len(s) - 1
      /\ \A i \in 1..Len(Tail(s)) : Tail(s)[i] = s[i + 1] /\ i + 1 \in 1..Len(s) /\ i + 1 # 1
  BY <1>2
<1>6. \A i \in 1..Len(s) :
        /\ s[i] = "ready" => i = 1 /\ Lane
        /\ s[i] \in {"ok", "needless"} => x.at = "done" /\ x.outcome \in Good
  BY <1>4 DEF s
<1>7. x.at \notin Early
  BY <1>2, <1>4 DEF s
<1>8. QED
  BY <1>3, <1>5, <1>6, <1>7 DEF s

LEMMA AnswerStep == IInv /\ Answer => IInv'
<1> SUFFICES ASSUME IInv, Answer PROVE IInv'
  OBVIOUS
<1> DEFINE x == conn[client.on]
           reply == Head(x.down)
           v == CASE reply = "fail" -> "failed"
                  [] Lane /\ (reply = "ok") # client.granted -> "unknown"
                  [] OTHER -> "ok"
<1>1. /\ client.pc = "wait" /\ x.down # <<>> /\ reply # "ready"
      /\ Verdict(v) /\ conn' = Concluded(client.on, v) /\ UNCHANGED Companion
  BY DEF Answer
<1>2. reply \in Replies /\ (reply \in {"ok", "needless"} => x.at = "done" /\ x.outcome \in Good)
  BY <1>1, HeadReply
<1> HIDE DEF reply
<1>3. v \in Verdicts /\ v # "never" /\ (v = "ok" => reply # "fail")
  BY DEF Verdicts
<1> HIDE DEF v
<1>4. v = "ok" => x.at = "done" /\ x.outcome \in Good
  BY <1>1, <1>2, <1>3 DEF Replies
<1>5. QED
  BY <1>1, <1>3, <1>4, ConcludedStep

\* The client changes and the exchanges keep their places.
LEMMA ClientStep ==
  ASSUME IInv, client' \in ClientType, client'.kind = client.kind, UNCHANGED Companion,
         conn' \in [Conn -> Exchange], Waiting', Asking',
         \A c \in Conn : Told(conn'[c]),
         \A c \in Conn : conn'[c].at = conn[c].at \/ (~Owns(c) /\ ~Owns(c)' /\ host.pending # c)
  PROVE  IInv'
<1>1. UNCHANGED <<panel, host, doubt>>
  BY DEF Companion
<1>2. Typed'
  BY <1>1, Facts DEF Typed
<1>3. ASSUME NEW c \in Conn PROVE Told(conn[c])'
  <2>1. Told(conn'[c])
    OBVIOUS
  <2>2. QED
    BY <2>1 DEF Told, Lane
<1>4. \A c \in Conn : Owns(c)' <=> Owns(c)
  BY DEF Owns
<1>5. PendingOK' /\ Owned'
  BY <1>1, <1>4, Facts DEF PendingOK, Owned, Reconnecting, HostType
<1>6. QED
  BY <1>2, <1>3, <1>5 DEF IInv

LEMMA ClientOnlyStep ==
  ASSUME IInv, client' \in ClientType, client'.kind = client.kind, UNCHANGED Companion,
         UNCHANGED conn, Waiting', Asking'
  PROVE  IInv'
<1>1. /\ conn' \in [Conn -> Exchange] /\ \A c \in Conn : Told(conn'[c])
      /\ \A c \in Conn : conn'[c].at = conn[c].at
  BY Facts DEF IInv
<1>2. QED
  BY <1>1, ClientStep

LEMMA ChangeContextStep == IInv /\ ChangeContext => IInv'
<1> SUFFICES ASSUME IInv, ChangeContext PROVE IInv'
  OBVIOUS
<1> DEFINE a == [client.active EXCEPT !.live = FALSE, !.pure = FALSE]
           p == [client.pending EXCEPT !.live = FALSE, !.pure = FALSE]
<1>1. client \in ClientType /\ client.active \in JobType /\ client.pending \in JobType
  BY DEF IInv, Typed, ClientType
<1>2. client' = [client EXCEPT !.active = a, !.pending = p] /\ UNCHANGED conn /\ UNCHANGED Companion
  BY <1>1 DEF ChangeContext, ClientType
<1>3. /\ a \in JobType /\ ~a.live /\ p \in JobType /\ ~p.live /\ ~p.pure /\ p.live = a.live
      /\ p.turns = client.pending.turns
  BY <1>1 DEF JobType
<1> HIDE DEF a, p
<1>4. /\ client' \in ClientType /\ client'.kind = client.kind /\ client'.pc = client.pc
      /\ client'.on = client.on /\ client'.granted = client.granted
      /\ client'.active = a /\ client'.pending = p
  BY <1>1, <1>2, <1>3 DEF ClientType
<1>5. client.active.live => client.pc # "idle"
  BY DEF IInv, Waiting
<1>6. client.pending = NoJob => p = NoJob
  BY <1>3 DEF JobType, NoJob
<1>7. Waiting'
  BY <1>3, <1>4, <1>6 DEF IInv, Waiting, Lane
<1>8. Asking'
  BY <1>2, <1>4 DEF IInv, Asking, Lane
<1>9. QED
  BY <1>2, <1>4, <1>7, <1>8, ClientOnlyStep

LEMMA JoinedShape ==
  ASSUME client \in ClientType, NEW turns \in Int
  PROVE  /\ Joined(turns) \in JobType /\ Joined(turns).live
         /\ (client.pending # NoJob => client.pending.pure) => Joined(turns).pure
<1> DEFINE n == Clamp(client.pending.turns + turns, MaxTurns)
           b == client.pending # NoJob => client.pending.pure
<1>1. n \in Int
  BY BridgeAssumption DEF Clamp, ClientType, JobType
<1>2. b \in BOOLEAN
  OBVIOUS
<1>3. Joined(turns) = [Job(n) EXCEPT !.pure = b]
  BY DEF Joined
<1> HIDE DEF n, b
<1>4. /\ Joined(turns) \in JobType /\ Joined(turns).live /\ (b => Joined(turns).pure)
  BY <1>1, <1>2, <1>3 DEF Job, JobType
<1>5. QED
  BY <1>4 DEF b

LEMMA SubmitStep == IInv /\ Submit => IInv'
<1> SUFFICES ASSUME IInv, Submit PROVE IInv'
  OBVIOUS
<1>1. client \in ClientType /\ UNCHANGED conn /\ UNCHANGED Companion
  BY DEF IInv, Typed, Submit
<1>2. CASE client.pc = "idle" /\ \E turns \in IF Lane THEN Amount \cup {MaxTurns} ELSE Amount :
             client' = [client EXCEPT !.pc = "begin", !.active = Job(turns)]
  <2>1. PICK turns \in Amount \cup {MaxTurns} :
             client' = [client EXCEPT !.pc = "begin", !.active = Job(turns)]
    BY <1>2
  <2>2. turns \in Int
    BY BridgeAssumption
  <2> DEFINE j == Job(turns)
  <2>3. j \in JobType /\ j.live /\ j.pure
    BY <2>2 DEF Job, JobType
  <2> HIDE DEF j
  <2>4. /\ client' \in ClientType /\ client'.kind = client.kind /\ client'.pc = "begin"
        /\ client'.on = client.on /\ client'.granted = client.granted
        /\ client'.active = j /\ client'.pending = client.pending
    BY <1>1, <2>1, <2>3 DEF ClientType, j
  <2>5. client.pending = NoJob
    BY <1>2 DEF IInv, Waiting
  <2>6. Waiting' /\ Asking'
    BY <1>2, <2>3, <2>4, <2>5 DEF IInv, Waiting, Asking
  <2>7. QED
    BY <1>1, <2>4, <2>6, ClientOnlyStep
<1>3. CASE client.pc # "idle" /\ ~Lane /\ \E turns \in Amount :
             Compatible(turns) /\ client' = [client EXCEPT !.pending = Joined(turns)]
  <2>1. PICK turns \in Amount :
             Compatible(turns) /\ client' = [client EXCEPT !.pending = Joined(turns)]
    BY <1>3
  <2>2. turns \in Int /\ client.active.live
    BY <2>1, BridgeAssumption DEF Compatible
  <2>3. client.pending # NoJob => client.pending.pure
    BY <2>2 DEF IInv, Waiting
  <2> DEFINE j == Joined(turns)
  <2>4. j \in JobType /\ j.live /\ j.pure
    BY <1>1, <2>2, <2>3, JoinedShape
  <2> HIDE DEF j
  <2>5. /\ client' \in ClientType /\ client'.kind = client.kind /\ client'.pc = client.pc
        /\ client'.on = client.on /\ client'.granted = client.granted
        /\ client'.active = client.active /\ client'.pending = j
    BY <1>1, <2>1, <2>4 DEF ClientType, j
  <2>6. client.active.live /\ client.active.pure /\ j.live = client.active.live
    BY <1>1, <2>2, <2>4 DEF IInv, Waiting, ClientType, JobType
  <2>7. Waiting'
    BY <1>3, <2>4, <2>5, <2>6 DEF Waiting, Lane
  <2>8. Asking'
    BY <1>1, <2>5 DEF IInv, Asking, Lane
  <2>9. QED
    BY <1>1, <2>5, <2>7, <2>8, ClientOnlyStep
<1>4. QED
  BY <1>2, <1>3 DEF Submit

LEMMA GrantStep == IInv /\ Grant => IInv'
<1> SUFFICES ASSUME IInv, Grant PROVE IInv'
  OBVIOUS
<1> DEFINE c == client.on
           x == conn[c]
<1>1. /\ client.pc = "wait" /\ x.down # <<>> /\ Head(x.down) = "ready" /\ UNCHANGED Companion
      /\ c \in Conn /\ x \in Exchange /\ x.verdict = "none" /\ ~x.left /\ client \in ClientType
  BY Facts DEF Grant, IInv, Asking, Typed
<1>2. /\ x.at \notin Early /\ Lane /\ ~client.granted /\ Tail(x.down) \in Seq(Replies)
      /\ \A i \in 1..Len(Tail(x.down)) : Tail(x.down)[i] # "ready" /\ Tail(x.down)[i] = x.down[i + 1]
                                                /\ i + 1 \in 1..Len(x.down)
  BY <1>1, HeadReply
<1>3. ~x.passed /\ x.decision = "none" /\ (x.at # "done" => ~x.watched)
  BY <1>1, <1>2 DEF IInv, Asking
<1>4. CASE /\ conn' = [conn EXCEPT ![c].decision = "apply", ![c].down = Tail(x.down)]
           /\ client' = [client EXCEPT !.granted = TRUE]
  <2> DEFINE t == Tail(x.down)
             z == [x EXCEPT !.decision = "apply", !.down = t]
  <2>1. Told(x)
    BY <1>1 DEF IInv
  <2>2. t \in Seq(Replies)
    BY <1>2
  <2>3. \A i \in 1..Len(t) : /\ t[i] # "ready"
                             /\ t[i] \in {"ok", "needless"} => x.at = "done" /\ x.outcome \in Good
    BY <1>2, <2>1 DEF Told
  <2>4. conn' = [conn EXCEPT ![c] = z]
    BY <1>1, <1>4, Facts
  <2> HIDE DEF t
  <2>5. /\ z \in Exchange /\ z.at = x.at /\ z.watched = x.watched /\ z.decision = "apply"
        /\ z.left = x.left /\ z.down = t /\ z.passed = x.passed /\ z.outcome = x.outcome
        /\ z.verdict = x.verdict
    BY <1>1, <2>2 DEF Exchange
  <2> HIDE DEF z
  <2>6. Told(z)
    BY <1>1, <1>2, <2>3, <2>5 DEF Told
  <2>7. /\ client' \in ClientType /\ client'.kind = client.kind /\ client'.pc = client.pc
        /\ client'.on = client.on /\ client'.granted
        /\ client'.active = client.active /\ client'.pending = client.pending
    BY <1>1, <1>4 DEF ClientType
  <2>8. Waiting'
    BY <2>7 DEF IInv, Waiting, Lane
  <2>9. conn' \in [Conn -> Exchange] /\ \A d \in Conn : conn'[d] = IF d = c THEN z ELSE conn[d]
    BY <1>1, <2>4, <2>5, Facts
  <2>10. Asking'
    BY <1>1, <1>2, <2>3, <2>5, <2>7, <2>9 DEF Asking
  <2>11. \A d \in Conn : Told(conn'[d]) /\ conn'[d].at = conn[d].at
    BY <2>5, <2>6, <2>9 DEF IInv
  <2>12. QED
    BY <1>1, <2>7, <2>8, <2>9, <2>10, <2>11, ClientStep
<1>5. CASE Verdict("never") /\ conn' = [Concluded(c, "never") EXCEPT ![c].decision = "abort"]
  <2>1. PICK y \in Exchange :
           /\ Concluded(c, "never") = [conn EXCEPT ![c] = y]
           /\ y.at = x.at /\ Told(y)
           /\ y.passed = x.passed /\ y.watched = x.watched /\ y.verdict = "never"
    BY <1>1, <1>3, ConcludedTold DEF Verdicts
  <2> DEFINE z == [y EXCEPT !.decision = "abort"]
  <2>2. conn' = [conn EXCEPT ![c] = z]
    BY <1>1, <1>5, <2>1, Facts
  <2>3. /\ z \in Exchange /\ z.at = y.at /\ z.watched = y.watched /\ z.decision = "abort"
        /\ z.down = y.down /\ z.passed = y.passed /\ z.outcome = y.outcome
        /\ z.verdict = y.verdict
    BY DEF Exchange
  <2> HIDE DEF z
  <2>4. Told(z)
    BY <2>1, <2>3 DEF Told
  <2>5. QED
    BY <1>1, <1>5, <2>1, <2>2, <2>3, <2>4, ConcludeStep
<1>6. CASE Verdict("unknown") /\ conn' = Concluded(c, "unknown")
  BY <1>1, <1>6, ConcludedStep DEF Verdicts
<1>7. QED
  BY <1>4, <1>5, <1>6 DEF Grant

LEMMA BeginStep == IInv /\ Begin => IInv'
<1> SUFFICES ASSUME IInv, Begin PROVE IInv'
  OBVIOUS
<1>1. client \in ClientType /\ client.pc = "begin" /\ UNCHANGED Companion /\ ~client.granted
  BY DEF IInv, Typed, Begin, Asking
<1>2. CASE Verdict("never") /\ UNCHANGED conn
  <2>1. /\ client' \in ClientType /\ client'.kind = client.kind
        /\ client'.pc \in {"idle", "begin"} /\ ~client'.granted /\ Waiting'
    BY <1>1, <1>2, VerdictShape
  <2>2. Asking'
    BY <2>1 DEF Asking
  <2>3. QED
    BY <1>1, <1>2, <2>1, <2>2, ClientOnlyStep
<1>3. CASE \E c \in Conn :
             /\ conn[c].at = "done" /\ conn[c].left
             /\ client' = [client EXCEPT !.pc = "wait", !.on = c]
             /\ conn' = [d \in Conn |-> IF d = c THEN [Opened EXCEPT !.watched = ~Lane]
                                      ELSE IF conn[d].at = "done" THEN Closed ELSE conn[d]]
  <2>1. PICK c \in Conn :
             /\ conn[c].at = "done" /\ conn[c].left
             /\ client' = [client EXCEPT !.pc = "wait", !.on = c]
             /\ conn' = [d \in Conn |-> IF d = c THEN [Opened EXCEPT !.watched = ~Lane]
                                      ELSE IF conn[d].at = "done" THEN Closed ELSE conn[d]]
    BY <1>3
  <2> DEFINE b == ~Lane
             o == [Opened EXCEPT !.watched = b]
  <2>2. b \in BOOLEAN /\ <<>> \in Seq(Replies) /\ \A i \in 1..Len(<<>>) : FALSE
    OBVIOUS
  <2>3. b <=> ~Lane
    OBVIOUS
  <2> HIDE DEF b
  <2>4. /\ o \in Exchange /\ o.at = "request" /\ o.watched = b /\ o.decision = "none" /\ ~o.left
        /\ o.down = <<>> /\ ~o.passed /\ o.verdict = "none"
    BY <2>2 DEF Exchange, Opened, Closed, Ats
  <2>5. /\ Closed \in Exchange /\ Closed.at = "done" /\ Closed.down = <<>> /\ Closed.verdict = "none"
    BY <2>2 DEF Exchange, Closed, Ats
  <2>6. conn' = [d \in Conn |-> IF d = c THEN o ELSE IF conn[d].at = "done" THEN Closed ELSE conn[d]]
    BY <2>1 DEF b
  <2> HIDE DEF o
  <2>7. Told(o)
    <3>1. \A i \in 1..Len(o.down) : FALSE
      BY <2>2, <2>4
    <3>2. o.watched <=> ~Lane
      BY <2>3, <2>4
    <3>3. QED
      BY <2>4, <3>1, <3>2 DEF Told
  <2>8. Told(Closed)
    BY <2>2, <2>5 DEF Told, Early
  <2>9. conn' \in [Conn -> Exchange] /\ \A d \in Conn : Told(conn'[d])
    BY <2>4, <2>5, <2>6, <2>7, <2>8, Facts DEF IInv
  <2>10. /\ client' \in ClientType /\ client'.kind = client.kind /\ client'.pc = "wait"
         /\ client'.on = c /\ ~client'.granted
         /\ client'.active = client.active /\ client'.pending = client.pending
    BY <1>1, <2>1 DEF ClientType
  <2>11. Waiting'
    BY <1>1, <2>10 DEF IInv, Waiting, Lane
  <2>12. conn'[c] = o
    BY <2>6
  <2>13. Asking'
    BY <2>3, <2>4, <2>10, <2>12 DEF Asking, Lane
  <2>14. ASSUME NEW d \in Conn
         PROVE  conn'[d].at = conn[d].at \/ (~Owns(d) /\ ~Owns(d)' /\ host.pending # d)
    <3>1. CASE d # c
      BY <2>5, <2>6, <3>1
    <3>2. CASE d = c
      <4>1. ~Owns(d) /\ ~Owns(d)'
        BY <2>1, <2>4, <2>12, <3>2 DEF Owns, Operating, Dispatched
      <4>2. host.pending # d
        BY <2>1, <3>2, Facts, BridgeAssumption DEF PendingOK
      <4>3. QED
        BY <4>1, <4>2
    <3>3. QED
      BY <3>1, <3>2
  <2>15. QED
    BY <1>1, <2>9, <2>10, <2>11, <2>13, <2>14, ClientStep
<1>4. QED
  BY <1>2, <1>3 DEF Begin

-----------------------------------------------------------------------------
(* The invariant.                                                          *)

LEMMA InitIInv == Init => IInv
<1> SUFFICES ASSUME Init PROVE IInv
  OBVIOUS
<1>1. /\ <<>> \in Seq(Replies) /\ \A i \in 1..Len(<<>>) : FALSE
      /\ NoJob \in JobType /\ ~NoJob.live
  BY NoJobFields
<1>2. PICK kind \in Clients :
       client = [kind |-> kind, pc |-> "idle", on |-> NoConn, granted |-> FALSE,
                 blocked |-> FALSE, active |-> NoJob, pending |-> NoJob]
  BY DEF Init
<1>3. kind \in {"lane", "worker"}
  BY BridgeAssumption
<1>4. client \in ClientType /\ client.active = NoJob /\ client.pending = NoJob
      /\ client.pc = "idle" /\ ~client.granted
  BY <1>1, <1>2, <1>3 DEF ClientType
<1>5. Closed \in Exchange /\ Closed.at = "done" /\ Closed.down = <<>> /\ Closed.verdict = "none"
  BY <1>1 DEF Exchange, Closed, Ats
<1>6. conn \in [Conn -> Exchange] /\ \A c \in Conn : conn[c] = Closed
  BY <1>5 DEF Init
<1>7. panel \in PanelType /\ \A by \in Ways : panel.stage[by] = "none"
  BY DEF Init, Quiet, PanelType, Ways
<1>8. host \in HostType /\ host.pending = NoConn /\ doubt = "none"
  BY DEF Init, Fresh, HostType
<1>9. Typed
  BY <1>4, <1>6, <1>7, <1>8 DEF Typed, Doubts
<1>10. Waiting /\ Asking /\ PendingOK
  BY <1>1, <1>4, <1>8 DEF Waiting, Asking, PendingOK
<1>11. Told(Closed)
  BY <1>1, <1>5 DEF Told, Early
<1>12. Owned
  BY <1>5, <1>6, <1>7, <1>8 DEF Owned, Owns, Operating, Dispatched, Reconnecting, Ways
<1>13. QED
  BY <1>6, <1>9, <1>10, <1>11, <1>12 DEF IInv

LEMMA HandlerInv ==
  ASSUME IInv, NEW c \in Conn, Serving(c)
  PROVE  IInv'
<1>1. UNCHANGED client
  BY DEF Serving
<1>2. CASE Accept(c) \/ ReadAccessory(c) \/ Prepare(c) \/ Unauthorized(c) \/ Dispatch(c)
  BY <1>1, <1>2, AcceptStep, ReadAccessoryStep, PrepareStep, UnauthorizedStep, DispatchStep
<1>3. CASE Completed(c) \/ Abandoned(c) \/ Readback(c) \/ Reread(c) \/ Reply(c)
  BY <1>1, <1>3, CompletedStep, AfterwardsStep, ReplyStep
<1>4. CASE Interrupt(c) \/ Crossed(c) \/ Stop(c) \/ Stopped(c)
  BY <1>1, <1>4, InterruptStep, CrossedStep, StopStep, StoppedStep
<1>5. QED
  BY <1>2, <1>3, <1>4 DEF Serving, Handler

LEMMA NextIInv == IInv /\ [Next]_vars => IInv'
<1> SUFFICES ASSUME IInv, [Next]_vars PROVE IInv'
  OBVIOUS
<1>1. CASE Daemon
  BY <1>1, ChangeContextStep, SubmitStep, BeginStep, GiveUpStep, GrantStep, AnswerStep DEF Daemon
<1>2. CASE \E c \in Conn : Serving(c)
  BY <1>2, HandlerInv
<1>3. CASE UserReconnects \/ Look \/ LookedAgain
  BY <1>3, UserReconnectsStep, LookStep, LookedAgainStep
<1>4. CASE \E by \in {"user", "recover"} : Reconnect(by)
  BY <1>4, ReconnectStep DEF Ways
<1>5. CASE PluginExits \/ CompanionRestarts
  BY <1>5, PluginExitsStep, CompanionRestartsStep
<1>6. CASE UNCHANGED vars
  BY <1>6 DEF vars, IInv, Typed, Waiting, Told, Asking, PendingOK, Owned, Owns, Reconnecting, Lane
<1>7. QED
  BY <1>1, <1>2, <1>3, <1>4, <1>5, <1>6 DEF Next

\* In every state the parts of IInv hold, whoever the client is and however the
\* companion's handlers, the panel and the plugin's host interleave.
THEOREM Invariance == Spec => []IInv
BY InitIInv, NextIInv, PTL DEF Spec

\* What the daemon says of an exchange is true of the plugin (worker.rs's and
\* homebridge_backend.rs's reading of what plugin_runtime.rs returns).
THEOREM VerdictsAreTrue == Spec => []VerdictsTrue
<1>1. IInv => VerdictsTrue
  BY DEF IInv, VerdictsTrue, Told, Good
<1>2. QED
  BY <1>1, Invariance, PTL

\* An exchange begins only for a job of the present context, none of whose turns
\* waited through an exchange that failed.
THEOREM InputsAreFresh == Spec => FreshInputs
<1> DEFINE Fact == client.pc = "begin" /\ client'.pc = "wait" => client.active.live /\ client.active.pure
<1>1. IInv /\ [Next]_vars => [Fact]_vars
  <2> SUFFICES ASSUME IInv, Next, client.pc = "begin", client'.pc = "wait"
               PROVE  client.active.live /\ client.active.pure
    BY DEF vars
  <2>1. client \in ClientType
    BY DEF IInv, Typed
  <2>2. CASE Daemon
    <3>1. ChangeContext \/ Submit => client'.pc = "begin"
      BY <2>1 DEF ChangeContext, Submit, ClientType
    <3>2. ASSUME NEW v, Verdict(v) PROVE FALSE
      <4>1. client'.pc \in {"idle", "begin"}
        BY <3>2, VerdictShape
      <4>2. QED
        BY <4>1
    <3>3. Begin
      BY <2>2, <3>1 DEF Daemon, GiveUp, Grant, Answer
    <3>4. client.active.live
      BY <3>2, <3>3 DEF Begin
    <3>5. QED
      BY <3>4 DEF IInv, Waiting
  <2>3. ~Daemon => UNCHANGED client
    BY DEF Next, Serving, UserReconnects, Look, LookedAgain, Reconnect, PluginExits, CompanionRestarts
  <2>4. QED
    BY <2>2, <2>3
<1>2. QED
  BY <1>1, Invariance, PTL DEF Spec, FreshInputs

-----------------------------------------------------------------------------
(* Recovery.                                                               *)

\* Whatever else a step does to the exchanges, `passed` is set by Dispatch alone.
SamePassed(cs) == \A d \in Conn : cs[d].passed = conn[d].passed

LEMMA MovedPassed ==
  ASSUME NEW cs \in [Conn -> Exchange], SamePassed(cs)
  PROVE  SamePassed(Moved(cs))
BY DEF SamePassed, Moved, Exchange

LEMMA PlacePassed ==
  ASSUME conn \in [Conn -> Exchange], NEW c \in Conn, NEW a \in Ats
  PROVE  /\ [conn EXCEPT ![c].at = a] \in [Conn -> Exchange] /\ SamePassed([conn EXCEPT ![c].at = a])
BY DEF SamePassed, Exchange

LEMMA OnePassed ==
  ASSUME conn \in [Conn -> Exchange], NEW c \in Conn, NEW y, y.passed = conn[c].passed
  PROVE  SamePassed([conn EXCEPT ![c] = y])
BY DEF SamePassed

LEMMA ReturnPassed ==
  ASSUME conn \in [Conn -> Exchange], NEW c \in Conn, NEW o \in {"failed", "needless", "confirmed"}
  PROVE  Return(c, o) \in [Conn -> Exchange] /\ SamePassed(Return(c, o)) /\ SamePassed(Moved(Return(c, o)))
<1> DEFINE x == conn[c]
           y == [x EXCEPT !.at = "returned", !.outcome = o, !.same = FALSE]
<1>1. x \in Exchange
  OBVIOUS
<1>2. Return(c, o) = [conn EXCEPT ![c] = y]
  BY DEF Return
<1> HIDE DEF x
<1>3. y \in Exchange /\ y.passed = conn[c].passed
  BY <1>1 DEF Exchange, Ats, x
<1> HIDE DEF y
<1>4. Return(c, o) \in [Conn -> Exchange] /\ SamePassed(Return(c, o))
  BY <1>2, <1>3, OnePassed
<1>5. QED
  BY <1>4, MovedPassed

LEMMA StopPassed ==
  ASSUME IInv, NEW cs \in [Conn -> Exchange], SamePassed(cs), StopHost(cs)
  PROVE  SamePassed(conn')
<1> DEFINE m == Moved(cs)
<1>1. SamePassed(m)
  BY MovedPassed
<1>2. m \in [Conn -> Exchange]
  BY DEF Moved, Exchange
<1>3. conn' = m \/ conn' = [m EXCEPT ![host.pending].at = "abandoned"]
  BY DEF StopHost
<1> HIDE DEF m
<1>4. ASSUME NEW d \in Conn PROVE conn'[d].passed = conn[d].passed
  <2>1. m[d] \in Exchange /\ m[d].passed = conn[d].passed
    BY <1>1, <1>2 DEF SamePassed
  <2>2. conn'[d] = m[d] \/ conn'[d] = [m[d] EXCEPT !.at = "abandoned"]
    BY <1>2, <1>3
  <2>3. QED
    BY <2>1, <2>2 DEF Exchange
<1>5. QED
  BY <1>4 DEF SamePassed

LEMMA EndedPassed ==
  ASSUME NEW x \in Exchange, NEW reply \in Replies
  PROVE  /\ Ended(x).passed = x.passed /\ Ended(Sent(x, reply)).passed = x.passed
         /\ [IF x.watched THEN x ELSE Sent(x, "ready") EXCEPT !.at = "ask"].passed = x.passed
<1>1. \A y \in Exchange : Ended(y).passed = y.passed /\ [y EXCEPT !.at = "ask"].passed = y.passed
  BY DEF Ended, Exchange
<1>2. /\ Sent(x, reply) \in Exchange /\ Sent(x, reply).passed = x.passed
      /\ Sent(x, "ready") \in Exchange /\ Sent(x, "ready").passed = x.passed
  BY SentFields DEF Replies
<1>3. QED
  BY <1>1, <1>2

LEMMA ConcludedPassed ==
  ASSUME conn \in [Conn -> Exchange], NEW c \in Conn, NEW v \in Verdicts
  PROVE  Concluded(c, v) \in [Conn -> Exchange] /\ SamePassed(Concluded(c, v))
<1> DEFINE z == [conn[c] EXCEPT !.verdict = v, !.left = TRUE, !.down = <<>>]
<1>1. <<>> \in Seq(Replies)
  OBVIOUS
<1>2. z \in Exchange /\ z.passed = conn[c].passed
  BY <1>1 DEF Exchange, Verdicts
<1>3. Concluded(c, v) = [conn EXCEPT ![c] = z]
  BY DEF Concluded
<1> HIDE DEF z
<1>4. QED
  BY <1>2, <1>3, OnePassed

LEMMA OnlyDispatchPasses ==
  ASSUME IInv, NEW c \in Conn, Serving(c), ~Dispatch(c)
  PROVE  SamePassed(conn')
<1>0. conn \in [Conn -> Exchange] /\ conn[c] \in Exchange
  BY Facts
<1>1. \A o \in {"failed", "needless", "confirmed"} :
        SamePassed(Return(c, o)) /\ SamePassed(Moved(Return(c, o)))
  BY <1>0, ReturnPassed
<1>2. /\ \A a \in Ats : [conn EXCEPT ![c].at = a] \in [Conn -> Exchange] /\ SamePassed([conn EXCEPT ![c].at = a])
      /\ {"read", "prepare", "readback", "reread", "stopping", "stopped"} \subseteq Ats
  BY <1>0, PlacePassed DEF Ats
<1>3. CASE Fail(c) \/ FailDispatched(c)
  BY <1>1, <1>3 DEF Fail, FailDispatched
<1>4. CASE Accept(c)
  <2>1. SamePassed([conn EXCEPT ![c] = Ended(Sent(conn[c], "fail"))])
    BY <1>0, EndedPassed, OnePassed DEF Replies
  <2>2. QED
    BY <1>2, <1>4, <2>1 DEF Accept
<1>5. CASE ReadAccessory(c) \/ Unauthorized(c)
  BY <1>1, <1>2, <1>3, <1>5 DEF ReadAccessory, Unauthorized
<1>6. CASE Prepare(c)
  <2> DEFINE y == [IF conn[c].watched THEN conn[c] ELSE Sent(conn[c], "ready") EXCEPT !.at = "ask"]
  <2>1. y.passed = conn[c].passed
    BY <1>0, EndedPassed DEF Replies
  <2>2. Fail(c) \/ conn' = [conn EXCEPT ![c] = y]
    BY <1>6 DEF Prepare
  <2> HIDE DEF y
  <2>3. QED
    BY <1>0, <1>3, <2>1, <2>2, OnePassed
<1>7. CASE Completed(c)
  BY <1>1, <1>2, <1>3, <1>7 DEF Completed
<1>8. CASE Abandoned(c) \/ Readback(c) \/ Reread(c)
  BY <1>1, <1>3, <1>8 DEF Abandoned, Readback, Reread
<1>9. CASE Reply(c)
  <2> DEFINE success == conn[c].outcome \in {"confirmed", "needless"} /\ ~panel.manual
             reply == IF ~success THEN "fail" ELSE IF conn[c].watched THEN "ok" ELSE "needless"
  <2>1. reply \in Replies /\ conn' = [conn EXCEPT ![c] = Ended(Sent(conn[c], reply))]
    BY <1>9 DEF Reply, Replies
  <2> HIDE DEF reply
  <2>2. QED
    BY <1>0, <2>1, EndedPassed, OnePassed
<1>10. CASE Interrupt(c) \/ Crossed(c)
  <2>1. "stopping" \in Ats
    BY DEF Ats
  <2>2. SamePassed(Moved([conn EXCEPT ![c].at = "stopping"]))
    BY <1>2, <2>1, MovedPassed
  <2>3. QED
    BY <1>2, <1>10, <2>1, <2>2 DEF Interrupt, Crossed
<1>11. CASE Stop(c)
  <2>1. "stopped" \in Ats
    BY DEF Ats
  <2>2. QED
    BY <1>2, <1>11, <2>1, StopPassed DEF Stop
<1>12. CASE Stopped(c)
  <2>1. Ended(conn[c]).passed = conn[c].passed
    BY <1>0, EndedPassed DEF Replies
  <2>2. QED
    BY <1>0, <1>12, <2>1, OnePassed DEF Stopped
<1>13. QED
  BY <1>4, <1>5, <1>6, <1>7, <1>8, <1>9, <1>10, <1>11, <1>12 DEF Serving, Handler

LEMMA DaemonPassed ==
  ASSUME IInv, Daemon, NEW d \in Conn, conn'[d].passed
  PROVE  conn[d].passed
<1>0. conn \in [Conn -> Exchange] /\ conn[d] \in Exchange
  BY Facts
<1>1. ASSUME NEW c \in Conn, NEW v \in Verdicts
      PROVE  Concluded(c, v) \in [Conn -> Exchange] /\ Concluded(c, v)[d].passed = conn[d].passed
  BY <1>0, ConcludedPassed DEF SamePassed
<1>2. CASE ChangeContext \/ Submit
  BY <1>2 DEF ChangeContext, Submit
<1>3. CASE Begin
  <2>1. CASE UNCHANGED conn
    BY <2>1
  <2>2. CASE \E c \in Conn :
               conn' = [e \in Conn |-> IF e = c THEN [Opened EXCEPT !.watched = ~Lane]
                                       ELSE IF conn[e].at = "done" THEN Closed ELSE conn[e]]
    <3>1. ~[Opened EXCEPT !.watched = ~Lane].passed /\ ~Closed.passed
      BY DEF Opened, Closed
    <3>2. QED
      BY <2>2, <3>1
  <2>3. QED
    BY <1>3, <2>1, <2>2 DEF Begin
<1>4. CASE GiveUp \/ Answer
  <2>1. client.on \in Conn
    BY <1>4 DEF IInv, Asking, GiveUp, Answer
  <2>2. \E v \in Verdicts : conn' = Concluded(client.on, v)
    BY <1>4 DEF GiveUp, Answer, Interrupted, Verdicts
  <2>3. QED
    BY <1>1, <2>1, <2>2
<1>5. CASE Grant
  <2>1. client.on \in Conn
    BY <1>5 DEF IInv, Asking, Grant
  <2> DEFINE cs == Concluded(client.on, "never")
  <2>2. cs \in [Conn -> Exchange] /\ cs[d].passed = conn[d].passed
    BY <1>1, <2>1 DEF Verdicts
  <2> HIDE DEF cs
  <2>3. [cs EXCEPT ![client.on].decision = "abort"][d].passed = conn[d].passed
    BY <2>1, <2>2 DEF Exchange
  <2>4. [conn EXCEPT ![client.on].decision = "apply",
                     ![client.on].down = Tail(conn[client.on].down)][d].passed = conn[d].passed
    BY <1>0, <2>1, Facts DEF Exchange
  <2>5. QED
    BY <1>1, <1>5, <2>1, <2>3, <2>4 DEF Grant, Verdicts, cs
<1>6. QED
  BY <1>2, <1>3, <1>4, <1>5 DEF Daemon

\* The plugin is passed no command while it is not known what became of another:
\* the operation that asks holds the panel (panel.busy and manual_recovery in
\* live_panel.py), and none does until the user has reconnected.
THEOREM RecoveryIsExplicit == Spec => ExplicitRecovery
<1> DEFINE Fact == \A c \in Conn : ~conn[c].passed /\ conn'[c].passed => doubt # "open"
<1>1. IInv /\ [Next]_vars => [Fact]_vars
  <2> SUFFICES ASSUME IInv, Next, NEW d \in Conn, ~conn[d].passed, conn'[d].passed, doubt = "open"
               PROVE  FALSE
    BY DEF vars
  <2>1. conn \in [Conn -> Exchange]
    BY Facts
  <2>2. ~SamePassed(conn')
    BY DEF SamePassed
  <2>3. CASE Daemon
    BY <2>3, DaemonPassed
  <2>4. CASE \E c \in Conn : Serving(c)
    <3>1. PICK c \in Conn : Serving(c)
      BY <2>4
    <3>2. Dispatch(c)
      BY <2>2, <3>1, OnlyDispatchPasses
    <3>3. Owns(c)
      BY <3>2 DEF Dispatch, Owns, Operating
    <3>4. QED
      BY <3>3 DEF IInv, Owned
  <2>5. CASE UNCHANGED conn
    BY <2>5
  <2>6. SamePassed(conn)
    BY DEF SamePassed
  <2>7. CASE UserReconnects \/ Look \/ LookedAgain
    <3>1. StopHost(conn)
      BY <2>5, <2>7 DEF UserReconnects, Look, LookedAgain, Decide, Reconnects
    <3>2. QED
      BY <2>1, <2>2, <2>6, <3>1, StopPassed
  <2>8. CASE \E by \in {"user", "recover"} : Reconnect(by)
    <3>1. conn' = Moved(conn)
      BY <2>5, <2>8 DEF Reconnect
    <3>2. QED
      BY <2>1, <2>2, <2>6, <3>1, MovedPassed
  <2>9. CASE PluginExits
    BY <2>5, <2>9 DEF PluginExits
  <2>10. CASE CompanionRestarts
    BY <2>1, <2>10, EndedPassed DEF CompanionRestarts, Replies
  <2>11. QED
    BY <2>3, <2>4, <2>7, <2>8, <2>9, <2>10 DEF Next
<1>2. QED
  BY <1>1, Invariance, PTL DEF Spec, ExplicitRecovery
=============================================================================
