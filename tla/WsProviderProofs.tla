-------------------------- MODULE WsProviderProofs --------------------------
(***************************************************************************)
(* Proofs about WsProvider: for any requests, options and bounds only      *)
(* overlapping calls of connect() make a second connection, what waits on  *)
(* one was sent on it, and no request is stranded when attempts to connect *)
(* do not fail and no socket is replaced.                                  *)
(***************************************************************************)
EXTENDS WsProvider, TLAPS

\* A request is parked only while #recovering exists, and #recovering exists
\* only between two connections.
Waiting == /\ In("parked") # {} => recovering
           /\ recovering => ws # "open"

NoOrphans == ~orphaned => \A s \in Sockets : orphans[s] = 0

\* Without failed attempts and orphans no close event finds a deferred to
\* replace, and each deferred comes with a connection on its way, unless none
\* is to follow.
Kept == /\ In("stranded") = {}
        /\ recovering => /\ ws \in {"none", "connecting"}
                         /\ UnderWay > 0 \/ abandoned

IInv == /\ TypeOK
        /\ OneConnection
        /\ Transmitted
        /\ Waiting
        /\ NoOrphans
        /\ ~failed /\ ~orphaned => Kept

LEMMA Initially == Init => IInv
<1> SUFFICES ASSUME Init PROVE IInv
  OBVIOUS
<1>1. TypeOK
  BY DEF Init, TypeOK, Delays, Stages, Sockets
<1>2. OneConnection
  BY DEF Init, OneConnection, UnderWay, Delays, Sockets
<1>3. In("parked") = {} /\ In("stranded") = {}
  BY DEF Init, In
<1>4. ~recovering /\ ws # "open" /\ NoOrphans
  BY DEF Init, NoOrphans, Sockets
<1> QED
  BY <1>1, <1>2, <1>3, <1>4 DEF IInv, Transmitted, Waiting, Kept

\* Moving requests to a stage keeps the stages well typed.
LEMMA Moved ==
  ASSUME TypeOK, NEW stage \in Stages, NEW rs
  PROVE  /\ To(stage, rs) \in [Requests -> Stages]
         /\ \A r \in Requests :
              To(stage, rs)[r] = IF r \in rs THEN stage ELSE req[r]
  BY DEF To, TypeOK

\* What is counted, by what it is made of.
LEMMA Counting ==
  ASSUME TypeOK
  PROVE  /\ \A d \in Delays : timers[d] \in Nat
         /\ selecting \in Nat /\ overlaps \in Nat
         /\ \A s \in Sockets : orphans[s] \in Nat
         /\ UnderWay \in Nat
<1>1. \A d \in Delays : timers[d] \in Nat
  BY DEF TypeOK
<1>2. selecting \in Nat /\ overlaps \in Nat
  BY DEF TypeOK
<1>3. \A s \in Sockets : orphans[s] \in Nat
  BY DEF TypeOK
<1>4. (IF ws = "none" THEN 0 ELSE 1) \in Nat
  OBVIOUS
<1>5. UnderWay \in Nat
  BY <1>1, <1>2, <1>3, <1>4 DEF UnderWay, Delays, Sockets
<1> QED
  BY <1>1, <1>2, <1>3, <1>5

\* What a step of a request must show when the connection stays as it is.
LEMMA LinkStays ==
  ASSUME IInv, UNCHANGED <<options, link, history, bounds>>,
         req' \in [Requests -> Stages],
         handlers' \in SUBSET Requests, wire' \in SUBSET Requests,
         Transmitted',
         In("stranded")' = In("stranded"),
         In("parked")' # {} => recovering
  PROVE  IInv'
<1>1. TypeOK'
  BY DEF IInv, TypeOK, link, history, bounds
<1>2. OneConnection' /\ UnderWay' = UnderWay
  BY DEF IInv, OneConnection, UnderWay, link, history
<1>3. Waiting' /\ NoOrphans'
  BY DEF IInv, Waiting, NoOrphans, link, history
<1>4. ~failed' /\ ~orphaned' => Kept'
  BY <1>2 DEF IInv, Kept, link, history
<1> QED
  BY <1>1, <1>2, <1>3, <1>4 DEF IInv

\* What a step of the connection must show when the requests stay.
LEMMA RequestsStay ==
  ASSUME IInv, UNCHANGED requests, TypeOK', OneConnection', NoOrphans',
         ws' = "open" => ws = "open",
         recovering' = recovering,
         failed => failed', orphaned => orphaned',
         ~failed' /\ ~orphaned' => /\ UnderWay' > 0 \/ (abandoned' /\ abandoned)
                                      \/ (UnderWay = 0 /\ abandoned' = abandoned)
                                   /\ ws' = ws \/ ws' = "connecting"
  PROVE  IInv'
<1>1. In("parked")' = In("parked") /\ In("stranded")' = In("stranded")
  BY DEF requests, In
<1>2. Transmitted'
  BY <1>1 DEF IInv, Transmitted, requests, In
<1>3. Waiting'
  BY <1>1 DEF IInv, Waiting
<1>4. ~failed' /\ ~orphaned' => Kept'
  BY <1>1, Counting DEF IInv, Kept
<1> QED
  BY <1>2, <1>3, <1>4 DEF IInv

\* What a close event leaves: nothing parked was stranded by it, unless an
\* attempt failed or a socket was replaced; one thing less is under way.
LEMMA Closed ==
  ASSUME IInv, NEW socket \in Sockets, Lost(socket)
  PROVE  /\ ws' = "none" /\ orphans' \in [Sockets -> Nat] /\ wire' \in SUBSET Requests
         /\ failed' \in BOOLEAN /\ losses' \in Nat /\ NoOrphans'
         /\ \A n \in Nat : timers'["immediate"] + timers'["delayed"]
                              = timers["immediate"] + timers["delayed"] + n
                           => UnderWay' >= n /\ UnderWay' <= UnderWay - 1 + n
         /\ ~failed' /\ ~orphaned' => /\ ~failed /\ ~orphaned
                                      /\ In("parked") = {} /\ In("stranded") = {}
<1> USE DEF Sockets
<1>1. /\ ws' = "none" /\ losses' = losses + 1 /\ selecting' = selecting
      /\ failed' = (failed \/ socket = "connecting") /\ orphaned' = orphaned
      /\ wire' \in WireWithout(orphans')
      /\ \/ ws = socket /\ orphans' = orphans
         \/ orphans[socket] > 0 /\ orphans' = [orphans EXCEPT ![socket] = @ - 1]
  BY DEF Lost
<1>2. orphans' \in [Sockets -> Nat]
  BY <1>1 DEF IInv, TypeOK
<1>3. wire' \in SUBSET Requests
  BY <1>1 DEF WireWithout, IInv, TypeOK
<1>4. NoOrphans'
  BY <1>1 DEF IInv, NoOrphans, TypeOK
<1>5. ASSUME NEW n \in Nat,
             timers'["immediate"] + timers'["delayed"]
               = timers["immediate"] + timers["delayed"] + n
      PROVE  UnderWay' >= n /\ UnderWay' <= UnderWay - 1 + n
  <2>1. timers["immediate"] \in Nat /\ timers["delayed"] \in Nat /\ selecting \in Nat
    BY DEF IInv, TypeOK, Delays
  <2>2. CASE ws = socket /\ orphans' = orphans
    BY <1>1, <1>2, <1>5, <2>1, <2>2 DEF UnderWay
  <2>3. CASE orphans[socket] > 0 /\ orphans' = [orphans EXCEPT ![socket] = @ - 1]
    <3>1. orphans \in [Sockets -> Nat]
      BY DEF IInv, TypeOK
    <3>2. orphans'["connecting"] + orphans'["open"] + orphans'["closing"]
            = orphans["connecting"] + orphans["open"] + orphans["closing"] - 1
      BY <2>3, <3>1
    <3> QED
      BY <1>1, <1>2, <1>5, <2>1, <3>1, <3>2 DEF UnderWay
  <2> QED
    BY <1>1, <2>2, <2>3
<1>6. ASSUME ~failed', ~orphaned'
      PROVE  ~failed /\ ~orphaned /\ In("parked") = {} /\ In("stranded") = {}
  <2>1. ~failed /\ ~orphaned /\ socket # "connecting"
    BY <1>1, <1>6
  <2>2. ws = socket
    BY <1>1, <2>1 DEF IInv, NoOrphans, TypeOK
  <2>3. ~recovering
    BY <2>1, <2>2 DEF IInv, Kept
  <2> QED
    BY <2>1, <2>3 DEF IInv, Waiting, Kept
<1> QED
  BY <1>1, <1>2, <1>3, <1>4, <1>5, <1>6 DEF IInv, TypeOK

\* The close events that replace #recovering.
LEMMA ClosingKeeps ==
  ASSUME IInv, NEW d \in Delays, Closing(d),
         req' = To("stranded", In("parked")),
         NEW n \in {0, 1}, timers' \in [Delays -> Nat],
         timers'["immediate"] + timers'["delayed"]
            = timers["immediate"] + timers["delayed"] + n,
         recovering' \in BOOLEAN, ended' \in BOOLEAN, abandoned' \in BOOLEAN,
         recovering' => n = 1 \/ abandoned'
  PROVE  IInv'
<1>1. PICK socket \in Sockets : Lost(socket)
  BY DEF Closing
<1>2. /\ ws' = "none" /\ orphans' \in [Sockets -> Nat] /\ wire' \in SUBSET Requests
      /\ failed' \in BOOLEAN /\ losses' \in Nat /\ NoOrphans'
      /\ UnderWay' >= n /\ UnderWay' <= UnderWay - 1 + n
      /\ ~failed' /\ ~orphaned' => /\ ~failed /\ ~orphaned
                                   /\ In("parked") = {} /\ In("stranded") = {}
  BY <1>1, Closed
<1>3. req' \in [Requests -> Stages]
  BY Moved DEF IInv, Stages
<1>4. /\ status' = "disconnected" /\ ticking' = FALSE
      /\ UNCHANGED <<options, attempt, initialized, selecting, handlers, overlaps,
                     orphaned, connects>>
  BY <1>1 DEF Lost
<1>5. TypeOK'
  BY <1>2, <1>3, <1>4 DEF IInv, TypeOK, Sockets
<1>6. OneConnection'
  <2>1. UnderWay \in Nat /\ overlaps \in Nat
    BY Counting DEF IInv
  <2>2. UnderWay' \in Nat
    <3>1. /\ \A when \in Delays : timers'[when] \in Nat
          /\ selecting' \in Nat /\ \A s \in Sockets : orphans'[s] \in Nat
      BY <1>5 DEF TypeOK
    <3> QED
      BY <1>2, <3>1 DEF UnderWay, Delays, Sockets
  <2> QED
    BY <1>2, <1>4, <2>1, <2>2 DEF IInv, OneConnection
<1>7. In("parked")' = {}
  BY DEF In, To
<1>8. ~failed' /\ ~orphaned' => In("stranded")' = {}
  BY <1>2 DEF In, To
<1>9. ~failed' /\ ~orphaned' => Kept'
  BY <1>2, <1>5, <1>8 DEF Kept, TypeOK, UnderWay, Delays, Sockets
<1> QED
  BY <1>2, <1>5, <1>6, <1>7, <1>9 DEF IInv, Transmitted, Waiting

\* A socket that opens, whichever it is.
LEMMA Opening ==
  ASSUME IInv, NEW socket \in Sockets \cup {"none"}, Opened, Repeated(socket),
         ws' \in Sockets \cup {"none"}, ws' = "open" => socket = "open",
         orphans' \in [Sockets -> Nat], NoOrphans', UnderWay' = UnderWay
  PROVE  IInv'
<1>1. /\ status' = "connected" /\ attempt' = 0 /\ recovering' = FALSE
      /\ initialized' \in BOOLEAN /\ ticking' \in BOOLEAN
      /\ UNCHANGED <<options, timers, selecting, history, bounds>>
  BY OptionsAssumption DEF Opened, IInv, TypeOK
<1>2. /\ req' \in [Requests -> Stages]
      /\ In("parked")' = {} /\ In("stranded")' = In("stranded")
  BY DEF Repeated, IInv, TypeOK, Stages, In
<1>3. /\ handlers' \in SUBSET Requests /\ wire' \in SUBSET Requests
      /\ socket = "open" => wire' = handlers'
  BY RetryableAssumption DEF Repeated, Resent, IInv, TypeOK, In
<1>4. TypeOK'
  BY <1>1, <1>2, <1>3 DEF IInv, TypeOK, history, bounds
<1>5. OneConnection'
  BY <1>1 DEF IInv, OneConnection, history
<1>6. Transmitted' /\ Waiting'
  BY <1>1, <1>2, <1>3 DEF Transmitted, Waiting
<1>7. ~failed' /\ ~orphaned' => Kept'
  BY <1>1, <1>2 DEF IInv, Kept, history
<1> QED
  BY <1>4, <1>5, <1>6, <1>7 DEF IInv

LEMMA Inductive == IInv /\ [Next]_vars => IInv'
<1> SUFFICES ASSUME IInv, [Next]_vars PROVE IInv'
  OBVIOUS
<1> USE MaxRetryAssumption, RetryableAssumption, OptionsAssumption
<1>1. CASE Connect
  <2>1. /\ ws' = "none" /\ ws = "none" /\ selecting' = selecting + 1 /\ orphans' = orphans
        /\ timers' = timers /\ overlaps' = IF UnderWay > 0 THEN overlaps + 1 ELSE overlaps
        /\ recovering' = recovering /\ failed' = failed /\ orphaned' = orphaned
        /\ UNCHANGED requests
    BY <1>1 DEF Connect
  <2>2. UnderWay' = UnderWay + 1
    BY <2>1 DEF IInv, TypeOK, UnderWay, Delays, Sockets
  <2>3. TypeOK'
    <3>1. overlaps' \in Nat /\ selecting' \in Nat
      BY <2>1, Counting DEF IInv
    <3>2. attempt' \in Nat /\ connects' \in Nat
      <4>1. attempt \in Nat /\ connects \in Nat
        BY DEF IInv, TypeOK
      <4>2. attempt' = attempt + 1 /\ connects' = connects + 1
        BY <1>1 DEF Connect
      <4> QED
        BY <4>1, <4>2
    <3>3. UNCHANGED <<options, ws, orphans, status, initialized, recovering, timers,
                      ticking, handlers, wire, req, failed, ended, orphaned, losses>>
      BY <1>1 DEF Connect, requests
    <3>4. abandoned' \in BOOLEAN
      BY <1>1 DEF Connect
    <3> QED
      BY <3>1, <3>2, <3>3, <3>4 DEF IInv, TypeOK
  <2>4. OneConnection'
    BY <2>1, <2>2, Counting DEF IInv, OneConnection
  <2>5. NoOrphans'
    BY <2>1 DEF IInv, NoOrphans
  <2>6. UnderWay' > 0
    BY <2>2, Counting DEF IInv
  <2> QED
    BY <2>1, <2>3, <2>4, <2>5, <2>6, RequestsStay
<1>2. ASSUME NEW d \in Delays, Fire(d) PROVE IInv'
  <2>1. /\ timers' = [timers EXCEPT ![d] = timers[d] - 1] /\ timers[d] > 0
        /\ IF ws = "none" THEN selecting' = selecting + 1 ELSE selecting' = selecting
        /\ UNCHANGED <<ws, orphans, recovering, requests, history>>
    BY <1>2 DEF Fire
  <2>2. TypeOK'
    BY <1>2 DEF Fire, IInv, TypeOK, requests, history, bounds, Delays
  <2>3. UnderWay' <= UnderWay /\ UnderWay' > 0
    <3>1. timers'["immediate"] + timers'["delayed"]
            = timers["immediate"] + timers["delayed"] - 1
      BY <2>1 DEF IInv, TypeOK, Delays
    <3>2. timers'["immediate"] + timers'["delayed"] \in Nat
      BY <2>2 DEF TypeOK, Delays
    <3> QED
      BY <2>1, <3>1, <3>2 DEF IInv, TypeOK, UnderWay, Delays, Sockets
  <2>4. OneConnection' /\ NoOrphans'
    <3>1. UnderWay \in Nat /\ UnderWay' \in Nat /\ overlaps' = overlaps /\ overlaps \in Nat
      BY <2>1, <2>2, Counting DEF IInv, TypeOK, UnderWay, Delays, Sockets, history
    <3> QED
      BY <2>1, <2>3, <3>1 DEF IInv, OneConnection, NoOrphans, history
  <2> QED
    BY <2>1, <2>2, <2>3, <2>4, RequestsStay DEF history
<1>3. ASSUME NEW d \in Delays, Lose(d) PROVE IInv'
  <2>1. /\ Closing(d) /\ req' = To("stranded", In("parked")) /\ recovering' = TRUE
        /\ timers' = [timers EXCEPT ![d] = timers[d] + 1]
        /\ ended' \in BOOLEAN /\ abandoned' \in BOOLEAN
    BY <1>3 DEF Lose, IInv, TypeOK
  <2>2. timers' \in [Delays -> Nat]
    BY <2>1 DEF IInv, TypeOK
  <2>3. timers'["immediate"] + timers'["delayed"]
          = timers["immediate"] + timers["delayed"] + 1
    BY <2>1 DEF IInv, TypeOK, Delays
  <2> QED
    BY <2>1, <2>2, <2>3, ClosingKeeps
<1>4. CASE Selected
  <2>1. /\ selecting > 0 /\ selecting' = selecting - 1 /\ ws' = "connecting"
        /\ UNCHANGED <<timers, recovering, failed, overlaps, abandoned, requests>>
        /\ IF ws = "none" THEN orphans' = orphans /\ orphaned' = orphaned
           ELSE orphans' = [orphans EXCEPT ![ws] = orphans[ws] + 1] /\ orphaned' = TRUE
    BY <1>4 DEF Selected
  <2>2. TypeOK'
    <3>1. orphans' \in [Sockets -> Nat] /\ orphaned' \in BOOLEAN
      <4>1. /\ orphans \in [Sockets -> Nat] /\ orphaned \in BOOLEAN
            /\ ws \in Sockets \cup {"none"}
        BY DEF IInv, TypeOK
      <4>2. CASE ws = "none"
        BY <2>1, <4>1, <4>2
      <4>3. CASE ws # "none"
        <5>1. ws \in Sockets /\ orphans[ws] + 1 \in Nat
          BY <4>1, <4>3
        <5>2. orphans' = [orphans EXCEPT ![ws] = orphans[ws] + 1] /\ orphaned' = TRUE
          BY <2>1, <4>3
        <5> QED
          BY <4>1, <5>1, <5>2
      <4> QED
        BY <4>2, <4>3
    <3>2. ticking' \in BOOLEAN
      BY <1>4 DEF Selected, IInv, TypeOK
    <3>3. selecting' \in Nat /\ ws' \in Sockets
      BY <2>1 DEF IInv, TypeOK, Sockets
    <3>4. UNCHANGED <<options, status, attempt, initialized, recovering, timers,
                      handlers, wire, req, failed, ended, abandoned, overlaps,
                      connects, losses>>
      BY <1>4 DEF Selected, requests, bounds
    <3> QED
      BY <3>1, <3>2, <3>3, <3>4 DEF IInv, TypeOK
  <2>3. UnderWay' = UnderWay
    <3>1. CASE ws = "none"
      BY <2>1, <3>1 DEF IInv, TypeOK, UnderWay, Delays, Sockets
    <3>2. CASE ws # "none"
      <4>1. ws \in Sockets
        BY <3>2 DEF IInv, TypeOK
      <4>2. orphans'["connecting"] + orphans'["open"] + orphans'["closing"]
              = orphans["connecting"] + orphans["open"] + orphans["closing"] + 1
        BY <2>1, <3>2, <4>1 DEF IInv, TypeOK, Sockets
      <4>3. \A s \in Sockets : orphans[s] \in Nat /\ orphans'[s] \in Nat
        BY <2>2, Counting DEF IInv, TypeOK
      <4> QED
        BY <2>1, <3>2, <4>2, <4>3 DEF IInv, TypeOK, UnderWay, Delays, Sockets
    <3> QED
      BY <3>1, <3>2
  <2>4. OneConnection' /\ NoOrphans'
    BY <2>1, <2>3 DEF IInv, OneConnection, NoOrphans
  <2>5. UnderWay > 0
    BY <2>1 DEF IInv, TypeOK, UnderWay, Delays, Sockets
  <2> QED
    BY <2>1, <2>2, <2>3, <2>4, <2>5, RequestsStay
<1>5. CASE NotSelected
  <2>1. TypeOK'
    BY <1>5 DEF NotSelected, IInv, TypeOK, requests, bounds, Delays
  <2>2. /\ failed' /\ selecting > 0 /\ selecting' = selecting - 1
        /\ \/ timers' = timers
           \/ timers' = [timers EXCEPT !["delayed"] = timers["delayed"] + 1]
        /\ UNCHANGED <<ws, orphans, recovering, overlaps, orphaned, requests>>
    BY <1>5 DEF NotSelected
  <2>3. UnderWay' <= UnderWay
    BY <2>2 DEF IInv, TypeOK, UnderWay, Delays, Sockets
  <2>4. OneConnection' /\ NoOrphans'
    <3>1. UnderWay \in Nat /\ UnderWay' \in Nat /\ overlaps \in Nat
      BY <2>1, Counting DEF IInv, TypeOK, UnderWay, Delays, Sockets
    <3> QED
      BY <2>2, <2>3, <3>1 DEF IInv, OneConnection, NoOrphans
  <2> QED
    BY <2>1, <2>2, <2>4, RequestsStay
<1>6. CASE Open
  <2>1. /\ ws = "connecting" /\ ws' = "open" /\ orphans' = orphans
        /\ Opened /\ Repeated("open")
    BY <1>6 DEF Open
  <2>2. orphans' \in [Sockets -> Nat] /\ NoOrphans'
    BY <2>1 DEF IInv, TypeOK, NoOrphans, Opened, history
  <2>3. UnderWay' = UnderWay
    BY <2>1 DEF UnderWay, Opened
  <2> QED
    BY <2>1, <2>2, <2>3, Opening DEF Sockets
<1>7. CASE OpenOrphan
  <2>1. /\ orphans["connecting"] > 0 /\ ws' = ws
        /\ orphans' = [orphans EXCEPT !["connecting"] = orphans["connecting"] - 1,
                                      !["open"] = orphans["open"] + 1]
        /\ Opened /\ Repeated(ws)
    BY <1>7 DEF OpenOrphan
  <2>2. orphans' \in [Sockets -> Nat] /\ ws \in Sockets \cup {"none"}
    BY <2>1 DEF IInv, TypeOK, Sockets
  <2>3. NoOrphans'
    BY <2>1 DEF IInv, TypeOK, NoOrphans, Opened, history, Sockets
  <2>4. UnderWay' = UnderWay
    <3>1. orphans'["connecting"] + orphans'["open"] + orphans'["closing"]
            = orphans["connecting"] + orphans["open"] + orphans["closing"]
      BY <2>1 DEF IInv, TypeOK, Sockets
    <3>2. timers' = timers /\ selecting' = selecting
      BY <2>1 DEF Opened
    <3>3. \A s \in Sockets : orphans[s] \in Nat /\ orphans'[s] \in Nat
      BY <2>2, Counting DEF IInv
    <3> QED
      BY <2>1, <3>1, <3>2, <3>3 DEF IInv, TypeOK, UnderWay, Delays, Sockets
  <2> QED
    BY <2>1, <2>2, <2>3, <2>4, Opening
<1>8. CASE CloseNormally
  <2>1. PICK socket \in {"open", "closing"} : Lost(socket)
    BY <1>8 DEF CloseNormally
  <2>2. ended' = TRUE /\ UNCHANGED <<recovering, timers, req, abandoned>>
    BY <1>8 DEF CloseNormally
  <2>3. timers'["immediate"] + timers'["delayed"]
          = timers["immediate"] + timers["delayed"] + 0
    BY <2>2 DEF IInv, TypeOK, Delays
  <2>4. /\ ws' = "none" /\ orphans' \in [Sockets -> Nat] /\ wire' \in SUBSET Requests
        /\ failed' \in BOOLEAN /\ losses' \in Nat /\ NoOrphans'
        /\ UnderWay' <= UnderWay - 1
        /\ ~failed' /\ ~orphaned' => /\ ~failed /\ ~orphaned
                                     /\ In("parked") = {} /\ In("stranded") = {}
    BY <2>1, <2>3, Closed, Counting DEF Sockets, IInv
  <2>5. /\ status' = "disconnected" /\ ticking' = FALSE
        /\ UNCHANGED <<options, attempt, initialized, selecting, handlers, overlaps,
                       orphaned, connects>>
    BY <2>1 DEF Lost
  <2>6. TypeOK'
    BY <2>2, <2>4, <2>5 DEF IInv, TypeOK
  <2>7. OneConnection'
    <3>1. UnderWay \in Nat /\ UnderWay' \in Nat /\ overlaps \in Nat
      BY <2>6, Counting DEF IInv, TypeOK, UnderWay, Delays, Sockets
    <3> QED
      BY <2>4, <2>5, <3>1 DEF IInv, OneConnection
  <2>8. In("parked")' = In("parked") /\ In("stranded")' = In("stranded")
    BY <2>2 DEF In
  <2>9. ~failed' /\ ~orphaned' => Kept'
    <3> SUFFICES ASSUME ~failed', ~orphaned' PROVE Kept'
      OBVIOUS
    <3>1. ~failed /\ socket # "connecting" /\ (ws = socket \/ orphans[socket] > 0)
      BY <2>1 DEF Lost
    <3>2. ws = socket
      BY <2>4, <3>1 DEF IInv, NoOrphans, TypeOK, Sockets
    <3>3. ~recovering
      BY <2>4, <3>1, <3>2 DEF IInv, Kept
    <3> QED
      BY <2>2, <2>4, <2>8, <3>3 DEF Kept
  <2> QED
    BY <2>2, <2>4, <2>6, <2>7, <2>8, <2>9 DEF IInv, Transmitted, Waiting
<1>9. CASE GiveUp
  <2>1. PICK d \in Delays : Closing(d)
    BY <1>9 DEF GiveUp
  <2>2. /\ req' = To("stranded", In("parked")) /\ recovering' = FALSE /\ ended' = TRUE
        /\ timers' = timers /\ abandoned' = abandoned
    BY <1>9 DEF GiveUp
  <2>3. /\ timers' \in [Delays -> Nat] /\ abandoned' \in BOOLEAN
        /\ timers'["immediate"] + timers'["delayed"]
             = timers["immediate"] + timers["delayed"] + 0
    BY <2>2 DEF IInv, TypeOK, Delays
  <2> QED
    BY <2>1, <2>2, <2>3, ClosingKeeps
<1>10. CASE Abandon
  <2>1. /\ Closing("delayed") /\ req' = To("stranded", In("parked"))
        /\ recovering' = TRUE /\ abandoned' = TRUE /\ timers' = timers /\ ended' = ended
    BY <1>10 DEF Abandon
  <2>2. /\ timers' \in [Delays -> Nat] /\ ended' \in BOOLEAN
        /\ timers'["immediate"] + timers'["delayed"]
             = timers["immediate"] + timers["delayed"] + 0
    BY <2>1 DEF IInv, TypeOK, Delays
  <2> QED
    BY <2>1, <2>2, ClosingKeeps DEF Delays
<1>11. CASE SwitchEndpoint
  <2>1. /\ ws \in {"connecting", "open"} /\ ws' = "closing"
        /\ failed' = (failed \/ ws = "connecting") /\ wire' \in WireWithout(orphans)
        /\ UNCHANGED <<orphans, recovering, timers, selecting, overlaps, orphaned, req,
                       handlers, abandoned>>
    BY <1>11 DEF SwitchEndpoint
  <2>2. wire' \in SUBSET Requests
    BY <2>1 DEF WireWithout, IInv, TypeOK
  <2>3. TypeOK'
    BY <1>11, <2>1, <2>2 DEF SwitchEndpoint, IInv, TypeOK, bounds, Sockets
  <2>4. UnderWay' = UnderWay
    BY <2>1 DEF UnderWay
  <2>5. OneConnection' /\ NoOrphans'
    BY <2>1, <2>4 DEF IInv, OneConnection, NoOrphans
  <2>6. ~failed' => ~recovering
    BY <2>1 DEF IInv, Waiting
  <2>7. In("parked")' = In("parked") /\ In("stranded")' = In("stranded")
    BY <2>1 DEF In
  <2>8. Transmitted' /\ Waiting'
    BY <2>1, <2>7 DEF IInv, Transmitted, Waiting
  <2>9. ~failed' /\ ~orphaned' => Kept'
    BY <2>1, <2>6, <2>7 DEF IInv, Kept
  <2> QED
    BY <2>3, <2>5, <2>8, <2>9 DEF IInv
<1>12. CASE Disconnect
  <2>1. /\ ws # "none" /\ ws' = "none" /\ wire' = {} /\ recovering' = FALSE
        /\ req' = To("refused", In("parked")) /\ handlers' = In("parked")
        /\ UNCHANGED <<orphans, timers, selecting, failed, overlaps, orphaned>>
    BY <1>12 DEF Disconnect
  <2>2. TypeOK'
    <3>1. req' \in [Requests -> Stages]
      BY <2>1, Moved DEF IInv, Stages
    <3>2. handlers' \in SUBSET Requests
      BY <2>1 DEF In
    <3> QED
      BY <1>12, <3>1, <3>2 DEF Disconnect, IInv, TypeOK, bounds
  <2>3. UnderWay' = UnderWay - 1
    BY <2>1 DEF IInv, TypeOK, UnderWay, Delays, Sockets
  <2>4. OneConnection' /\ NoOrphans'
    <3>1. UnderWay \in Nat /\ overlaps \in Nat
      BY Counting DEF IInv
    <3> QED
      BY <2>1, <2>3, <3>1 DEF IInv, OneConnection, NoOrphans
  <2>5. In("parked")' = {} /\ In("stranded")' = In("stranded")
    BY <2>1 DEF In, To
  <2> QED
    BY <2>1, <2>2, <2>4, <2>5 DEF IInv, Transmitted, Waiting, Kept
<1>13. ASSUME NEW r \in Requests, Park(r) PROVE IInv'
  <2>1. req' \in [Requests -> Stages]
    BY <1>13, Moved DEF Park, IInv, Stages
  <2>2. In("stranded")' = In("stranded") /\ In("sent")' = In("sent")
    BY <1>13 DEF Park, In, To
  <2>3. Transmitted'
    BY <1>13, <2>2 DEF Park, IInv, Transmitted, link
  <2> QED
    BY <1>13, <2>1, <2>2, <2>3, LinkStays DEF Park, IInv, TypeOK
<1>14. ASSUME NEW r \in Requests, Send(r) PROVE IInv'
  <2>1. req' \in [Requests -> Stages]
    BY <1>14, Moved DEF Send, IInv, Stages
  <2>2. /\ In("stranded")' = In("stranded") /\ In("parked")' = In("parked")
        /\ In("sent")' = In("sent") \cup {r}
    BY <1>14 DEF Send, In, To
  <2>3. Transmitted'
    BY <1>14, <2>2 DEF Send, IInv, Transmitted, link
  <2> QED
    BY <1>14, <2>1, <2>2, <2>3, LinkStays DEF Send, IInv, TypeOK, Waiting
<1>15. ASSUME NEW r \in Requests, Refuse(r) PROVE IInv'
  <2>1. req' \in [Requests -> Stages]
    BY <1>15, Moved DEF Refuse, IInv, Stages
  <2>2. /\ In("stranded")' = In("stranded") /\ In("parked")' = In("parked")
        /\ In("sent")' = In("sent") /\ r \notin In("sent")
    BY <1>15 DEF Refuse, In, To
  <2>3. Transmitted'
    BY <1>15, <2>2 DEF Refuse, IInv, Transmitted, link
  <2> QED
    BY <1>15, <2>1, <2>2, <2>3, LinkStays DEF Refuse, IInv, TypeOK, Waiting
<1>16. ASSUME NEW r \in Requests, Answer(r) \/ Expire(r) PROVE IInv'
  <2>1. PICK stage \in {"answered", "timedout"} : Settle(r, stage)
    BY <1>16 DEF Answer, Expire
  <2>2. wire' = wire \ {r} /\ UNCHANGED <<options, link, history, bounds>>
    BY <1>16 DEF Answer, Expire
  <2>3. req' \in [Requests -> Stages]
    BY <2>1, Moved DEF Settle, IInv, Stages, TypeOK
  <2>4. /\ In("stranded")' = In("stranded") /\ In("parked")' = In("parked")
        /\ In("sent")' \subseteq In("sent")
    BY <2>1 DEF Settle, In, To
  <2>5. Transmitted'
    BY <2>1, <2>2, <2>4 DEF Settle, IInv, Transmitted, link
  <2> QED
    BY <2>1, <2>2, <2>3, <2>4, <2>5, LinkStays DEF Settle, IInv, TypeOK, Waiting
<1>17. CASE UNCHANGED vars
  <2>1. UNCHANGED <<options, link, requests, history, bounds>>
    BY <1>17 DEF vars
  <2>2. \A stage \in Stages : In(stage)' = In(stage)
    BY <2>1 DEF requests, In
  <2> QED
    BY <2>1, <2>2, LinkStays DEF requests, IInv, TypeOK, Transmitted, Waiting,
                                 link, Stages
<1> QED
  BY <1>1, <1>2, <1>3, <1>4, <1>5, <1>6, <1>7, <1>8, <1>9, <1>10, <1>11,
     <1>12, <1>13, <1>14, <1>15, <1>16, <1>17 DEF Next

LEMMA Invariance == Spec => []IInv
  BY Initially, Inductive, PTL DEF Spec

\* The type invariant of the provider.
THEOREM TypeCorrect == Spec => []TypeOK
  BY Invariance, PTL DEF IInv

\* However closings, retries, switches and calls of disconnect() interleave,
\* the provider has at most one connection or attempt, and one more for each
\* connect() that was called before another attempt was over.
THEOREM OneConnectionAlways == Spec => []OneConnection
  BY Invariance, PTL DEF IInv

\* Every request a caller waits for was sent on a connection that is open.
THEOREM AlwaysTransmitted == Spec => []Transmitted
  BY Invariance, PTL DEF IInv

\* As long as attempts to connect succeed and no socket is replaced, every
\* queued request waits for the current deferred, and something is under way
\* that will resolve it, with retries or, until the next connect(), without.
THEOREM QueuedAlwaysProceed == Spec => []QueuedWillProceed
<1>1. IInv => QueuedWillProceed
  BY DEF IInv, Waiting, Kept, QueuedWillProceed
<1> QED
  BY <1>1, Invariance, PTL
=============================================================================
