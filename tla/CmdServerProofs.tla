-------------------------- MODULE CmdServerProofs ---------------------------
(***************************************************************************)
(* Proofs about the management channel, for any number of connections, any *)
(* set of requests and any bounds: connections are closed, the log level   *)
(* follows its flag, and reports of the counters only grow.                *)
(***************************************************************************)
EXTENDS CmdServer, TLAPS

-----------------------------------------------------------------------------
(***************************************************************************)
(* Connections.  Why no cancellation strikes while one is held: from       *)
(* accept() to close() the cancel state is DISABLE.                        *)
(***************************************************************************)
Held ==
    /\ cancelable \in BOOLEAN
    /\ pc \in Busy => ~cancelable /\ \E c : accepted = {c}
    /\ pc \notin Busy => accepted = {}

LEMMA HeldInit == Init => Held
BY DEF Init, Held, Busy

LEMMA HeldStep == Held /\ [Next]_vars => Held'
<1> SUFFICES ASSUME Held, [Next]_vars PROVE Held'
    OBVIOUS
<1>1. CASE Listen
  BY <1>1 DEF Listen, Held, Busy, sockVars, threadVars
<1>2. CASE Loop
  BY <1>2 DEF Loop, Held, Busy, sockVars
<1>3. CASE Accept
  BY <1>3 DEF Accept, Held, Busy
<1>4. CASE AcceptFails \/ Wake
  BY <1>4 DEF AcceptFails, Wake, Held, Busy, sockVars
<1>5. CASE RecvDone
  BY <1>5 DEF RecvDone, Held, Busy, sockVars
<1>6. CASE RecvFails \/ Reply
  BY <1>6 DEF RecvFails, Reply, Close, Held, Busy
<1>7. CASE Dispatch
  <2>1. pc = "dispatch" /\ pc' \in {"reply", "level", "load"}
    BY <1>7 DEF Dispatch, cmd_set_islogptk, cmd_set_isdebug, cmd_get_reass_stats,
                Answer
  <2>2. UNCHANGED <<cancelable, accepted>>
    BY <1>7 DEF Dispatch, sockVars
  <2> QED BY <2>1, <2>2 DEF Held, Busy
<1>8. CASE SetLevel \/ LoadStat
  <2>1. pc \in Busy /\ pc' \in Busy
    BY <1>8 DEF SetLevel, LoadStat, Busy
  <2>2. UNCHANGED <<cancelable, accepted>>
    BY <1>8 DEF SetLevel, LoadStat, sockVars
  <2> QED BY <2>1, <2>2 DEF Held
<1>9. CASE CloseListener
  BY <1>9 DEF CloseListener, Held, Busy, sockVars
<1>10. CASE Cancelled
  BY <1>10 DEF Cancelled, Held, Busy, sockVars
<1>11. CASE cmd_server_stop \/ cmd_reass_stats_add
  <2>1. UNCHANGED <<pc, cancelable, accepted>>
    BY <1>11 DEF cmd_server_stop, StopFlag, StopCancel, StopJoin,
                 cmd_reass_stats_add, sockVars
  <2> QED BY <2>1 DEF Held, Busy
<1>12. CASE Connect \/ Send \/ Leave
  <2>1. UNCHANGED <<pc, cancelable, accepted>>
    BY <1>12 DEF Connect, Send, Leave
  <2> QED BY <2>1 DEF Held, Busy
<1>13. CASE UNCHANGED vars
  BY <1>13 DEF vars, sockVars, Held, Busy
<1> QED BY <1>1, <1>2, <1>3, <1>4, <1>5, <1>6, <1>7, <1>8, <1>9, <1>10, <1>11,
           <1>12, <1>13 DEF Next, cmd_server_worker, Proceed

-----------------------------------------------------------------------------
(***************************************************************************)
(* The flag and the level.                                                 *)
(***************************************************************************)
Followed == isdebug \in BOOLEAN /\ LevelFollowsFlag

LEMMA FollowedStep == Followed /\ [Next]_vars => Followed'
<1> SUFFICES ASSUME Followed, [Next]_vars PROVE Followed'
    OBVIOUS
<1>1. CASE Dispatch
  <2>1. pc = "dispatch" /\ level' = level
    BY <1>1 DEF Dispatch
  <2>2. \/ isdebug' = isdebug
        \/ isdebug' = ~isdebug /\ pc' = "level"
    BY <1>1 DEF Dispatch, cmd_set_islogptk, cmd_set_isdebug, cmd_get_reass_stats,
                Answer
  <2> QED BY <2>1, <2>2 DEF Followed, LevelFollowsFlag
<1>2. CASE SetLevel
  <2>1. isdebug' = isdebug /\ level' = IF isdebug THEN "TRACE" ELSE "INFO"
    BY <1>2 DEF SetLevel
  <2> QED BY <2>1 DEF Followed, LevelFollowsFlag
<1>3. CASE ~Dispatch /\ ~SetLevel
  <2>1. \/ UNCHANGED <<isdebug, level>> /\ pc # "level"
        \/ UNCHANGED <<isdebug, level, pc>>
    BY <1>3 DEF Next, cmd_server_worker, Proceed, Listen, Loop, Accept, AcceptFails,
                Wake, RecvDone, RecvFails, Reply, LoadStat, CloseListener, Cancelled,
                cmd_server_stop, StopFlag, StopCancel, StopJoin,
                cmd_reass_stats_add, Connect, Send, Leave, vars, engineVars
  <2> QED BY <2>1 DEF Followed, LevelFollowsFlag
<1> QED BY <1>1, <1>2, <1>3

(***************************************************************************)
(* Whenever SET debug of cmdengine.c is not between its two stores, the    *)
(* log level is the one that the flag claims.                              *)
(***************************************************************************)
THEOREM LevelFollows == Spec => []LevelFollowsFlag
<1>1. Init => Followed
  BY DEF Init, Followed, LevelFollowsFlag
<1>2. Followed => LevelFollowsFlag
  BY DEF Followed
<1> QED BY <1>1, <1>2, FollowedStep, PTL DEF Spec

-----------------------------------------------------------------------------
(***************************************************************************)
(* The counters.  A report under construction lies between the last one    *)
(* and the counters: they only grow, and each is loaded after the report   *)
(* before it was complete.                                                 *)
(***************************************************************************)
Counted ==
    /\ stats \in [1 .. 3 -> Nat] /\ last \in [1 .. 3 -> Nat]
    /\ report \in Seq(Nat) /\ Len(report) <= 3
    /\ pc = "load" => Len(report) <= 2
    /\ \A i \in 1 .. 3 : last[i] <= stats[i]
    /\ \A i \in 1 .. Len(report) : last[i] <= report[i] /\ report[i] <= stats[i]

LEMMA CountedInit == Init => Counted
BY DEF Init, Counted

Grows == \A i \in 1 .. 3 : last[i] <= last'[i]

LEMMA CountedStep == Counted /\ [Next]_vars => Counted' /\ Grows
<1> SUFFICES ASSUME Counted, [Next]_vars PROVE Counted' /\ Grows
    OBVIOUS
<1>0. /\ Len(report) \in 0 .. 3
      /\ \A i \in 1 .. Len(report) : i \in 1 .. 3 /\ report[i] \in Nat
      /\ \A i \in 1 .. 3 : stats[i] \in Nat /\ last[i] \in Nat
  <2>1. report \in [1 .. Len(report) -> Nat] /\ Len(report) \in Nat
    BY DEF Counted
  <2>2. \A i \in 1 .. Len(report) : report[i] \in Nat
    BY ONLY <2>1
  <2>3. Len(report) <= 3 /\ stats \in [1 .. 3 -> Nat] /\ last \in [1 .. 3 -> Nat]
    BY DEF Counted
  <2>4. \A i \in 1 .. Len(report) : i \in 1 .. 3
    BY ONLY <2>1, <2>3
  <2>5. \A i \in 1 .. 3 : stats[i] \in Nat /\ last[i] \in Nat
    BY ONLY <2>3
  <2>6. Len(report) \in 0 .. 3
    <3>1. \A n \in Nat : n <= 3 => n \in 0 .. 3
      OBVIOUS
    <3> QED BY ONLY <2>1, <2>3, <3>1, Zenon
  <2> QED BY ONLY <2>2, <2>4, <2>5, <2>6
<1>1. CASE LoadStat
  <2> DEFINE n == Len(report) + 1
  <2>1. /\ pc = "load" /\ n \in 1 .. 3 /\ stats' = stats
        /\ report' = Append(report, stats[n])
        /\ last' = IF n = 3 THEN report' ELSE last
        /\ pc' = IF n = 3 THEN "reply" ELSE "load"
    BY <1>1 DEF LoadStat, Counted
  <2> HIDE DEF n
  <2>2. /\ stats[n] \in Nat /\ report' \in Seq(Nat) /\ Len(report') = n
        /\ report'[n] = stats[n]
        /\ \A i \in 1 .. n : i # n => i \in 1 .. Len(report) /\ report'[i] = report[i]
    BY <1>0, <2>1, SMTT(30) DEF Counted, n
  <2>a. \A i \in 1 .. n : /\ report'[i] \in Nat
                         /\ last[i] <= report'[i] /\ report'[i] <= stats[i]
    <3> TAKE i \in 1 .. n
    <3>1. CASE i = n
      BY <1>0, <2>1, <2>2, <3>1, SMTT(30) DEF Counted
    <3>2. CASE i # n
      BY <1>0, <2>2, <3>2 DEF Counted
    <3> QED BY <3>1, <3>2
  <2>3. CASE n = 3
    <3>1. last' = report' /\ pc' = "reply" /\ stats' = stats
      BY <2>1, <2>3
    <3>2. last' \in [1 .. 3 -> Nat] /\ Len(report') = 3
      <4>1. report' \in [1 .. Len(report') -> Nat]
        BY <2>2
      <4> QED BY <2>2, <2>3, <3>1, <4>1
    <3>3. \A i \in 1 .. 3 : /\ report'[i] \in Nat
                           /\ last[i] <= report'[i] /\ report'[i] <= stats[i]
      BY <2>a, <2>3
    <3>4. \A i \in 1 .. 3 : last'[i] <= report'[i] /\ report'[i] <= stats'[i]
      BY ONLY <3>1, <3>3
    <3> QED BY ONLY <2>2, <3>1, <3>2, <3>3, <3>4, Counted DEF Counted, Grows
  <2>4. CASE n # 3
    <3>1. last' = last /\ n <= 2 /\ \A i \in 1 .. 3 : last[i] <= last[i]
      BY ONLY <1>0, <2>1, <2>4
    <3> QED BY ONLY <2>1, <2>2, <2>a, <3>1, Counted, SMTT(30) DEF Counted, Grows
  <2> QED BY <2>3, <2>4
<1>2. CASE Dispatch
  <2>1. UNCHANGED <<stats, last>>
    BY <1>2 DEF Dispatch
  <2>2. PICK c \in accepted :
            \/ cmd_set_islogptk(req[c].argv) \/ cmd_set_isdebug(req[c].argv)
            \/ cmd_get_reass_stats(req[c].argv) \/ Answer
    BY <1>2 DEF Dispatch
  <2>3. \/ report' = <<>>
        \/ report' = report /\ pc' \in {"reply", "level"}
    BY <2>2 DEF cmd_set_islogptk, cmd_set_isdebug, cmd_get_reass_stats, Answer
  <2>4. CASE report' = <<>>
    BY <1>0, <2>1, <2>4 DEF Counted, Grows
  <2>5. CASE report' = report /\ pc' \in {"reply", "level"}
    BY <1>0, <2>1, <2>5 DEF Counted, Grows
  <2> QED BY <2>3, <2>4, <2>5
<1>3. CASE Reply
  BY <1>0, <1>3 DEF Reply, Counted, Grows
<1>4. CASE cmd_reass_stats_add
  <2>1. PICK i \in 1 .. 3 : stats' = [stats EXCEPT ![i] = @ + 1]
    BY <1>4 DEF cmd_reass_stats_add
  <2>2. UNCHANGED <<pc, report, last>>
    BY <1>4 DEF cmd_reass_stats_add
  <2>3. stats \in [1 .. 3 -> Nat]
    BY DEF Counted
  <2>4. /\ stats' \in [1 .. 3 -> Nat]
        /\ \A j \in 1 .. 3 : stats'[j] = IF j = i THEN stats[j] + 1 ELSE stats[j]
    BY ONLY <2>1, <2>3
  <2>5. \A j \in 1 .. 3 : stats'[j] \in Nat /\ stats[j] <= stats'[j]
    BY ONLY <1>0, <2>4
  <2>6. \A j \in 1 .. 3 : last[j] <= stats'[j]
    <3>1. \A j \in 1 .. 3 : last[j] <= stats[j]
      BY DEF Counted
    <3> TAKE j \in 1 .. 3
    <3>2. last[j] \in Nat /\ stats[j] \in Nat /\ stats'[j] \in Nat
      BY ONLY <1>0, <2>5
    <3> QED BY ONLY <2>5, <3>1, <3>2
  <2>7. \A j \in 1 .. Len(report) : last[j] <= report[j] /\ report[j] <= stats'[j]
    <3>1. \A j \in 1 .. Len(report) : last[j] <= report[j] /\ report[j] <= stats[j]
      BY DEF Counted
    <3> TAKE j \in 1 .. Len(report)
    <3>2. j \in 1 .. 3 /\ report[j] \in Nat
      BY ONLY <1>0
    <3>3. stats[j] \in Nat /\ stats'[j] \in Nat /\ stats[j] <= stats'[j]
      BY ONLY <1>0, <2>5, <3>2
    <3> QED BY ONLY <3>1, <3>2, <3>3
  <2>8. \A j \in 1 .. 3 : last[j] <= last[j]
    BY ONLY <1>0
  <2> QED BY ONLY <2>2, <2>4, <2>6, <2>7, <2>8, Counted DEF Counted, Grows
<1>5. CASE ~LoadStat /\ ~Dispatch /\ ~Reply /\ ~cmd_reass_stats_add
  <2>1. UNCHANGED <<stats, report, last>> /\ (pc' = "load" => pc = "load")
    BY <1>5 DEF Next, cmd_server_worker, Proceed, Listen, Loop, Accept, AcceptFails,
                Wake, RecvDone, RecvFails, SetLevel, CloseListener, Cancelled,
                cmd_server_stop, StopFlag, StopCancel, StopJoin,
                Connect, Send, Leave, vars, statVars
  <2> QED BY <1>0, <2>1, SMTT(30) DEF Counted, Grows
<1> QED BY <1>1, <1>2, <1>3, <1>4, <1>5

(***************************************************************************)
(* GET pktstats, which loads the counters one by one while packets are     *)
(* counted, never reports more than was counted, nor less than before.     *)
(***************************************************************************)
THEOREM ReportsGrow == Spec => ReportsMonotone
<1>1. Counted => \A i \in 1 .. Len(report) : report[i] <= stats[i]
  BY DEF Counted
<1>2. Counted /\ [Next]_vars => [\A i \in 1 .. 3 : last[i] <= last'[i]]_last
  BY CountedStep DEF Grows
<1> QED BY <1>1, <1>2, CountedInit, CountedStep, PTL DEF Spec, ReportsMonotone

-----------------------------------------------------------------------------
\* Types; those of the counters follow from Counted.

LEMMA TypeStep == TypeOK /\ Counted' /\ [Next]_vars => TypeOK'
<1> SUFFICES ASSUME TypeOK, Counted', [Next]_vars PROVE TypeOK'
    OBVIOUS
<1>1. (stats \in [1 .. 3 -> Nat] /\ report \in Seq(Nat) /\ last \in [1 .. 3 -> Nat])'
  BY DEF Counted
<1>2. /\ running' \in BOOLEAN /\ started' \in BOOLEAN
      /\ cancel' \in BOOLEAN /\ main' \in {"serving", "flagged", "joining", "done"}
  <2>1. CASE cmd_server_stop
    BY <2>1 DEF TypeOK, cmd_server_stop, StopFlag, StopCancel, StopJoin
  <2>2. CASE UNCHANGED threadVars
    BY <2>2 DEF TypeOK, threadVars
  <2>3. cmd_server_worker \/ cmd_reass_stats_add \/ Connect \/ Send \/ Leave \/ UNCHANGED vars
            => UNCHANGED threadVars
    BY DEF cmd_server_worker, Proceed, Listen, Loop, Accept, AcceptFails, Wake, RecvDone,
           RecvFails, Dispatch, SetLevel, LoadStat, Reply, CloseListener, Cancelled,
           cmd_reass_stats_add, Connect, Send, Leave, vars
  <2> QED BY <2>1, <2>2, <2>3 DEF Next
<1>3. /\ cancelable' \in BOOLEAN /\ listening' \in BOOLEAN /\ failures' \in 0 .. MaxFailures
      /\ pc' \in Busy \cup {"start", "loop", "accept", "sleep", "closing", "exited"}
  <2>1. CASE Listen \/ Loop \/ Accept \/ Wake \/ RecvDone \/ RecvFails
    BY <2>1 DEF TypeOK, Busy, Listen, Loop, Accept, Wake, RecvDone, RecvFails
  <2>2. CASE SetLevel \/ LoadStat \/ Reply \/ CloseListener \/ Cancelled
    BY <2>2 DEF TypeOK, Busy, SetLevel, LoadStat, Reply, CloseListener, Cancelled
  <2>3. CASE AcceptFails
    BY <2>3, CmdAssumption DEF TypeOK, Busy, AcceptFails
  <2>4. CASE Dispatch
    <3>1. pc' \in {"reply", "level", "load"}
      BY <2>4 DEF Dispatch, cmd_set_islogptk, cmd_set_isdebug, cmd_get_reass_stats,
                  Answer
    <3>2. UNCHANGED <<cancelable, listening, failures>>
      BY <2>4 DEF Dispatch
    <3> QED BY <3>1, <3>2 DEF TypeOK, Busy
  <2>5. CASE cmd_server_stop \/ cmd_reass_stats_add \/ Connect \/ Send \/ Leave \/ UNCHANGED vars
    <3>1. UNCHANGED <<cancelable, listening, failures, pc>>
      BY <2>5 DEF cmd_server_stop, StopFlag, StopCancel, StopJoin, cmd_reass_stats_add,
                  Connect, Send, Leave, vars
    <3> QED BY <3>1 DEF TypeOK, Busy
  <2> QED BY <2>1, <2>2, <2>3, <2>4, <2>5 DEF Next, cmd_server_worker, Proceed
<1>4. /\ backlog' \in Seq(Conn) /\ Len(backlog') <= Backlog /\ accepted' \subseteq Conn
      /\ cl' \in [Conn -> {"open", "closed"}] /\ req' \in [Conn -> Request \cup {NoRequest}]
  <2>1. CASE Accept
    <3>1. backlog \in Seq(Conn) /\ backlog # <<>> /\ backlog' = Tail(backlog)
          /\ accepted' = accepted \cup {Head(backlog)} /\ UNCHANGED <<cl, req>>
      BY <2>1 DEF Accept, TypeOK
    <3>2. /\ Head(backlog) \in Conn /\ Tail(backlog) \in Seq(Conn)
          /\ Len(Tail(backlog)) = Len(backlog) - 1 /\ Len(backlog) \in Nat
      BY <3>1
    <3>3. Len(backlog) <= Backlog
      BY DEF TypeOK
    <3>4. Len(backlog') <= Backlog
      BY ONLY <3>1, <3>2, <3>3, CmdAssumption
    <3> QED BY <3>1, <3>2, <3>4 DEF TypeOK
  <2>2. CASE RecvFails \/ Reply
    BY <2>2 DEF RecvFails, Reply, Close, TypeOK
  <2>3. CASE Connect
    <3>1. PICK c \in Conn : /\ Len(backlog) < Backlog /\ cl' = [cl EXCEPT ![c] = "open"]
                            /\ backlog' = Append(backlog, c) /\ UNCHANGED <<accepted, req>>
      BY <2>3 DEF Connect
    <3>2. backlog \in Seq(Conn) /\ Len(backlog) \in Nat
      BY DEF TypeOK
    <3>3. backlog' \in Seq(Conn) /\ Len(backlog') = Len(backlog) + 1
      BY <3>1, <3>2
    <3>4. Len(backlog') <= Backlog
      BY ONLY <3>1, <3>2, <3>3, CmdAssumption
    <3> QED BY <3>1, <3>3, <3>4 DEF TypeOK
  <2>4. CASE Send \/ Leave
    BY <2>4 DEF Send, Leave, TypeOK
  <2>5. CASE UNCHANGED sockVars
    BY <2>5 DEF sockVars, TypeOK
  <2>6. \/ Accept \/ RecvFails \/ Reply \/ Connect \/ Send \/ Leave \/ UNCHANGED sockVars
    BY DEF Next, cmd_server_worker, Proceed, Listen, Loop, AcceptFails, Wake, RecvDone,
           Dispatch, SetLevel, LoadStat, CloseListener, Cancelled, cmd_reass_stats_add,
           cmd_server_stop, StopFlag, StopCancel, StopJoin, vars
  <2> QED BY <2>1, <2>2, <2>3, <2>4, <2>5, <2>6
<1>5. islogptk' \in BOOLEAN /\ isdebug' \in BOOLEAN /\ level' \in {"TRACE", "INFO"}
  <2>1. CASE Dispatch
    <3>1. PICK c \in accepted :
            \/ cmd_set_islogptk(req[c].argv) \/ cmd_set_isdebug(req[c].argv)
            \/ cmd_get_reass_stats(req[c].argv) \/ Answer
      BY <2>1 DEF Dispatch
    <3> DEFINE word == req[c].argv[3]
    <3>2. islogptk' \in {islogptk, (word \in On)} /\ isdebug' \in {isdebug, ~isdebug}
      BY <3>1, Zenon DEF cmd_set_islogptk, cmd_set_isdebug, cmd_get_reass_stats, Answer
    <3>3. (word \in On) \in BOOLEAN
      OBVIOUS
    <3>4. islogptk \in BOOLEAN /\ isdebug \in BOOLEAN /\ level \in {"TRACE", "INFO"}
      BY DEF TypeOK
    <3>5. level' = level
      BY <2>1 DEF Dispatch
    <3> HIDE DEF word
    <3> QED BY <3>2, <3>3, <3>4, <3>5, Zenon
  <2>2. CASE SetLevel
    BY <2>2 DEF SetLevel, TypeOK
  <2>3. CASE UNCHANGED engineVars
    BY <2>3, SMTT(30) DEF engineVars, TypeOK
  <2>4. Dispatch \/ SetLevel \/ UNCHANGED engineVars
    BY DEF Next, cmd_server_worker, Proceed, Listen, Loop, Accept, AcceptFails, Wake,
           RecvDone, RecvFails, LoadStat, Reply, CloseListener, Cancelled,
           cmd_reass_stats_add, cmd_server_stop, StopFlag, StopCancel, StopJoin,
           Connect, Send, Leave, vars
  <2> QED BY <2>1, <2>2, <2>3, <2>4
<1> QED BY <1>1, <1>2, <1>3, <1>4, <1>5 DEF TypeOK

(***************************************************************************)
(* The worker of cmd.c holds one connection while it serves it and none    *)
(* otherwise, whatever clients do and whenever it is cancelled.            *)
(***************************************************************************)
THEOREM ConnectionsClosed == Spec => []NothingHeld
<1>1. Held /\ TypeOK => NothingHeld
  BY DEF Held, NothingHeld, TypeOK
<1>2. Init => TypeOK
  <2> SUFFICES ASSUME Init PROVE TypeOK
      OBVIOUS
  <2>1. stats \in [1 .. 3 -> Nat] /\ report \in Seq(Nat) /\ last \in [1 .. 3 -> Nat]
    BY DEF Init
  <2>2. backlog \in Seq(Conn) /\ Len(backlog) <= Backlog /\ failures \in 0 .. MaxFailures
    BY CmdAssumption DEF Init
  <2>3. pc \in Busy \cup {"start", "loop", "accept", "sleep", "closing", "exited"}
    BY DEF Init, Busy
  <2>4. cl \in [Conn -> {"open", "closed"}] /\ req \in [Conn -> Request \cup {NoRequest}]
    BY DEF Init
  <2>5. /\ running \in BOOLEAN /\ started \in BOOLEAN /\ islogptk \in BOOLEAN
        /\ isdebug \in BOOLEAN /\ cancel \in BOOLEAN /\ cancelable \in BOOLEAN
        /\ listening \in BOOLEAN /\ accepted \subseteq Conn
        /\ level \in {"TRACE", "INFO"} /\ main \in {"serving", "flagged", "joining", "done"}
    BY DEF Init
  <2> QED BY <2>1, <2>2, <2>3, <2>4, <2>5 DEF TypeOK
<1>3. Counted /\ [Next]_vars => Counted'
  BY CountedStep
<1> QED BY <1>1, <1>2, <1>3, HeldInit, HeldStep, CountedInit, TypeStep, PTL DEF Spec

=============================================================================
