--------------------------- MODULE IntegrationProofs ---------------------------
(***************************************************************************)
(* Proofs about where the program meets others: its MCP server, for any    *)
(* set of lines and number of providers; the files that commands write in  *)
(* place and share without locks, for every number of processes, however   *)
(* their reads and writes interleave and whenever they are killed, which   *)
(* are the configuration of MCP clients (McpConfig) and the key pairs and  *)
(* signed manifests (Signing); and the registry, refreshed from the trees  *)
(* and repositories that others edit (Sources).                            *)
(***************************************************************************)
EXTENDS McpServer, McpConfig, Signing, Sources, Induction, SequenceTheorems, TLAPS

-----------------------------------------------------------------------------
(* The MCP server.                                                          *)
(* What holds of the server's own progress: it waits and returns only after *)
(* the input has ended, and returns only with nothing in flight.            *)
MainInv == /\ main # "listening" => stdin = "closed"
           /\ main = "returned" => inflight = {}

(* The providers of one handler: those up to n ended, each that timed out   *)
(* may still run, one that never returns has timed out.                     *)
EndedUpTo(t, n) ==
    /\ Len(t.timeline) = n /\ n <= NumProviders
    /\ \A k \in 1..n : /\ k \in t.pending => t.timeline[k] = "timedOut"
                       /\ k \in Hanging => t.timeline[k] = "timedOut"

(* The next one runs if and only if the handler is collecting.              *)
Ordered(t) ==
    /\ EndedUpTo(t, Len(t.timeline))
    /\ t.pending \subseteq 1..(Len(t.timeline) + 1)
    /\ t.pc = "collecting" <=> Len(t.timeline) + 1 \in t.pending
    /\ t.pc \in {"unread", "reading"} => t.pending = {}

IInv == /\ ServerTypeOK /\ InFlight /\ OneAnswerEach /\ MainInv
        /\ \A n \in Messages : Ordered(handler[n])

(* Starting the next provider, when all before it ended, keeps a handler    *)
(* in order and unanswered.                                                 *)
LEMMA StartingIsTask ==
  ASSUME NEW t \in Handlers, NEW n \in Nat, EndedUpTo(t, n), t.pending \subseteq 1..n
  PROVE  /\ Starting(t) \in Handlers /\ Ordered(Starting(t))
         /\ Starting(t).pc \in {"collecting", "ranking"}
         /\ Starting(t).kind = t.kind /\ Starting(t).id = t.id
<1> DEFINE k == n + 1
<1>0. k = Len(t.timeline) + 1 /\ k \notin t.pending
  BY DEF EndedUpTo
<1>1. CASE k > NumProviders
  <2>1. Starting(t) = [t EXCEPT !.pc = "ranking"]
    BY <1>0, <1>1 DEF Starting
  <2> DEFINE u == Starting(t)
  <2>2. /\ u \in Handlers /\ u.pc = "ranking" /\ u.kind = t.kind /\ u.id = t.id
        /\ u.timeline = t.timeline /\ u.pending = t.pending
    BY <2>1 DEF Handlers
  <2> HIDE DEF u
  <2>3. Ordered(u)
    BY <1>0, <2>2 DEF Ordered, EndedUpTo
  <2> QED BY <2>2, <2>3 DEF u
<1>2. CASE ~(k > NumProviders)
  <2> DEFINE q == t.pending \cup {k}
             u == Starting(t)
  <2>1. u = [t EXCEPT !.pc = "collecting", !.pending = q]
    BY <1>0, <1>2 DEF Starting
  <2>2. q \in SUBSET (1..NumProviders)
    BY <1>2, ServerAssumption DEF Handlers
  <2>3. q \subseteq 1..k /\ k \in q /\ \A j \in 1..n : j \in q <=> j \in t.pending
    OBVIOUS
  <2> HIDE DEF q, u
  <2>4. /\ u \in Handlers /\ u.pc = "collecting" /\ u.kind = t.kind /\ u.id = t.id
        /\ u.timeline = t.timeline /\ u.pending = q
    BY <2>1, <2>2 DEF Handlers
  <2>5. Ordered(u)
    BY <1>0, <2>3, <2>4 DEF Ordered, EndedUpTo
  <2> QED BY <2>4, <2>5 DEF u
<1> QED BY <1>1, <1>2

(* So does recording how the current one ended.                             *)
LEMMA RecordedIsTask ==
  ASSUME NEW t \in Handlers, NEW n \in Nat, EndedUpTo(t, n), n < NumProviders,
         t.pending \subseteq 1..(n + 1), NEW result \in Results,
         result = "timedOut" \/ n + 1 \notin t.pending \cup Hanging
  PROVE  /\ Recorded(t, result) \in Handlers /\ Ordered(Recorded(t, result))
         /\ Recorded(t, result).pc \in {"collecting", "ranking"}
         /\ Recorded(t, result).kind = t.kind /\ Recorded(t, result).id = t.id
<1> DEFINE u == [t EXCEPT !.timeline = Append(@, result)]
<1>1. /\ u \in Handlers /\ u.kind = t.kind /\ u.id = t.id /\ u.pending = t.pending
      /\ u.timeline = Append(t.timeline, result)
  <2> DEFINE l == Append(t.timeline, result)
  <2>1. l \in Seq(Results)
    BY DEF Handlers
  <2> HIDE DEF l
  <2>2. u = [t EXCEPT !.timeline = l]
    BY DEF l
  <2>3. /\ u \in Handlers /\ u.kind = t.kind /\ u.id = t.id /\ u.pending = t.pending
        /\ u.timeline = l
    BY <2>1, <2>2 DEF Handlers
  <2> QED BY <2>3 DEF l
<1>2. Recorded(t, result) = Starting(u)
  BY DEF Recorded
<1> HIDE DEF u
<1>3. /\ t.timeline \in Seq(Results) /\ Len(t.timeline) = n
  BY DEF Handlers, EndedUpTo
<1>4. /\ Len(u.timeline) = n + 1 /\ u.timeline[n + 1] = result
      /\ \A j \in 1..n : u.timeline[j] = t.timeline[j]
  BY <1>1, <1>3
<1>5. EndedUpTo(u, n + 1)
  <2>1. n + 1 <= NumProviders
    BY ServerAssumption
  <2>2. \A j \in 1..(n + 1) : (j \in u.pending => u.timeline[j] = "timedOut")
                            /\ (j \in Hanging => u.timeline[j] = "timedOut")
    <3> TAKE j \in 1..(n + 1)
    <3>1. CASE j = n + 1
      BY <1>1, <1>4, <3>1
    <3>2. CASE j # n + 1
      <4>1. j \in 1..n
        BY <3>2
      <4> QED BY <1>1, <1>4, <4>1 DEF EndedUpTo
    <3> QED BY <3>1, <3>2
  <2> QED BY <1>4, <2>1, <2>2 DEF EndedUpTo
<1> QED BY <1>1, <1>2, <1>5, StartingIsTask

(* A step of a line's handler that only moves the handler on, among the     *)
(* labels before its answer, keeps everything.                              *)
LEMMA HandlerMoves ==
  ASSUME IInv, NEW n \in Messages, NEW t \in Handlers, Ordered(t),
         handler' = [handler EXCEPT ![n] = t],
         handler[n].pc # "unread" /\ t.pc # "unread",
         t.pc \in {"settling", "done"} <=> handler[n].pc \in {"settling", "done"},
         t.pc = "done" <=> handler[n].pc = "done",
         t.kind = handler[n].kind /\ t.id = handler[n].id,
         UNCHANGED <<stdin, inflight, answers, main, batch>>
  PROVE  IInv'
<1>1. ServerTypeOK'
  BY DEF IInv, ServerTypeOK
<1>2. \A m \in Messages : Finished(m)' = Finished(m)
  BY DEF IInv, ServerTypeOK, Finished
<1>3. \A m \in Messages : Replies(m)' = Replies(m)
  BY DEF IInv, ServerTypeOK, Replies
<1>4. InFlight'
  BY <1>2 DEF IInv, InFlight
<1>5. OneAnswerEach'
  <2>1. \A m \in Messages : handler'[m].pc \in {"settling", "done"}
                           <=> handler[m].pc \in {"settling", "done"}
    BY DEF IInv, ServerTypeOK
  <2> QED BY <1>3, <2>1 DEF IInv, OneAnswerEach
<1>6. MainInv'
  BY DEF IInv, MainInv
<1>7. \A m \in Messages : Ordered(handler'[m])
  BY DEF IInv, ServerTypeOK
<1> QED BY <1>1, <1>4, <1>5, <1>6, <1>7 DEF IInv

(* A handler that has not begun.                                            *)
LEMMA UnreadOrdered ==
  ASSUME NEW t \in Handlers, t.timeline = <<>>, t.pending = {}, t.pc # "collecting"
  PROVE  EndedUpTo(t, 0) /\ Ordered(t)
BY ServerAssumption DEF EndedUpTo, Ordered

LEMMA InitIInv == ServerInit => IInv
<1> SUFFICES ASSUME ServerInit PROVE IInv
  OBVIOUS
<1>1. Unread \in Handlers
  BY DEF Unread, Handlers, MessageKinds
<1>2. ServerTypeOK
  BY <1>1 DEF ServerInit, ServerTypeOK
<1>3. \A n \in Messages : handler[n].pc = "unread"
  BY DEF ServerInit, Unread
<1>4. Ordered(Unread)
  BY <1>1, UnreadOrdered DEF Unread
<1>5. \A n \in Messages : Ordered(handler[n])
  BY <1>4 DEF ServerInit
<1> QED BY <1>2, <1>3, <1>5 DEF ServerInit, IInv, InFlight, OneAnswerEach, MainInv, Finished

LEMMA LineIInv == ASSUME IInv, NEW n \in Messages, Line(n) PROVE IInv'
<1>1. PICK k \in MessageKinds, i \in BOOLEAN :
        LET at == CASE k \in {"blank", "garbage"} -> "done"
                    [] k = "route"                -> "reading"
                    [] OTHER                      -> "answering"
        IN /\ handler' = [handler EXCEPT ![n] = [Unread EXCEPT !.kind = k, !.id = i, !.pc = at]]
           /\ inflight' = IF at = "done" THEN inflight ELSE inflight \cup {n}
           /\ answers' = IF k = "garbage" THEN [answers EXCEPT ![n] = @ + 1] ELSE answers
  BY DEF Line
<1> DEFINE at == CASE k \in {"blank", "garbage"} -> "done"
                   [] k = "route"                -> "reading"
                   [] OTHER                      -> "answering"
           t == [Unread EXCEPT !.kind = k, !.id = i, !.pc = at]
<1>2. /\ at \in {"done", "reading", "answering"}
      /\ at = "done" <=> k \in {"blank", "garbage"}
  BY Zenon DEF MessageKinds
<1>3. /\ stdin = "open" /\ handler[n].pc = "unread"
      /\ UNCHANGED <<stdin, main, batch>>
  BY DEF Line
<1>4. /\ handler' = [handler EXCEPT ![n] = t]
      /\ inflight' = IF at = "done" THEN inflight ELSE inflight \cup {n}
      /\ answers' = IF k = "garbage" THEN [answers EXCEPT ![n] = @ + 1] ELSE answers
  BY <1>1
<1> HIDE DEF at
<1>5. t \in Handlers /\ t.pc = at /\ t.kind = k /\ t.id = i /\ Ordered(t)
  <2>1. Unread \in Handlers /\ Unread.timeline = <<>> /\ Unread.pending = {}
    BY DEF Unread, Handlers, MessageKinds
  <2>2. /\ t \in Handlers /\ t.pc = at /\ t.kind = k /\ t.id = i
        /\ t.timeline = <<>> /\ t.pending = {}
    BY <1>2, <2>1 DEF Handlers
  <2> HIDE DEF t
  <2> QED BY <1>2, <2>2, UnreadOrdered
<1> HIDE DEF t
<1>6. ServerTypeOK'
  BY <1>3, <1>4, <1>5 DEF IInv, ServerTypeOK
<1>7. handler'[n] = t /\ \A m \in Messages \ {n} : handler'[m] = handler[m]
  BY <1>4 DEF IInv, ServerTypeOK
<1>8. n \notin inflight /\ answers[n] = 0
  BY <1>3 DEF IInv, InFlight, OneAnswerEach, Finished
<1>9. InFlight'
  BY <1>2, <1>4, <1>5, <1>7, <1>8 DEF IInv, InFlight, Finished
<1>10. OneAnswerEach'
  <2>1. answers'[n] = IF k = "garbage" THEN 1 ELSE 0
    BY <1>4, <1>8 DEF IInv, ServerTypeOK
  <2>2. Replies(n)' <=> k \in {"garbage", "initialize"} \/ (k \in {"quick", "route"} /\ i)
    BY <1>5, <1>7 DEF Replies
  <2>3. \A m \in Messages \ {n} : answers'[m] = answers[m] /\ Replies(m)' = Replies(m)
    BY <1>4, <1>7 DEF IInv, ServerTypeOK, Replies
  <2>4. \A m \in Messages \ {n} :
          answers'[m] = IF handler'[m].pc \in {"settling", "done"} /\ Replies(m)' THEN 1 ELSE 0
    BY <1>7, <2>3 DEF IInv, OneAnswerEach
  <2>5. answers'[n] = IF handler'[n].pc \in {"settling", "done"} /\ Replies(n)' THEN 1 ELSE 0
    BY <1>2, <1>5, <1>7, <2>1, <2>2
  <2> QED BY <2>4, <2>5 DEF OneAnswerEach
<1>11. MainInv'
  BY <1>3 DEF IInv, MainInv
<1>12. \A m \in Messages : Ordered(handler'[m])
  BY <1>5, <1>7 DEF IInv
<1> QED BY <1>6, <1>9, <1>10, <1>11, <1>12 DEF IInv

(* Only the label changes: the providers stay in order.                     *)
LEMMA Relabelled ==
  ASSUME NEW t \in Handlers, Ordered(t), t.pc # "collecting",
         NEW label \in {"answering", "settling", "done"},
         NEW u, u = [t EXCEPT !.pc = label]
  PROVE  /\ u \in Handlers /\ Ordered(u) /\ u.pc = label
         /\ u.kind = t.kind /\ u.id = t.id
<1>1. /\ u \in Handlers /\ u.pc = label /\ u.kind = t.kind /\ u.id = t.id
      /\ u.timeline = t.timeline /\ u.pending = t.pending
  BY DEF Handlers
<1> QED BY <1>1 DEF Ordered, EndedUpTo

LEMMA ReadIInv == ASSUME IInv, NEW n \in Messages, Read(n) PROVE IInv'
<1>1. handler[n] \in Handlers /\ handler[n].pc = "reading" /\ Ordered(handler[n])
  BY DEF IInv, ServerTypeOK, Read
<1>2. CASE handler' = [handler EXCEPT ![n] = Starting(handler[n])]
  <2> DEFINE m == Len(handler[n].timeline)
  <2>1. m \in Nat /\ EndedUpTo(handler[n], m) /\ handler[n].pending \subseteq 1..m
    BY <1>1 DEF Ordered, Handlers
  <2> HIDE DEF m
  <2> QED BY <1>1, <1>2, <2>1, StartingIsTask, HandlerMoves DEF Read
<1>3. CASE Proceed(n, "answering")
  <2> DEFINE t == [handler[n] EXCEPT !.pc = "answering"]
  <2>1. handler' = [handler EXCEPT ![n] = t]
    BY <1>3 DEF Proceed
  <2>2. /\ t \in Handlers /\ Ordered(t) /\ t.pc = "answering"
        /\ t.kind = handler[n].kind /\ t.id = handler[n].id
    BY <1>1, Relabelled
  <2> HIDE DEF t
  <2> QED BY <1>1, <2>1, <2>2, HandlerMoves DEF Read
<1> QED BY <1>2, <1>3 DEF Read

LEMMA RankIInv == ASSUME IInv, NEW n \in Messages, RankTask(n) PROVE IInv'
<1> DEFINE t == [handler[n] EXCEPT !.pc = "answering"]
<1>1. handler[n] \in Handlers /\ handler[n].pc = "ranking" /\ Ordered(handler[n])
  BY DEF IInv, ServerTypeOK, RankTask
<1>2. handler' = [handler EXCEPT ![n] = t]
  BY DEF RankTask, Proceed
<1>3. /\ t \in Handlers /\ Ordered(t) /\ t.pc = "answering"
      /\ t.kind = handler[n].kind /\ t.id = handler[n].id
  BY <1>1, Relabelled
<1> HIDE DEF t
<1> QED BY <1>1, <1>2, <1>3, HandlerMoves DEF RankTask

(* What a collecting handler has: a current provider, all before it ended.  *)
LEMMA Collecting ==
  ASSUME NEW t \in Handlers, Ordered(t), t.pc = "collecting"
  PROVE  LET m == Len(t.timeline) IN
           /\ m \in Nat /\ m < NumProviders /\ EndedUpTo(t, m)
           /\ m + 1 \in t.pending /\ t.pending \subseteq 1..(m + 1)
BY ServerAssumption DEF Ordered, Handlers

LEMMA TimesOutIInv == ASSUME IInv, NEW n \in Messages, ProviderTimesOut(n) PROVE IInv'
<1>1. handler[n] \in Handlers /\ handler[n].pc = "collecting" /\ Ordered(handler[n])
  BY DEF IInv, ServerTypeOK, ProviderTimesOut
<1>2. handler' = [handler EXCEPT ![n] = Recorded(handler[n], "timedOut")]
  BY DEF ProviderTimesOut
<1>3. "timedOut" \in Results
  BY DEF Results
<1> DEFINE t == Recorded(handler[n], "timedOut")
<1>4. /\ t \in Handlers /\ Ordered(t) /\ t.pc \in {"collecting", "ranking"}
      /\ t.kind = handler[n].kind /\ t.id = handler[n].id
  BY <1>1, <1>3, Collecting, RecordedIsTask
<1> HIDE DEF t
<1> QED BY <1>1, <1>2, <1>4, HandlerMoves DEF ProviderTimesOut, t

LEMMA ReturnsIInv == ASSUME IInv, NEW n \in Messages, ProviderReturns(n) PROVE IInv'
<1>1. PICK k \in handler[n].pending \ Hanging, result \in {"ok", "failed"} :
        LET t == [handler[n] EXCEPT !.pending = @ \ {k}] IN
          handler' = [handler EXCEPT ![n] = IF k = Current(n) THEN Recorded(t, result) ELSE t]
  BY DEF ProviderReturns
<1> DEFINE q == handler[n].pending \ {k}
           t == [handler[n] EXCEPT !.pending = q]
           m == Len(handler[n].timeline)
<1>2. handler' = [handler EXCEPT ![n] = IF k = m + 1 THEN Recorded(t, result) ELSE t]
  BY <1>1 DEF Current
<1>3. handler[n] \in Handlers /\ Ordered(handler[n])
  BY DEF IInv, ServerTypeOK
<1>4. q \subseteq 1..NumProviders /\ k \in handler[n].pending /\ k \notin q /\ k \notin Hanging
  BY <1>3 DEF Handlers
<1>5. m \in Nat /\ EndedUpTo(handler[n], m) /\ q \subseteq 1..(m + 1)
  BY <1>3 DEF Handlers, Ordered
<1>6. handler[n].pc \notin {"unread", "reading"}
  BY <1>3, <1>4 DEF Ordered
<1>7. \A j : j # k => (j \in q <=> j \in handler[n].pending)
  OBVIOUS
<1>8. q \subseteq handler[n].pending
  OBVIOUS
<1>9. t = [handler[n] EXCEPT !.pending = q]
  OBVIOUS
<1> HIDE DEF q, t
<1>10. /\ t \in Handlers /\ t.kind = handler[n].kind /\ t.id = handler[n].id
       /\ t.pc = handler[n].pc /\ t.timeline = handler[n].timeline /\ t.pending = q
  BY <1>3, <1>4, <1>9 DEF Handlers
<1>11. EndedUpTo(t, m)
  BY <1>5, <1>8, <1>10 DEF EndedUpTo
<1>12. UNCHANGED <<stdin, inflight, answers, main, batch>>
  BY DEF ProviderReturns
<1>13. CASE k = m + 1
  <2>1. handler[n].pc = "collecting"
    BY <1>3, <1>4, <1>13 DEF Ordered
  <2>2. m < NumProviders
    BY <1>3, <1>5, <2>1, Collecting
  <2>3. result \in Results
    BY DEF Results
  <2> DEFINE u == Recorded(t, result)
  <2>4. /\ u \in Handlers /\ Ordered(u) /\ u.pc \in {"collecting", "ranking"}
        /\ u.kind = t.kind /\ u.id = t.id
    BY <1>4, <1>5, <1>10, <1>11, <1>13, <2>2, <2>3, RecordedIsTask
  <2>5. handler' = [handler EXCEPT ![n] = u]
    BY <1>2, <1>13
  <2> HIDE DEF u, m
  <2> QED BY <1>10, <1>12, <2>1, <2>4, <2>5, HandlerMoves
<1>14. CASE k # m + 1
  <2>1. Ordered(t)
    BY <1>3, <1>5, <1>6, <1>7, <1>10, <1>11, <1>14 DEF Ordered
  <2>2. handler' = [handler EXCEPT ![n] = t]
    BY <1>2, <1>14
  <2> HIDE DEF m
  <2> QED BY <1>6, <1>10, <1>12, <2>1, <2>2, HandlerMoves
<1> QED BY <1>13, <1>14

LEMMA AnswerIInv == ASSUME IInv, NEW n \in Messages, Answer(n) PROVE IInv'
<1> DEFINE t == [handler[n] EXCEPT !.pc = "settling"]
<1>1. /\ handler[n] \in Handlers /\ handler[n].pc = "answering" /\ Ordered(handler[n])
      /\ UNCHANGED <<stdin, inflight, main, batch>>
      /\ answers' = IF Replies(n) THEN [answers EXCEPT ![n] = @ + 1] ELSE answers
      /\ handler' = [handler EXCEPT ![n] = t]
  BY DEF IInv, ServerTypeOK, Answer, Proceed
<1>2. /\ t \in Handlers /\ Ordered(t) /\ t.pc = "settling"
      /\ t.kind = handler[n].kind /\ t.id = handler[n].id
  BY <1>1, Relabelled
<1> HIDE DEF t
<1>3. handler'[n] = t /\ \A m \in Messages \ {n} : handler'[m] = handler[m]
  BY <1>1 DEF IInv, ServerTypeOK
<1>4. ServerTypeOK'
  BY <1>1, <1>2 DEF IInv, ServerTypeOK
<1>5. InFlight'
  BY <1>1, <1>2, <1>3 DEF IInv, InFlight, Finished
<1>6. OneAnswerEach'
  <2>1. \A m \in Messages : Replies(m)' = Replies(m)
    BY <1>2, <1>3 DEF Replies
  <2>2. answers'[n] = (IF Replies(n) THEN 1 ELSE 0)
    BY <1>1 DEF IInv, ServerTypeOK, OneAnswerEach
  <2>3. \A m \in Messages \ {n} : answers'[m] = answers[m]
    BY <1>1 DEF IInv, ServerTypeOK
  <2> QED BY <1>2, <1>3, <2>1, <2>2, <2>3 DEF IInv, OneAnswerEach
<1>7. MainInv'
  BY <1>1 DEF IInv, MainInv
<1>8. \A m \in Messages : Ordered(handler'[m])
  BY <1>2, <1>3 DEF IInv
<1> QED BY <1>4, <1>5, <1>6, <1>7, <1>8 DEF IInv

LEMMA SettleIInv == ASSUME IInv, NEW n \in Messages, Settle(n) PROVE IInv'
<1> DEFINE t == [handler[n] EXCEPT !.pc = "done"]
<1>1. /\ handler[n] \in Handlers /\ handler[n].pc = "settling" /\ Ordered(handler[n])
      /\ UNCHANGED <<stdin, answers, main, batch>>
      /\ inflight' = inflight \ {n}
      /\ handler' = [handler EXCEPT ![n] = t]
  BY DEF IInv, ServerTypeOK, Settle, Proceed
<1>2. /\ t \in Handlers /\ Ordered(t) /\ t.pc = "done"
      /\ t.kind = handler[n].kind /\ t.id = handler[n].id
  BY <1>1, Relabelled
<1> HIDE DEF t
<1>3. handler'[n] = t /\ \A m \in Messages \ {n} : handler'[m] = handler[m]
  BY <1>1 DEF IInv, ServerTypeOK
<1>4. ServerTypeOK'
  BY <1>1, <1>2 DEF IInv, ServerTypeOK
<1>5. InFlight'
  BY <1>1, <1>2, <1>3 DEF IInv, InFlight, Finished
<1>6. OneAnswerEach'
  BY <1>1, <1>2, <1>3 DEF IInv, OneAnswerEach, Replies
<1>7. MainInv'
  BY <1>1 DEF IInv, MainInv
<1>8. \A m \in Messages : Ordered(handler'[m])
  BY <1>2, <1>3 DEF IInv
<1> QED BY <1>4, <1>5, <1>6, <1>7, <1>8 DEF IInv

(* The server's own steps leave the tasks alone.                            *)
LEMMA MainIInv == ASSUME IInv, Close \/ Closed \/ AwaitAll PROVE IInv'
<1>1. UNCHANGED <<handler, inflight, answers>>
  BY DEF Close, Closed, AwaitAll
<1>2. ServerTypeOK' /\ MainInv'
  <2>1. CASE Close
    BY <2>1 DEF Close, IInv, ServerTypeOK, MainInv
  <2>2. CASE Closed
    BY <2>2 DEF Closed, Drain, IInv, ServerTypeOK, MainInv
  <2>3. CASE AwaitAll
    BY <2>3 DEF AwaitAll, Drain, IInv, ServerTypeOK, MainInv
  <2> QED BY <2>1, <2>2, <2>3
<1>3. InFlight' /\ OneAnswerEach'
  BY <1>1 DEF IInv, InFlight, OneAnswerEach, Finished, Replies
<1> QED BY <1>1, <1>2, <1>3 DEF IInv

LEMMA NextIInv == IInv /\ [ServerNext]_serverVars => IInv'
<1> SUFFICES ASSUME IInv, [ServerNext]_serverVars PROVE IInv'
  OBVIOUS
<1>1. ASSUME NEW n \in Messages, Line(n) \/ ProviderReturns(n) PROVE IInv'
  BY <1>1, LineIInv, ReturnsIInv
<1>2. ASSUME NEW n \in Messages, Attend(n) PROVE IInv'
  BY <1>2, ReadIInv, TimesOutIInv, RankIInv, AnswerIInv, SettleIInv DEF Attend
<1>3. CASE Close \/ Closed \/ AwaitAll
  BY <1>3, MainIInv
<1>4. CASE UNCHANGED serverVars
  <2>1. UNCHANGED <<stdin, handler, inflight, answers, main, batch>>
    BY <1>4 DEF serverVars
  <2> QED BY <2>1 DEF IInv, ServerTypeOK, InFlight, OneAnswerEach, MainInv, Finished, Replies
<1> QED BY <1>1, <1>2, <1>3, <1>4 DEF ServerNext

LEMMA Invariance == ServerSpec => []IInv
BY InitIInv, NextIInv, PTL DEF ServerSpec

(* Every variable keeps its type, for any lines and providers (serveStdio). *)
THEOREM ServerTyped == ServerSpec => []ServerTypeOK
<1>1. IInv => ServerTypeOK
  BY DEF IInv
<1> QED BY <1>1, Invariance, PTL

(* Every line that was handled has exactly the answer it asks for.          *)
THEOREM ServerAnswersOnce == ServerSpec => []OneAnswerEach
<1>1. IInv => OneAnswerEach
  BY DEF IInv
<1> QED BY <1>1, Invariance, PTL

(* The server returns, and closes the storage, only when no handler runs.   *)
THEOREM ServerReturnsWhenIdle == ServerSpec => []ReturnsWhenIdle
<1>1. IInv => ReturnsWhenIdle
  BY DEF IInv, MainInv, InFlight, ReturnsWhenIdle
<1> QED BY <1>1, Invariance, PTL

(* Whenever providers return, the timeline is theirs, in their order.       *)
THEOREM ServerTimelineInOrder == ServerSpec => []TimelineInOrder
<1>1. IInv => TimelineInOrder
  <2> SUFFICES ASSUME IInv, NEW n \in Messages
               PROVE  LET t == handler[n] IN
                        /\ Len(t.timeline) <= NumProviders
                        /\ \A k \in 1..Len(t.timeline) :
                             /\ k \in t.pending => t.timeline[k] = "timedOut"
                             /\ k \in Hanging => t.timeline[k] = "timedOut"
                        /\ t.pc = "collecting" => Current(n) \in t.pending
    BY DEF TimelineInOrder
  <2> QED BY DEF IInv, Ordered, EndedUpTo, Current
<1> QED BY <1>1, Invariance, PTL
-----------------------------------------------------------------------------
(* The MCP configuration.  A file that nobody took for empty while it was  *)
(* cut off says of the user's servers what he wrote, and so does whatever  *)
(* an operation is about to write into it.                                 *)
Entries == [Servers \cup OwnServers -> Listings]

Calls == [at : {"idle", "read", "write", "opened"},
          op : {"none", "install", "uninstall", "enable", "disable"},
          server : Servers \cup {"none"}, file : Files \cup {"none"}, servers : Entries]

Says(servers, f) == \A s \in OwnServers : servers[s] = own[f][s]

McpConfigTyped ==
    /\ config \in [Files -> [at : {"missing", "cut", "whole"}, servers : Entries]]
    /\ own \in [Files -> Entries]
    /\ \A p \in Clients :
         call[p].at # "idle" =>
            /\ call[p].server \in Servers /\ call[p].file \in Files
            /\ call[p].op # "none"
    /\ call \in [Clients -> Calls]

McpConfigInv ==
    /\ McpConfigTyped
    /\ \A f \in Files \ torn : config[f].at # "cut" => Says(config[f].servers, f)
    /\ \A p \in Clients : call[p].at \in {"write", "opened"} /\ call[p].file \notin torn
                            => Says(call[p].servers, call[p].file)

LEMMA McpConfigInitInv == McpConfigInit => McpConfigInv
BY DEF McpConfigInit, McpConfigInv, McpConfigTyped, Calls, Says, Entries, Missing, NoCall,
       Nothing, Listings

LEMMA HandInv == McpConfigInv /\ Hand => McpConfigInv'
<1> SUFFICES ASSUME McpConfigInv, Hand PROVE McpConfigInv'
  OBVIOUS
<1>1. PICK f \in Files :
        /\ \/ \E s \in OwnServers, flag \in Listings :
                config' = [config EXCEPT ![f] = Whole([config[f].servers EXCEPT ![s] = flag])]
           \/ config' = [config EXCEPT ![f] = Missing]
        /\ own' = [own EXCEPT ![f] =
                      [s \in Servers \cup OwnServers |->
                         IF s \in OwnServers THEN config'[f].servers[s] ELSE "no"]]
        /\ torn' = torn \ {f}
  BY DEF Hand
<1>2. PICK c \in [at : {"missing", "whole"}, servers : Entries] :
         config' = [config EXCEPT ![f] = c]
  <2>1. Missing \in [at : {"missing", "whole"}, servers : Entries]
    BY DEF Missing, Nothing, Entries, Listings
  <2>2. ASSUME NEW s \in OwnServers, NEW flag \in Listings
        PROVE  Whole([config[f].servers EXCEPT ![s] = flag])
                 \in [at : {"missing", "whole"}, servers : Entries]
    <3>1. config[f].servers \in Entries
      BY DEF McpConfigInv, McpConfigTyped
    <3> QED BY <3>1 DEF Whole, Entries
  <2> QED BY <1>1, <2>1, <2>2
<1>3. /\ config'[f] = c /\ \A g \in Files : g # f => config'[g] = config[g]
      /\ own'[f] \in Entries /\ \A s \in OwnServers : own'[f][s] = c.servers[s]
      /\ \A g \in Files : g # f => own'[g] = own[g]
      /\ own' \in [Files -> Entries]
      /\ config' \in [Files -> [at : {"missing", "cut", "whole"}, servers : Entries]]
  BY <1>1, <1>2 DEF McpConfigInv, McpConfigTyped, Entries, Listings
<1>4. call' = call /\ \A p \in Clients : call[p].at = "idle"
  BY DEF Hand
<1> QED BY <1>1, <1>3, <1>4 DEF McpConfigInv, McpConfigTyped, Says

LEMMA CallInv == ASSUME McpConfigInv, NEW p \in Clients, Call(p) PROVE McpConfigInv'
<1>1. PICK op \in {"install", "uninstall", "enable", "disable"}, s \in Servers, f \in Files :
         call' = [call EXCEPT ![p] =
           [at |-> "read", op |-> op, server |-> s, servers |-> Nothing, file |-> f]]
  BY DEF Call, Files
<1>2. Nothing \in Entries
  BY DEF Nothing, Entries, Listings
<1> QED BY <1>1, <1>2 DEF Call, McpConfigInv, McpConfigTyped, Calls, Says

(* Only the entry of the operation's own capability differs from what is   *)
(* in the file.                                                            *)
LEMMA ChangedSays ==
  ASSUME McpConfigInv, NEW p \in Clients, call[p].at = "read",
         config[call[p].file].at # "cut", call[p].file \notin torn
  PROVE  Changed(p) \in Entries /\ Says(Changed(p), call[p].file)
<1>1. call[p].server \in Servers /\ call[p].file \in Files
  BY DEF McpConfigInv, McpConfigTyped
<1>2. call[p].op \in {"install", "uninstall", "enable", "disable"}
  BY DEF McpConfigInv, McpConfigTyped, Calls
<1>3. PICK x \in Listings :
         Changed(p) = [config[call[p].file].servers EXCEPT ![call[p].server] = x]
  BY <1>2 DEF Changed, Listings
<1>4. config[call[p].file].servers \in Entries /\ Says(config[call[p].file].servers, call[p].file)
  BY <1>1 DEF McpConfigInv, McpConfigTyped
<1>5. call[p].server \notin OwnServers
  BY <1>1, McpConfigAssumption
<1> QED BY <1>1, <1>3, <1>4, <1>5 DEF Entries, Says

LEMMA ReadToInstallInv ==
  ASSUME McpConfigInv, NEW p \in Clients, ReadToInstall(p)
  PROVE  McpConfigInv'
<1> DEFINE f == call[p].file
<1>1. /\ call[p].server \in Servers /\ f \in Files /\ call[p].op = "install"
      /\ call \in [Clients -> Calls]
      /\ config[f].servers \in Entries
  BY DEF McpConfigInv, McpConfigTyped, ReadToInstall
<1>2. Changed(p) \in Entries
  BY <1>1 DEF Changed, Entries, Listings
<1>3. /\ call'[p] = [call[p] EXCEPT !.at = "write", !.servers = Changed(p)]
      /\ \A q \in Clients : q # p => call'[q] = call[q]
      /\ call' \in [Clients -> Calls]
      /\ call'[p].servers = Changed(p) /\ call'[p].file = f
      /\ call'[p].server = call[p].server /\ call'[p].op = call[p].op
  BY <1>1, <1>2, ZenonT(30) DEF ReadToInstall, Calls
<1>4. torn' = torn \cup {g \in {f} : config[g].at = "cut"} /\ UNCHANGED <<config, own>>
  BY DEF ReadToInstall
<1>5. f \notin torn' => Says(Changed(p), f)
  BY <1>1, <1>4, ChangedSays DEF ReadToInstall
<1>6. McpConfigTyped'
  BY <1>1, <1>3, <1>4 DEF McpConfigInv, McpConfigTyped
<1>7. ASSUME NEW q \in Clients, call'[q].at \in {"write", "opened"}, call'[q].file \notin torn'
      PROVE  \A s \in OwnServers : call'[q].servers[s] = own[call'[q].file][s]
  <2>1. CASE q = p
    BY <1>1, <1>3, <1>5, <1>7, <2>1 DEF Says
  <2>2. CASE q # p
    BY <1>3, <1>4, <1>7, <2>2 DEF McpConfigInv, Says
  <2> QED BY <2>1, <2>2
<1> HIDE DEF f
<1> QED BY <1>4, <1>6, <1>7 DEF McpConfigInv, Says

LEMMA ReadToChangeInv ==
  ASSUME McpConfigInv, NEW p \in Clients, ReadToChange(p)
  PROVE  McpConfigInv'
<1> DEFINE f == call[p].file
<1>1. /\ call[p].server \in Servers /\ f \in Files /\ call[p].op # "install"
      /\ call[p].at = "read" /\ call[p] \in Calls
      /\ call \in [Clients -> Calls]
      /\ config[f].servers \in Entries
  BY DEF McpConfigInv, McpConfigTyped, ReadToChange
<1>2. UNCHANGED <<config, own, torn>>
  BY DEF ReadToChange
<1>3. CASE /\ Readable(f) /\ config[f].servers[call[p].server] # "no"
           /\ call' = [call EXCEPT ![p] = [@ EXCEPT !.at = "write", !.servers = Changed(p)]]
  <2>1. Changed(p) \in Entries
    <3>1. call[p].op \in {"uninstall", "enable", "disable"}
      BY <1>1 DEF Calls, McpConfigInv, McpConfigTyped
    <3> QED BY <1>1, <3>1 DEF Changed, Entries, Listings
  <2>2. f \notin torn => Says(Changed(p), f)
    BY <1>1, <1>3, ChangedSays DEF Readable
  <2>3. /\ call'[p].at = "write" /\ call'[p].servers = Changed(p) /\ call'[p].file = f
        /\ call'[p].server = call[p].server /\ call'[p].op = call[p].op
        /\ \A q \in Clients : q # p => call'[q] = call[q]
        /\ call' \in [Clients -> Calls]
    BY <1>1, <1>3, <2>1 DEF Calls
  <2>4. McpConfigTyped'
    BY <1>1, <1>2, <2>3 DEF McpConfigInv, McpConfigTyped
  <2>5. ASSUME NEW q \in Clients, call'[q].at \in {"write", "opened"}, call'[q].file \notin torn
        PROVE  \A s \in OwnServers : call'[q].servers[s] = own[call'[q].file][s]
    <3>1. CASE q = p
      BY <2>2, <2>3, <2>5, <3>1 DEF Says
    <3>2. CASE q # p
      BY <2>3, <2>5, <3>2 DEF McpConfigInv, Says
    <3> QED BY <3>1, <3>2
  <2> HIDE DEF f
  <2> QED BY <1>2, <2>4, <2>5 DEF McpConfigInv, Says
<1>4. CASE call' = [call EXCEPT ![p] = [@ EXCEPT !.file = "user"]]
  BY <1>1, <1>2, <1>4 DEF McpConfigInv, McpConfigTyped, Calls, Says, Files
<1>5. CASE call' = [call EXCEPT ![p] = NoCall]
  <2>1. NoCall \in Calls /\ NoCall.at = "idle"
    BY DEF Calls, NoCall, Nothing, Entries, Listings
  <2> QED BY <1>1, <1>2, <1>5, <2>1 DEF McpConfigInv, McpConfigTyped, Says
<1> QED BY <1>3, <1>4, <1>5 DEF ReadToChange

LEMMA CutFileInv == ASSUME McpConfigInv, NEW p \in Clients, CutFile(p) PROVE McpConfigInv'
<1>1. CutOff \in [at : {"missing", "cut", "whole"}, servers : Entries] /\ CutOff.at = "cut"
  BY DEF CutOff, Nothing, Entries, Listings
<1> QED BY <1>1 DEF CutFile, McpConfigInv, McpConfigTyped, Calls, Says

LEMMA WriteOutInv == ASSUME McpConfigInv, NEW p \in Clients, WriteOut(p) PROVE McpConfigInv'
<1>1. NoCall \in Calls /\ NoCall.at = "idle"
  BY DEF Calls, NoCall, Nothing, Entries, Listings
<1> QED BY <1>1 DEF WriteOut, Whole, McpConfigInv, McpConfigTyped, Calls, Says

LEMMA KillCallInv == ASSUME McpConfigInv, NEW p \in Clients, KillCall(p) PROVE McpConfigInv'
<1>1. NoCall \in Calls /\ NoCall.at = "idle"
  BY DEF Calls, NoCall, Nothing, Entries, Listings
<1> QED BY <1>1 DEF KillCall, McpConfigInv, McpConfigTyped, Says

LEMMA McpConfigStepInv == McpConfigInv /\ [McpConfigNext]_mcpConfigVars => McpConfigInv'
<1> SUFFICES ASSUME McpConfigInv, [McpConfigNext]_mcpConfigVars PROVE McpConfigInv'
  OBVIOUS
<1>1. CASE McpConfigNext
  BY <1>1, HandInv, CallInv, ReadToInstallInv, ReadToChangeInv, CutFileInv, WriteOutInv,
     KillCallInv DEF McpConfigNext
<1>2. CASE UNCHANGED mcpConfigVars
  BY <1>2 DEF mcpConfigVars, McpConfigInv, McpConfigTyped, Says
<1> QED BY <1>1, <1>2

(* The user's own servers survive every interleaving of the adapter's      *)
(* operations, and every kill, in each file that no install took for empty *)
(* (McpAdapter.install, uninstall, enable, disable).                       *)
THEOREM UsersServersSurvive == McpConfigSpec => []OwnServersSurvive
<1>1. McpConfigSpec => []McpConfigInv
  BY McpConfigInitInv, McpConfigStepInv, PTL DEF McpConfigSpec
<1>2. McpConfigInv => OwnServersSurvive
  <2> SUFFICES ASSUME McpConfigInv, NEW f \in Files \ torn, NEW s \in OwnServers, Readable(f),
                      NEW flag \in Listings
               PROVE  <<s, f, flag>> \in DiscoveredServers <=> own[f][s] = flag
    BY DEF OwnServersSurvive
  <2>1. config[f].servers[s] = own[f][s]
    BY DEF McpConfigInv, Says, Readable
  <2>2. <<s, f, flag>> \in DiscoveredServers <=> flag = config[f].servers[s]
    BY DEF DiscoveredServers, Nothing
  <2> QED BY <2>1, <2>2
<1> QED BY <1>1, <1>2, PTL

-----------------------------------------------------------------------------
(* Signatures.  A `sign` that still counts as alone runs after a pair was  *)
(* generated by a command that was alone too and ended, and while none is; *)
(* so both keys it reads are of this pair.                                 *)
Keys == Nat \cup {Blank, Unfinished}
Blocks == [over : [text : Drafts, bare : BOOLEAN], key : Keys, public : Keys, alone : BOOLEAN]
Manifests == [text : Drafts, block : {Blank} \cup Blocks]
Halves == {"public", "publicCut", "private", "privateCut"}
Processes == [at : Halves \cup {"idle", "readPrivate", "readPublic", "readManifest", "sign", "signing"},
              public : Keys, private : Keys, read : {Blank} \cup Manifests, alone : BOOLEAN]

SigningTyped ==
    /\ public \in Keys /\ private \in Keys /\ pairs \in Nat /\ paired \in BOOLEAN
    /\ manifest # Unfinished => manifest \in Manifests
    /\ publisher \in [Publishers -> Processes]

(* What each process has established about the keys it holds.              *)
Holds(p) ==
    LET s == publisher[p] IN
    /\ s.at \in {"sign", "signing"} => s.read \in Manifests
    /\ s.at \in Halves => s.public = s.private
    /\ s.at \in Halves /\ s.alone => Generating = {p}
    /\ s.at \in {"private", "privateCut"} /\ s.alone => public = s.public
    /\ s.at \in {"readPrivate", "readPublic"} /\ s.alone => paired
    /\ s.at = "readPublic" /\ s.alone => s.private = private
    /\ s.at \in {"readManifest", "sign", "signing"} /\ s.alone => s.public = s.private

SigningInv ==
    /\ SigningTyped
    /\ \A p \in Publishers : Holds(p)
    /\ paired => public = private /\ Generating = {}
    /\ manifest # Unfinished /\ manifest.block # Blank /\ manifest.block.alone
         => manifest.block.public = manifest.block.key

LEMMA SigningInitInv == SigningInit => SigningInv
<1> SUFFICES ASSUME SigningInit PROVE SigningInv
  OBVIOUS
<1>1. /\ public = Blank /\ private = Blank /\ pairs = 0 /\ paired = FALSE
      /\ manifest \in [text : Drafts, block : {Blank}]
      /\ publisher = [p \in Publishers |-> Inactive]
  BY DEF SigningInit
<1>2. Inactive \in Processes /\ Inactive.at = "idle"
  BY DEF Inactive, Processes, Keys
<1>3. SigningTyped
  BY <1>1, <1>2 DEF SigningTyped, Keys, Manifests
<1>4. \A p \in Publishers : publisher[p].at = "idle"
  BY <1>1, <1>2
<1>5. \A p \in Publishers : Holds(p)
  BY <1>4 DEF Holds, Halves
<1> QED BY <1>1, <1>3, <1>5 DEF SigningInv

LEMMA GenerateInv == ASSUME SigningInv, NEW p \in Publishers, Generate(p) PROVE SigningInv'
<1>1. /\ UNCHANGED <<public, private, manifest>> /\ paired' = FALSE /\ pairs' = pairs + 1
      /\ publisher' = [q \in Publishers |->
            IF q = p THEN [Inactive EXCEPT !.at = "public", !.public = pairs',
                                           !.private = pairs', !.alone = Generating = {}]
            ELSE [publisher[q] EXCEPT !.alone = FALSE]]
  BY DEF Generate
<1>2. publisher \in [Publishers -> Processes] /\ pairs' \in Nat
  <2>1. publisher \in [Publishers -> Processes] /\ pairs \in Nat
    BY DEF SigningInv, SigningTyped
  <2>2. pairs' = pairs + 1
    BY DEF Generate
  <2> QED BY <2>1, <2>2
<1>3. publisher'[p] = [Inactive EXCEPT !.at = "public", !.public = pairs',
                                       !.private = pairs', !.alone = Generating = {}]
  BY <1>1
<1>4. /\ publisher'[p].at = "public" /\ publisher'[p].public = publisher'[p].private
      /\ publisher'[p].alone => Generating = {}
      /\ publisher'[p] \in Processes
  <2> DEFINE empty == (Generating = {})
  <2>1. empty \in BOOLEAN
    OBVIOUS
  <2>2. publisher'[p] = [at |-> "public", public |-> pairs', private |-> pairs',
                         read |-> Blank, alone |-> empty]
    BY <1>3 DEF Inactive
  <2>3. publisher'[p].alone = empty
    BY <2>2
  <2> HIDE DEF empty
  <2>4. publisher'[p] \in Processes
    BY <1>2, <2>1, <2>2 DEF Processes, Keys, Halves
  <2>5. publisher'[p].at = "public" /\ publisher'[p].public = publisher'[p].private
    BY <2>2
  <2> QED BY <2>3, <2>4, <2>5 DEF empty
<1>5. ASSUME NEW q \in Publishers, q # p
      PROVE  /\ publisher'[q].at = publisher[q].at /\ publisher'[q].read = publisher[q].read
             /\ publisher'[q].public = publisher[q].public
             /\ publisher'[q].private = publisher[q].private /\ publisher'[q].alone = FALSE
             /\ publisher'[q] \in Processes
  <2>1. publisher'[q] = [publisher[q] EXCEPT !.alone = FALSE]
    BY <1>1, <1>5
  <2>2. publisher[q] \in Processes
    BY <1>2
  <2> QED BY <2>1, <2>2 DEF Processes
<1>6. publisher' \in [Publishers -> Processes]
  BY <1>1, <1>4, <1>5
<1>7. publisher'[p].alone => Generating' = {p}
  BY <1>4, <1>5 DEF Generating
<1>8. \A q \in Publishers : Holds(q)'
  <2>1. Holds(p)'
    BY <1>4, <1>7 DEF Holds, Halves
  <2>2. ASSUME NEW q \in Publishers, q # p PROVE Holds(q)'
    BY <1>5, <2>2 DEF SigningInv, Holds
  <2> QED BY <2>1, <2>2
<1>9. SigningTyped'
  BY <1>1, <1>2, <1>6 DEF SigningInv, SigningTyped
<1> QED BY <1>1, <1>8, <1>9 DEF SigningInv

LEMMA OpenPublicInv == ASSUME SigningInv, NEW p \in Publishers, OpenPublic(p) PROVE SigningInv'
BY DEF OpenPublic, SigningInv, SigningTyped, Holds, Generating, Halves, Keys, Processes, Advance

LEMMA WritePublicInv == ASSUME SigningInv, NEW p \in Publishers, WritePublic(p) PROVE SigningInv'
BY DEF WritePublic, SigningInv, SigningTyped, Holds, Generating, Halves, Keys, Processes, Advance

LEMMA OpenPrivateInv == ASSUME SigningInv, NEW p \in Publishers, OpenPrivate(p) PROVE SigningInv'
BY DEF OpenPrivate, SigningInv, SigningTyped, Holds, Generating, Halves, Keys, Processes, Advance

LEMMA WritePrivateInv == ASSUME SigningInv, NEW p \in Publishers, WritePrivate(p) PROVE SigningInv'
BY DEF WritePrivate, SigningInv, SigningTyped, Holds, Generating, Halves, Keys, Processes, Inactive

LEMMA SignStartInv == ASSUME SigningInv, NEW p \in Publishers, SignStart(p) PROVE SigningInv'
BY ZenonT(30) DEF SignStart, SigningInv, SigningTyped, Holds, Generating, Halves, Keys, Processes, Inactive

LEMMA ReadPrivateInv == ASSUME SigningInv, NEW p \in Publishers, ReadPrivate(p) PROVE SigningInv'
BY DEF ReadPrivate, SigningInv, SigningTyped, Holds, Generating, Halves, Keys, Processes

LEMMA ReadPublicInv == ASSUME SigningInv, NEW p \in Publishers, ReadPublic(p) PROVE SigningInv'
BY DEF ReadPublic, SigningInv, SigningTyped, Holds, Generating, Halves, Keys, Processes, Inactive

LEMMA ReadToSignInv == ASSUME SigningInv, NEW p \in Publishers, ReadToSign(p) PROVE SigningInv'
BY DEF ReadToSign, SigningInv, SigningTyped, Holds, Generating, Halves, Keys, Processes, Inactive

LEMMA OpenManifestInv == ASSUME SigningInv, NEW p \in Publishers, OpenManifest(p) PROVE SigningInv'
BY DEF OpenManifest, SigningInv, SigningTyped, Holds, Generating, Halves, Keys, Processes, Advance

LEMMA WriteManifestInv == ASSUME SigningInv, NEW p \in Publishers, WriteManifest(p) PROVE SigningInv'
BY DEF WriteManifest, SigningInv, SigningTyped, Holds, Generating, Halves, Keys, Processes, Inactive, Block, Payload, Manifests, Blocks

LEMMA KillPublisherInv == ASSUME SigningInv, NEW p \in Publishers, KillPublisher(p) PROVE SigningInv'
BY DEF KillPublisher, SigningInv, SigningTyped, Holds, Generating, Halves, Keys, Processes, Inactive

LEMMA EditManifestInv == SigningInv /\ EditManifest => SigningInv'
BY DEF EditManifest, SigningInv, SigningTyped, Holds, Generating, Manifests, Blocks, Processes

LEMMA SigningStepInv == SigningInv /\ [SigningNext]_signingVars => SigningInv'
<1> SUFFICES ASSUME SigningInv, [SigningNext]_signingVars PROVE SigningInv'
  OBVIOUS
<1>1. CASE UNCHANGED signingVars
  BY <1>1 DEF signingVars, SigningInv, SigningTyped, Holds, Generating
<1>2. CASE EditManifest
  BY <1>2, EditManifestInv
<1>3. ASSUME NEW p \in Publishers, SigningStep(p) PROVE SigningInv'
  BY <1>3, GenerateInv, OpenPublicInv, WritePublicInv, OpenPrivateInv, WritePrivateInv,
     SignStartInv, ReadPrivateInv, ReadPublicInv, ReadToSignInv, OpenManifestInv,
     WriteManifestInv, KillPublisherInv DEF SigningStep
<1> QED BY <1>1, <1>2, <1>3 DEF SigningNext

(* A signature made with a whole pair verifies exactly as long as the      *)
(* manifest says what was signed (generateKeyPair, signManifest,           *)
(* verifyManifestSignature).                                               *)
THEOREM SignaturesAreReliable == SigningSpec => []SignaturesTell
<1>1. SigningSpec => []SigningInv
  BY SigningInitInv, SigningStepInv, PTL DEF SigningSpec
<1>2. SigningInv => SignaturesTell
  <2> SUFFICES ASSUME SigningInv, manifest # Unfinished, manifest.block # Blank,
                      manifest.block.alone, manifest.block.over.bare
               PROVE  Verified(manifest) = "valid" <=> manifest.text = manifest.block.over.text
    BY DEF SignaturesTell
  <2>1. manifest \in Manifests /\ manifest.block \in Blocks
    BY DEF SigningInv, SigningTyped, Manifests
  <2>2. manifest.block.public = manifest.block.key
    BY DEF SigningInv
  <2>3. Payload([manifest EXCEPT !.block = Blank]) = [text |-> manifest.text, bare |-> TRUE]
    BY <2>1 DEF Payload, Manifests
  <2>4. manifest.block.over \in [text : Drafts, bare : BOOLEAN]
    BY <2>1 DEF Blocks
  <2>5. manifest.block.over = [text |-> manifest.text, bare |-> TRUE]
          <=> manifest.text = manifest.block.over.text
    <3> DEFINE over == manifest.block.over
    <3>1. over = [text |-> over.text, bare |-> over.bare]
      BY <2>4
    <3>2. over.bare = TRUE
      BY <2>4
    <3> HIDE DEF over
    <3>3. over = [text |-> manifest.text, bare |-> TRUE] <=> manifest.text = over.text
      BY <3>1, <3>2
    <3> QED BY <3>3 DEF over
  <2> QED BY <2>2, <2>3, <2>5 DEF Verified, VerifySignature
<1> QED BY <1>1, <1>2, PTL

-----------------------------------------------------------------------------
(* The registry's places.  SourcesInv follows a refresh that nothing        *)
(* disturbs: which stages it has passed, that each git source among them    *)
(* has a clone, and that every capability has the row of the last of them   *)
(* that offers it, or is about to have it.                                  *)
Stage == [type : {"builtin"}, at : {Builtin}] \cup [type : {"project"}, at : {Gone}]
         \cup [type : {"user"}, at : Range(UserDirs)] \cup Added \cup ByHand

RefreshJob == [at : {"idle", "stages", "store", "done"}, stages : Seq(Stage),
               found : SUBSET Offered, text : [Offered -> Texts \cup {Gone}] \cup {<<>>},
               from : Places \cup {Gone}, failed : BOOLEAN, alone : BOOLEAN]

CloneDir == [url : Urls \cup {Gone}, tree : Trees \cup {Gone}]

SourcesTyped ==
    /\ tree \in [Places -> Trees \cup {Gone}]
    /\ clone \in [Range(CacheOf) -> CloneDir]
    /\ DOMAIN table = Offered
    /\ sources \in Seq(Added \cup ByHand)
    /\ refresh \in [Refreshers -> RefreshJob]

Passed(p) == Len(StagesOf(sources)) - Len(refresh[p].stages)

(* The git sources among the first n stages have a clone; one of their own. *)
FetchedUpTo(stages, clones, n) ==
    \A i \in 1 .. n :
        stages[i].type = "git" => clones[CacheOf[stages[i].name]].url # Gone
OwnUpTo(stages, clones, n) ==
    \A i \in 1 .. n :
        stages[i].type = "git" => clones[CacheOf[stages[i].name]].url = stages[i].at

(* The row that stage i gives c; whether c has the row of the last of the   *)
(* first n stages, and whether the n-th is about to give it.                *)
RowFrom(c, i) ==
    LET place == Place(StagesOf(sources)[i])
    IN  [text |-> tree[place].offers[c], from |-> place]

LatestStored(rows, c, n) ==
    \A i \in Offering(c) :
        (i <= n /\ \A k \in Offering(c) : k <= n => k <= i) => rows[c] = RowFrom(c, i)

InHand(job, c, n) ==
    n \in Offering(c) /\ [text |-> job.text[c], from |-> job.from] = RowFrom(c, n)

RowsUpTo(job, rows, n) ==
    \A c \in Offered :
        IF job.at = "store" /\ c \in job.found THEN InHand(job, c, n)
                                               ELSE LatestStored(rows, c, n)

StagesAhead(p) ==
    /\ Len(refresh[p].stages) <= Len(StagesOf(sources))
    /\ \A i \in 1 .. Len(refresh[p].stages) :
         refresh[p].stages[i] = StagesOf(sources)[Passed(p) + i]

RefreshOf(p) ==
    refresh[p].alone =>
      /\ Refreshing \subseteq {p}
      /\ StagesAhead(p)
      /\ refresh[p].at = "done" => refresh[p].stages = <<>>
      /\ refresh[p].at # "idle"
      /\ ~refresh[p].failed =>
           /\ FetchedUpTo(StagesOf(sources), clone, Passed(p))
           /\ OwnUpTo(StagesOf(sources), clone, Passed(p)) =>
                RowsUpTo(refresh[p], table, Passed(p))

SourcesInv == SourcesTyped /\ \A p \in Refreshers : RefreshOf(p)

(* The stages of a refresh: the three kinds that are always there, and then *)
(* the sources.                                                             *)
LEMMA StagesTyped ==
  ASSUME NEW S \in Seq(Added \cup ByHand)
  PROVE  /\ StagesOf(S) \in Seq(Stage)
         /\ Len(StagesOf(S)) = 2 + Len(UserDirs) + Len(S)
         /\ \A i \in 1 .. Len(StagesOf(S)) :
              StagesOf(S)[i].type = "git" =>
                /\ i - (2 + Len(UserDirs)) \in 1 .. Len(S)
                /\ StagesOf(S)[i] = S[i - (2 + Len(UserDirs))]
<1> DEFINE Fixed == <<[type |-> "builtin", at |-> Builtin], [type |-> "project", at |-> Gone]>>
           Dirs == [i \in DOMAIN UserDirs |-> [type |-> "user", at |-> UserDirs[i]]]
<1>1. UserDirs \in Seq(Range(UserDirs)) /\ Len(UserDirs) \in Nat
      /\ DOMAIN UserDirs = 1 .. Len(UserDirs)
  BY SourcesAssumption
<1>2. Fixed \in Seq(Stage) /\ Len(Fixed) = 2 /\ \A i \in 1 .. 2 : Fixed[i].type # "git"
  BY DEF Stage
<1>3. Dirs \in Seq(Stage) /\ Len(Dirs) = Len(UserDirs)
      /\ \A i \in 1 .. Len(UserDirs) : Dirs[i].type # "git"
  <2>1. \A i \in 1 .. Len(UserDirs) : [type |-> "user", at |-> UserDirs[i]] \in Stage
    BY <1>1 DEF Stage
  <2> HIDE DEF Stage
  <2> QED BY <1>1, <2>1
<1>4. S \in Seq(Stage) /\ Len(S) \in Nat
  BY DEF Stage
<1> HIDE DEF Fixed, Dirs, Stage
<1>5. /\ Fixed \o Dirs \in Seq(Stage) /\ Len(Fixed \o Dirs) = 2 + Len(UserDirs)
      /\ \A i \in 1 .. 2 + Len(UserDirs) :
           (Fixed \o Dirs)[i] = IF i <= 2 THEN Fixed[i] ELSE Dirs[i - 2]
  <2>1. /\ Fixed \o Dirs \in Seq(Stage) /\ Len(Fixed \o Dirs) = Len(Fixed) + Len(Dirs)
        /\ \A i \in 1 .. Len(Fixed) + Len(Dirs) :
             (Fixed \o Dirs)[i] = IF i <= Len(Fixed) THEN Fixed[i] ELSE Dirs[i - Len(Fixed)]
    <3>1. Fixed \in Seq(Stage) /\ Dirs \in Seq(Stage)
      BY <1>2, <1>3
    <3> QED
      BY <3>1, ConcatProperties
  <2> QED
    BY <1>2, <1>3, <2>1
<1>6. \A i \in 1 .. 2 + Len(UserDirs) : (Fixed \o Dirs)[i].type # "git"
  BY <1>1, <1>2, <1>3, <1>5
<1>7. StagesOf(S) = (Fixed \o Dirs) \o S
  BY DEF StagesOf, Fixed, Dirs
<1>8. /\ (Fixed \o Dirs) \o S \in Seq(Stage)
      /\ Len((Fixed \o Dirs) \o S) = 2 + Len(UserDirs) + Len(S)
      /\ \A i \in 1 .. 2 + Len(UserDirs) + Len(S) :
           ((Fixed \o Dirs) \o S)[i] = IF i <= 2 + Len(UserDirs) THEN (Fixed \o Dirs)[i]
                                     ELSE S[i - (2 + Len(UserDirs))]
  <2> DEFINE F == Fixed \o Dirs
  <2>1. F \in Seq(Stage) /\ Len(F) = 2 + Len(UserDirs)
    BY <1>5
  <2> HIDE DEF F
  <2>2. /\ F \o S \in Seq(Stage) /\ Len(F \o S) = Len(F) + Len(S)
        /\ \A i \in 1 .. Len(F) + Len(S) :
             (F \o S)[i] = IF i <= Len(F) THEN F[i] ELSE S[i - Len(F)]
    <3>1. F \in Seq(Stage) /\ S \in Seq(Stage)
      BY <1>4, <2>1
    <3> QED
      BY <3>1, ConcatProperties
  <2>3. /\ F \o S \in Seq(Stage) /\ Len(F \o S) = 2 + Len(UserDirs) + Len(S)
        /\ \A i \in 1 .. 2 + Len(UserDirs) + Len(S) :
             (F \o S)[i] = IF i <= 2 + Len(UserDirs) THEN F[i] ELSE S[i - (2 + Len(UserDirs))]
    BY <2>1, <2>2
  <2> QED
    BY <2>3 DEF F
<1> QED
  BY <1>1, <1>4, <1>6, <1>7, <1>8

LEMMA PlacesTyped ==
  /\ Builtin \in Places /\ Range(UserDirs) \subseteq Places /\ Urls \subseteq Places
  /\ Paths \subseteq Places
  /\ \A s \in Stage : s.type # "project" => s.at \in Places
  /\ \A s \in Stage : s.type = "git" => CacheOf[s.name] \in Range(CacheOf) /\ s.at \in Urls
<1>1. /\ Builtin \in Places /\ Range(UserDirs) \subseteq Places /\ Urls \subseteq Places
      /\ Paths \subseteq Places
  BY DEF Places
<1>2. \A n \in Names \cup Urls : CacheOf[n] \in Range(CacheOf)
  BY SourcesAssumption DEF Range
<1> QED
  BY <1>1, <1>2 DEF Stage, Added, ByHand

(* What a stage is, and the rows its place would give, hangs on the trees   *)
(* and the sources alone.                                                   *)
LEMMA SameStages ==
  ASSUME UNCHANGED <<tree, sources>>
  PROVE  /\ StagesOf(sources)' = StagesOf(sources)
         /\ \A c : Offering(c)' = Offering(c)
         /\ \A c, i : RowFrom(c, i)' = RowFrom(c, i)
<1>1. StagesOf(sources)' = StagesOf(sources)
  BY DEF StagesOf
<1>2. \A s : Place(s)' = Place(s)
  BY DEF Place, ProjectDir, Existing
<1>3. \A c : Offering(c)' = Offering(c)
  BY <1>1, <1>2 DEF Offering
<1> QED
  BY <1>1, <1>2, <1>3 DEF RowFrom

LEMMA OthersAreNotAlone ==
  ASSUME SourcesInv, NEW q \in Refreshers, refresh[q].at \in {"stages", "store"},
         NEW p \in Refreshers \ {q}
  PROVE  ~refresh[p].alone
BY DEF SourcesInv, RefreshOf, Refreshing

(* A step that leaves no refresh alone.                                     *)
LEMMA NobodyAlone ==
  ASSUME SourcesTyped', \A p \in Refreshers : ~refresh'[p].alone
  PROVE  SourcesInv'
BY DEF SourcesInv, RefreshOf

LEMMA Disturbed ==
  ASSUME SourcesTyped,
         refresh' = [p \in Refreshers |-> [refresh[p] EXCEPT !.alone = FALSE]]
  PROVE  refresh' \in [Refreshers -> RefreshJob] /\ \A p \in Refreshers : ~refresh'[p].alone
<1>1. ASSUME NEW p \in Refreshers
      PROVE  refresh'[p] \in RefreshJob /\ ~refresh'[p].alone
  <2>1. refresh[p] \in RefreshJob /\ refresh'[p] = [refresh[p] EXCEPT !.alone = FALSE]
    BY DEF SourcesTyped
  <2> QED
    BY <2>1 DEF RefreshJob
<1>2. DOMAIN refresh' = Refreshers /\ refresh' = [p \in Refreshers |-> refresh'[p]]
  OBVIOUS
<1> QED
  BY <1>1, <1>2

LEMMA AddTyped ==
  ASSUME SourcesTyped, NEW s \in Added \cup ByHand
  PROVE  Add(s) \in Seq(Added \cup ByHand)
<1> DEFINE A == Added \cup ByHand
<1>1. sources \in Seq(A) /\ s \in A
  BY DEF SourcesTyped
<1> HIDE DEF A
<1>2. Append(sources, s) \in Seq(A)
  BY <1>1
<1>3. [i \in DOMAIN sources |-> IF sources[i].name = s.name THEN s ELSE sources[i]] \in Seq(A)
  <2>1. DOMAIN sources = 1 .. Len(sources) /\ Len(sources) \in Nat
    BY <1>1
  <2> QED
    BY <1>1, <2>1
<1> QED
  BY <1>2, <1>3 DEF Add, A

LEMMA RemoveTyped ==
  ASSUME SourcesTyped, NEW i \in DOMAIN sources
  PROVE  RemoveAt(sources, i) \in Seq(Added \cup ByHand)
<1> DEFINE A == Added \cup ByHand
<1>1. sources \in Seq(A)
  BY DEF SourcesTyped
<1> HIDE DEF A
<1>2. DOMAIN sources = 1 .. Len(sources) /\ Len(sources) \in Nat
  BY <1>1
<1>3. /\ \A k \in 1 .. i - 1 : sources[k] \in A
      /\ \A k \in i + 1 .. Len(sources) : sources[k] \in A
  BY <1>1, <1>2
<1>4. /\ SubSeq(sources, 1, i - 1) \in Seq(A)
      /\ SubSeq(sources, i + 1, Len(sources)) \in Seq(A)
  BY <1>2, <1>3, SubSeqProperties
<1> QED
  BY <1>4, ConcatProperties DEF RemoveAt, A

LEMMA PulledTyped ==
  ASSUME SourcesTyped, NEW d \in Range(CacheOf), NEW url \in Urls
  PROVE  /\ Pulled(d, url) \in CloneDir
         /\ Pulled(d, url).url \in Urls \cup {clone[d].url} /\ Pulled(d, url).url # Gone
         /\ Pulled(d, url).tree = tree[Pulled(d, url).url]
         /\ clone[d].url # Gone => Pulled(d, url).url = clone[d].url
<1>1. clone[d] \in CloneDir /\ tree \in [Places -> Trees \cup {Gone}]
  BY DEF SourcesTyped
<1>2. Urls \subseteq Places /\ Gone \notin Places
  BY PlacesTyped, SourcesAssumption
<1> QED
  BY <1>1, <1>2 DEF Pulled, CloneDir

LEMMA OffersTyped ==
  ASSUME NEW t \in Trees \cup {Gone}, t # Gone
  PROVE  /\ t.offers \in [Offered -> Texts \cup {Gone}] /\ Offers(t) \subseteq Offered
BY DEF Trees, Offers

-----------------------------------------------------------------------------
(* A step of process p, which is in the middle of its refresh, and which    *)
(* leaves the trees and the sources alone.                                  *)
StepOf(p) ==
    /\ refresh[p].at \in {"stages", "store"}
    /\ UNCHANGED <<tree, sources>>
    /\ SourcesTyped'
    /\ \A q \in Refreshers \ {p} : refresh'[q] = refresh[q]
    /\ refresh'[p].alone => refresh[p].alone
    /\ refresh'[p].alone => refresh'[p].at # "idle"

LEMMA StepInv ==
  ASSUME SourcesInv, NEW p \in Refreshers, StepOf(p), NEW n,
         refresh'[p].alone =>
           /\ StagesAhead(p)' /\ Passed(p)' = n
           /\ refresh'[p].at = "done" => refresh'[p].stages = <<>>
           /\ ~refresh'[p].failed =>
                /\ FetchedUpTo(StagesOf(sources), clone', n)
                /\ OwnUpTo(StagesOf(sources), clone', n) => RowsUpTo(refresh'[p], table', n)
  PROVE  SourcesInv'
<1>1. ASSUME NEW q \in Refreshers \ {p} PROVE RefreshOf(q)'
  <2>1. ~refresh[q].alone
    BY OthersAreNotAlone DEF StepOf
  <2> QED
    BY <2>1 DEF StepOf, RefreshOf
<1>2. refresh'[p].alone => Refreshing' \subseteq {p}
  <2>1. refresh[p].alone => Refreshing \subseteq {p}
    BY DEF SourcesInv, RefreshOf
  <2> QED
    BY <2>1 DEF StepOf, Refreshing
<1>3. RefreshOf(p)'
  <2> SUFFICES ASSUME refresh'[p].alone
               PROVE  /\ Refreshing' \subseteq {p}
                      /\ StagesAhead(p)'
                      /\ refresh'[p].at = "done" => refresh'[p].stages = <<>>
                      /\ refresh'[p].at # "idle"
                      /\ ~refresh'[p].failed =>
                           /\ FetchedUpTo(StagesOf(sources), clone, Passed(p))'
                           /\ OwnUpTo(StagesOf(sources), clone, Passed(p))' =>
                                RowsUpTo(refresh[p], table, Passed(p))'
    BY DEF RefreshOf
  <2>1. StagesOf(sources)' = StagesOf(sources) /\ Passed(p)' = n
    BY SameStages DEF StepOf
  <2>2. /\ FetchedUpTo(StagesOf(sources), clone, Passed(p))'
             = FetchedUpTo(StagesOf(sources), clone', n)
        /\ OwnUpTo(StagesOf(sources), clone, Passed(p))'
             = OwnUpTo(StagesOf(sources), clone', n)
    BY <2>1 DEF FetchedUpTo, OwnUpTo
  <2>3. RowsUpTo(refresh[p], table, Passed(p))' = RowsUpTo(refresh'[p], table', n)
    BY <2>1, SameStages DEF RowsUpTo, InHand, LatestStored, StepOf
  <2> QED
    BY <1>2, <2>1, <2>2, <2>3 DEF StepOf
<1> QED
  BY <1>1, <1>3 DEF SourcesInv, StepOf

(* What a refresh that nothing disturbs knows before such a step.           *)
LEMMA Known ==
  ASSUME SourcesInv, NEW p \in Refreshers
  PROVE  /\ StagesOf(sources) \in Seq(Stage) /\ Len(StagesOf(sources)) \in Nat
         /\ refresh[p] \in RefreshJob
         /\ refresh[p].stages \in Seq(Stage) /\ Len(refresh[p].stages) \in Nat
         /\ refresh[p].alone =>
              /\ StagesAhead(p) /\ Passed(p) \in 0 .. Len(StagesOf(sources))
              /\ ~refresh[p].failed =>
                   /\ FetchedUpTo(StagesOf(sources), clone, Passed(p))
                   /\ OwnUpTo(StagesOf(sources), clone, Passed(p)) =>
                        RowsUpTo(refresh[p], table, Passed(p))
<1>1. sources \in Seq(Added \cup ByHand) /\ refresh[p] \in RefreshJob
  BY DEF SourcesInv, SourcesTyped
<1>2. StagesOf(sources) \in Seq(Stage)
  BY <1>1, StagesTyped
<1>3. refresh[p].stages \in Seq(Stage)
  BY <1>1 DEF RefreshJob
<1>4. Len(StagesOf(sources)) \in Nat /\ Len(refresh[p].stages) \in Nat
  BY <1>2, <1>3, LenProperties
<1>5. refresh[p].alone =>
        /\ StagesAhead(p)
        /\ ~refresh[p].failed =>
             /\ FetchedUpTo(StagesOf(sources), clone, Passed(p))
             /\ OwnUpTo(StagesOf(sources), clone, Passed(p)) =>
                  RowsUpTo(refresh[p], table, Passed(p))
  BY DEF SourcesInv, RefreshOf
<1>6. StagesAhead(p) => Passed(p) \in 0 .. Len(StagesOf(sources))
  BY <1>4 DEF StagesAhead, Passed
<1> QED
  BY <1>1, <1>2, <1>3, <1>4, <1>5, <1>6

(* The next stage is taken.                                                 *)
LEMMA OneStage ==
  ASSUME SourcesInv, NEW p \in Refreshers, refresh[p].alone, refresh[p].stages # <<>>,
         UNCHANGED <<tree, sources>>, refresh'[p].stages = Tail(refresh[p].stages)
  PROVE  /\ StagesAhead(p)'
         /\ Passed(p) \in Nat /\ Passed(p)' = Passed(p) + 1
         /\ Passed(p) + 1 \in 1 .. Len(StagesOf(sources))
         /\ Head(refresh[p].stages) = StagesOf(sources)[Passed(p) + 1]
<1> DEFINE S == refresh[p].stages
           A == StagesOf(sources)
<1>1. /\ A \in Seq(Stage) /\ Len(A) \in Nat /\ S \in Seq(Stage) /\ Len(S) \in Nat
      /\ Passed(p) \in 0 .. Len(A)
      /\ Len(S) <= Len(A) /\ \A i \in 1 .. Len(S) : S[i] = A[Passed(p) + i]
  <2>1. StagesAhead(p)
    BY Known
  <2> QED
    BY <2>1, Known DEF StagesAhead
<1>2. A' = A
  BY SameStages
<1>3. Passed(p) = Len(A) - Len(S) /\ Passed(p)' = Len(A') - Len(refresh'[p].stages)
  BY DEF Passed
<1>4. StagesAhead(p)' = (/\ Len(refresh'[p].stages) <= Len(A')
                         /\ \A i \in 1 .. Len(refresh'[p].stages) :
                              refresh'[p].stages[i] = (A')[Passed(p)' + i])
  BY DEF StagesAhead
<1>5. S # <<>> /\ refresh'[p].stages = Tail(S)
  OBVIOUS
<1> HIDE DEF S, A
<1>6. /\ Len(S) >= 1 /\ Len(Tail(S)) = Len(S) - 1 /\ Head(S) = S[1]
      /\ \A i \in 1 .. Len(Tail(S)) : Tail(S)[i] = S[i + 1]
  BY <1>1, <1>5, HeadTailProperties, EmptySeq
<1>7. Passed(p)' = Passed(p) + 1 /\ Passed(p) + 1 \in 1 .. Len(A)
  <2>1. Passed(p)' = Len(A) - (Len(S) - 1)
    BY <1>2, <1>3, <1>5, <1>6
  <2>2. Passed(p) = Len(A) - Len(S) /\ Len(A) \in Nat /\ Len(S) \in Nat /\ Len(S) >= 1
        /\ Len(S) <= Len(A)
    BY <1>1, <1>3, <1>6
  <2>3. Passed(p)' = Passed(p) + 1
    BY <2>1, <2>2
  <2>4. Passed(p) + 1 \in 1 .. Len(A)
    BY <2>2
  <2> QED
    BY <2>3, <2>4
<1>8. Head(S) = A[Passed(p) + 1]
  BY <1>1, <1>6
<1>9. \A i \in 1 .. Len(Tail(S)) : Tail(S)[i] = A[Passed(p)' + i]
  <2> SUFFICES ASSUME NEW i \in 1 .. Len(Tail(S)) PROVE Tail(S)[i] = A[Passed(p)' + i]
    OBVIOUS
  <2>1. Tail(S)[i] = S[i + 1] /\ i + 1 \in 1 .. Len(S)
    BY <1>1, <1>6
  <2>2. S[i + 1] = A[Passed(p) + (i + 1)]
    BY <1>1, <2>1
  <2>3. Passed(p) + (i + 1) = Passed(p)' + i
    BY <1>1, <1>7, <1>6
  <2> QED
    BY <2>1, <2>2, <2>3
<1> QED
  BY <1>1, <1>2, <1>4, <1>5, <1>6, <1>7, <1>8, <1>9 DEF S, A

LEMMA OfferingTyped ==
  ASSUME SourcesTyped
  PROVE  \A c : Offering(c) \subseteq 1 .. Len(StagesOf(sources))
                  /\ Offering(c) \subseteq Nat
<1>1. StagesOf(sources) \in Seq(Stage)
  BY StagesTyped DEF SourcesTyped
<1>2. DOMAIN StagesOf(sources) = 1 .. Len(StagesOf(sources))
  BY <1>1, LenProperties
<1> QED
  BY <1>2 DEF Offering

(* What one more stage adds.                                                *)
LEMMA NoneOffers ==
  ASSUME SourcesTyped, NEW c, NEW n \in Nat, LatestStored(table, c, n), n + 1 \notin Offering(c)
  PROVE  LatestStored(table, c, n + 1)
BY OfferingTyped DEF LatestStored

LEMMA OneMoreFetched ==
  ASSUME SourcesTyped, UNCHANGED sources, NEW n \in Nat, n + 1 \in 1 .. Len(StagesOf(sources)),
         \A d \in Range(CacheOf) : clone[d].url # Gone => clone'[d].url = clone[d].url,
         FetchedUpTo(StagesOf(sources), clone, n)
  PROVE  /\ LET s == StagesOf(sources)[n + 1] IN
              (s.type = "git" => clone'[CacheOf[s.name]].url # Gone)
                => FetchedUpTo(StagesOf(sources), clone', n + 1)
         /\ OwnUpTo(StagesOf(sources), clone', n + 1) =>
              OwnUpTo(StagesOf(sources), clone, n)
<1> DEFINE A == StagesOf(sources)
<1>1. A \in Seq(Stage) /\ Len(A) \in Nat
  BY StagesTyped, LenProperties DEF SourcesTyped
<1> HIDE DEF A
<1>2. \A i \in 1 .. n + 1 : A[i] \in Stage
  <2>1. n + 1 <= Len(A)
    BY DEF A
  <2> QED
    BY <1>1, <2>1
<1>3. \A i \in 1 .. n + 1 : A[i].type = "git" => CacheOf[A[i].name] \in Range(CacheOf)
  BY <1>2, PlacesTyped
<1>4. FetchedUpTo(A, clone, n)
  BY DEF A
<1>5. (A[n + 1].type = "git" => clone'[CacheOf[A[n + 1].name]].url # Gone)
        => FetchedUpTo(A, clone', n + 1)
  BY <1>3, <1>4 DEF FetchedUpTo
<1>6. OwnUpTo(A, clone', n + 1) => OwnUpTo(A, clone, n)
  BY <1>3, <1>4 DEF FetchedUpTo, OwnUpTo
<1> QED
  BY <1>5, <1>6 DEF A

(* The ways a stage ends.                                                   *)
LEMMA SkipTyped ==
  ASSUME SourcesInv, NEW p \in Refreshers, NEW failed \in BOOLEAN,
         refresh[p].stages # <<>>, Skip(p, failed)
  PROVE  /\ refresh' \in [Refreshers -> RefreshJob]
         /\ \A q \in Refreshers \ {p} : refresh'[q] = refresh[q]
         /\ refresh'[p].stages = Tail(refresh[p].stages)
         /\ refresh'[p].failed = (refresh[p].failed \/ failed)
         /\ refresh'[p].at = refresh[p].at /\ refresh'[p].found = refresh[p].found
         /\ refresh'[p].text = refresh[p].text /\ refresh'[p].from = refresh[p].from
         /\ refresh'[p].alone = refresh[p].alone
<1>1. refresh \in [Refreshers -> RefreshJob] /\ refresh[p] \in RefreshJob
  BY DEF SourcesInv, SourcesTyped
<1>2. Tail(refresh[p].stages) \in Seq(Stage)
  BY <1>1, HeadTailProperties DEF RefreshJob
<1>3. refresh' = [refresh EXCEPT ![p] =
                    [refresh[p] EXCEPT !.stages = Tail(refresh[p].stages),
                                       !.failed = refresh[p].failed \/ failed]]
  BY <1>1 DEF Skip
<1> DEFINE job == [refresh[p] EXCEPT !.stages = Tail(refresh[p].stages),
                                     !.failed = refresh[p].failed \/ failed]
<1>4. /\ job \in RefreshJob
      /\ job.stages = Tail(refresh[p].stages) /\ job.failed = (refresh[p].failed \/ failed)
      /\ job.at = refresh[p].at /\ job.found = refresh[p].found
      /\ job.text = refresh[p].text /\ job.from = refresh[p].from
      /\ job.alone = refresh[p].alone
  BY <1>1, <1>2 DEF RefreshJob
<1>5. refresh' = [refresh EXCEPT ![p] = job]
  BY <1>3
<1> HIDE DEF job
<1> QED
  BY <1>1, <1>4, <1>5

LEMMA FoundTyped ==
  ASSUME SourcesInv, NEW p \in Refreshers, NEW failed \in BOOLEAN, refresh[p].stages # <<>>,
         NEW t \in Trees \cup {Gone}, t # Gone, NEW items, items \subseteq Offers(t),
         NEW from \in Places, Found(p, t, items, from, failed)
  PROVE  /\ refresh' \in [Refreshers -> RefreshJob]
         /\ \A q \in Refreshers \ {p} : refresh'[q] = refresh[q]
         /\ refresh'[p].stages = Tail(refresh[p].stages)
         /\ refresh'[p].failed = (refresh[p].failed \/ failed)
         /\ refresh'[p].at = "store" /\ refresh'[p].found = items
         /\ refresh'[p].text = t.offers /\ refresh'[p].from = from
         /\ refresh'[p].alone = refresh[p].alone
<1>1. refresh \in [Refreshers -> RefreshJob] /\ refresh[p] \in RefreshJob
  BY DEF SourcesInv, SourcesTyped
<1>2. Tail(refresh[p].stages) \in Seq(Stage)
  BY <1>1, HeadTailProperties DEF RefreshJob
<1>3. t.offers \in [Offered -> Texts \cup {Gone}] /\ items \in SUBSET Offered
  BY OffersTyped
<1> DEFINE job == [refresh[p] EXCEPT !.at = "store", !.stages = Tail(refresh[p].stages),
                                     !.found = items, !.text = t.offers, !.from = from,
                                     !.failed = refresh[p].failed \/ failed]
<1>4. /\ job \in RefreshJob
      /\ job.stages = Tail(refresh[p].stages) /\ job.failed = (refresh[p].failed \/ failed)
      /\ job.at = "store" /\ job.found = items /\ job.text = t.offers /\ job.from = from
      /\ job.alone = refresh[p].alone
  BY <1>1, <1>2, <1>3 DEF RefreshJob
<1>5. refresh' = [refresh EXCEPT ![p] = job]
  BY <1>1 DEF Found
<1> HIDE DEF job
<1> QED
  BY <1>1, <1>4, <1>5

LEMMA AbortTyped ==
  ASSUME SourcesInv, NEW p \in Refreshers, Abort(p)
  PROVE  /\ refresh' \in [Refreshers -> RefreshJob]
         /\ \A q \in Refreshers \ {p} : refresh'[q] = refresh[q]
         /\ refresh'[p].stages = <<>> /\ refresh'[p].failed /\ refresh'[p].at = "done"
         /\ refresh'[p].alone = refresh[p].alone
<1>1. refresh \in [Refreshers -> RefreshJob] /\ refresh[p] \in RefreshJob
  BY DEF SourcesInv, SourcesTyped
<1> DEFINE job == [refresh[p] EXCEPT !.at = "done", !.stages = <<>>, !.failed = TRUE]
<1>2. /\ job \in RefreshJob /\ job.stages = <<>> /\ job.failed /\ job.at = "done"
      /\ job.alone = refresh[p].alone
  BY <1>1, EmptySeq DEF RefreshJob
<1>3. refresh' = [refresh EXCEPT ![p] = job]
  BY <1>1 DEF Abort
<1> HIDE DEF job
<1> QED
  BY <1>1, <1>2, <1>3

LEMMA SkipOK ==
  ASSUME SourcesInv, NEW p \in Refreshers, NEW failed \in BOOLEAN,
         refresh[p].at = "stages", refresh[p].stages # <<>>, Skip(p, failed),
         UNCHANGED <<tree, clone, table, sources>>,
         LET s == Head(refresh[p].stages) IN
           failed \/ (s.type # "git" /\ ~(Place(s) # Gone /\ Loads(tree[Place(s)])))
  PROVE  SourcesInv'
<1> DEFINE A == StagesOf(sources)
           n == Passed(p)
<1>1. SourcesTyped /\ SourcesTyped'
  BY SkipTyped DEF SourcesInv, SourcesTyped
<1>2. StepOf(p)
  BY <1>1, SkipTyped DEF StepOf
<1>3. ASSUME refresh'[p].alone
      PROVE  /\ StagesAhead(p)' /\ Passed(p)' = n + 1
             /\ refresh'[p].at # "done"
             /\ ~refresh'[p].failed =>
                  /\ FetchedUpTo(A, clone', n + 1)
                  /\ OwnUpTo(A, clone', n + 1) => RowsUpTo(refresh'[p], table', n + 1)
  <2>1. refresh[p].alone /\ refresh'[p].at = "stages"
        /\ refresh'[p].stages = Tail(refresh[p].stages)
        /\ refresh'[p].failed = (refresh[p].failed \/ failed)
    BY <1>3, SkipTyped
  <2>2. /\ StagesAhead(p)' /\ n \in Nat /\ Passed(p)' = n + 1 /\ n + 1 \in 1 .. Len(A)
        /\ Head(refresh[p].stages) = A[n + 1]
    BY <2>1, OneStage
  <2>3. ASSUME ~refresh'[p].failed
        PROVE  /\ FetchedUpTo(A, clone', n + 1)
               /\ OwnUpTo(A, clone', n + 1) => RowsUpTo(refresh'[p], table', n + 1)
    <3>1. ~refresh[p].failed /\ A[n + 1].type # "git"
          /\ ~(Place(A[n + 1]) # Gone /\ Loads(tree[Place(A[n + 1])]))
      BY <2>1, <2>2, <2>3
    <3>2. FetchedUpTo(A, clone, n) /\ (OwnUpTo(A, clone, n) => RowsUpTo(refresh[p], table, n))
      BY <2>1, <3>1, Known
    <3> HIDE DEF n
    <3>3. FetchedUpTo(A, clone', n + 1) /\ (OwnUpTo(A, clone', n + 1) => OwnUpTo(A, clone, n))
      BY <1>1, <2>2, <3>1, <3>2, OneMoreFetched
    <3>4. \A c : n + 1 \notin Offering(c)
      BY <3>1 DEF Offering
    <3>5. ASSUME RowsUpTo(refresh[p], table, n) PROVE RowsUpTo(refresh'[p], table', n + 1)
      <4>1. \A c \in Offered : LatestStored(table, c, n)
        BY <3>5 DEF RowsUpTo
      <4>2. \A c \in Offered : LatestStored(table, c, n + 1)
        BY <1>1, <2>2, <3>4, <4>1, NoneOffers
      <4> QED
        BY <2>1, <4>2 DEF RowsUpTo
    <3> QED
      BY <3>2, <3>3, <3>5
  <2> QED
    BY <2>1, <2>2, <2>3
<1> QED
  BY <1>2, <1>3, StepInv

LEMMA AbortOK ==
  ASSUME SourcesInv, NEW p \in Refreshers, refresh[p].at = "stages", Abort(p),
         UNCHANGED <<tree, table, sources>>, clone' \in [Range(CacheOf) -> CloneDir]
  PROVE  SourcesInv'
<1>1. SourcesTyped'
  BY AbortTyped DEF SourcesInv, SourcesTyped
<1>2. StepOf(p)
  BY <1>1, AbortTyped DEF StepOf
<1>3. StagesAhead(p)'
  <2>1. refresh'[p].stages = <<>> /\ StagesOf(sources)' = StagesOf(sources)
        /\ Len(StagesOf(sources)) \in Nat
    BY AbortTyped, SameStages, Known
  <2>2. /\ Len(refresh'[p].stages) <= Len(StagesOf(sources)')
        /\ \A i \in 1 .. Len(refresh'[p].stages) :
             refresh'[p].stages[i] = (StagesOf(sources)')[Passed(p)' + i]
    BY <2>1
  <2> QED
    BY <2>2 DEF StagesAhead
<1> QED
  BY <1>2, <1>3, AbortTyped, StepInv

LEMMA FoundOK ==
  ASSUME SourcesInv, NEW p \in Refreshers, NEW failed \in BOOLEAN,
         refresh[p].at = "stages", refresh[p].stages # <<>>,
         NEW t \in Trees \cup {Gone}, t # Gone, NEW items, items \subseteq Offers(t),
         NEW from \in Places, Found(p, t, items, from, failed),
         UNCHANGED <<tree, table, sources>>, clone' \in [Range(CacheOf) -> CloneDir],
         \A d \in Range(CacheOf) : clone[d].url # Gone => clone'[d].url = clone[d].url,
         LET s == Head(refresh[p].stages)
             clones == clone'
         IN  failed \/
               /\ s.type = "git" => clones[CacheOf[s.name]].url # Gone
               /\ (s.type = "git" => clones[CacheOf[s.name]].url = s.at) =>
                    Loads(t) /\ items = Offers(t) /\ from = Place(s) /\ t = tree[from]
  PROVE  SourcesInv'
<1> DEFINE A == StagesOf(sources)
           n == Passed(p)
<1>0. /\ refresh' \in [Refreshers -> RefreshJob]
      /\ \A q \in Refreshers \ {p} : refresh'[q] = refresh[q]
      /\ refresh'[p].stages = Tail(refresh[p].stages)
      /\ refresh'[p].failed = (refresh[p].failed \/ failed)
      /\ refresh'[p].at = "store" /\ refresh'[p].found = items
      /\ refresh'[p].text = t.offers /\ refresh'[p].from = from
      /\ refresh'[p].alone = refresh[p].alone
  BY FoundTyped
<1>1. SourcesTyped /\ SourcesTyped'
  BY <1>0 DEF SourcesInv, SourcesTyped
<1>2. StepOf(p)
  BY <1>0, <1>1 DEF StepOf
<1>3. ASSUME refresh'[p].alone
      PROVE  /\ StagesAhead(p)' /\ Passed(p)' = n + 1
             /\ refresh'[p].at # "done"
             /\ ~refresh'[p].failed =>
                  /\ FetchedUpTo(A, clone', n + 1)
                  /\ OwnUpTo(A, clone', n + 1) => RowsUpTo(refresh'[p], table', n + 1)
  <2>1. /\ refresh[p].alone /\ refresh'[p].at = "store" /\ refresh'[p].found = items
        /\ refresh'[p].stages = Tail(refresh[p].stages)
        /\ refresh'[p].failed = (refresh[p].failed \/ failed)
        /\ refresh'[p].text = t.offers /\ refresh'[p].from = from
    BY <1>0, <1>3
  <2>2. /\ StagesAhead(p)' /\ n \in Nat /\ Passed(p)' = n + 1 /\ n + 1 \in 1 .. Len(A)
        /\ Head(refresh[p].stages) = A[n + 1]
    BY <2>1, OneStage
  <2>3. ASSUME ~refresh'[p].failed
        PROVE  /\ FetchedUpTo(A, clone', n + 1)
               /\ OwnUpTo(A, clone', n + 1) => RowsUpTo(refresh'[p], table', n + 1)
    <3> DEFINE s == A[n + 1]
               clones == clone'
    <3>1. /\ ~refresh[p].failed
          /\ s.type = "git" => clones[CacheOf[s.name]].url # Gone
          /\ (s.type = "git" => clones[CacheOf[s.name]].url = s.at) =>
                Loads(t) /\ items = Offers(t) /\ from = Place(s) /\ t = tree[from]
      BY <2>1, <2>2, <2>3
    <3>2. FetchedUpTo(A, clone, n) /\ (OwnUpTo(A, clone, n) => RowsUpTo(refresh[p], table, n))
      BY <2>1, <3>1, Known
    <3> HIDE DEF n
    <3>3. FetchedUpTo(A, clones, n + 1) /\ (OwnUpTo(A, clones, n + 1) => OwnUpTo(A, clone, n))
      BY <1>1, <2>2, <3>1, <3>2, OneMoreFetched
    <3>4. OwnUpTo(A, clones, n + 1) =>
            Loads(t) /\ items = Offers(t) /\ from = Place(s) /\ t = tree[from]
      <4>1. n + 1 \in 1 .. n + 1
        <5>1. n \in Nat
          BY <2>2
        <5> QED
          BY <5>1
      <4>2. OwnUpTo(A, clones, n + 1) => (s.type = "git" => clones[CacheOf[s.name]].url = s.at)
        BY <4>1 DEF OwnUpTo
      <4> HIDE DEF A, s, clones
      <4> QED
        BY <3>1, <4>2
    <3>5. ASSUME OwnUpTo(A, clones, n + 1) PROVE RowsUpTo(refresh'[p], table', n + 1)
      <4>1. \A c \in Offered : LatestStored(table, c, n)
        BY <3>2, <3>3, <3>5 DEF RowsUpTo
      <4>2. items = Offers(tree[from]) /\ from = Place(s) /\ Loads(tree[from]) /\ from # Gone
            /\ t = tree[from]
        BY <3>4, <3>5, SourcesAssumption
      <4>3. n + 1 \in DOMAIN A
        BY <2>2, Known, LenProperties
      <4>4. \A c : n + 1 \in Offering(c) <=> c \in items
        BY <4>2, <4>3 DEF Offering
      <4>5. ASSUME NEW c \in items PROVE InHand(refresh'[p], c, n + 1)
        BY <2>1, <4>2, <4>4 DEF InHand, RowFrom
      <4>6. ASSUME NEW c \in Offered \ items PROVE LatestStored(table, c, n + 1)
        BY <1>1, <2>2, <4>1, <4>4, NoneOffers
      <4> QED
        BY <2>1, <4>5, <4>6 DEF RowsUpTo
    <3> QED
      BY <3>3, <3>5
  <2> QED
    BY <2>1, <2>2, <2>3
<1> QED
  BY <1>2, <1>3, StepInv

LEMMA ScanOK == ASSUME SourcesInv, NEW p \in Refreshers, Scan(p) PROVE SourcesInv'
<1> DEFINE s == Head(refresh[p].stages)
<1>1. /\ refresh[p].at = "stages" /\ refresh[p].stages # <<>>
      /\ s.type \in {"builtin", "project", "user"} /\ ScanDir(p, Place(s))
      /\ UNCHANGED <<tree, clone, table, sources>>
  BY DEF Scan
<1>2. s \in Stage
  BY <1>1, HeadTailProperties, Known
<1>3. Place(s) # Gone => Place(s) \in Places
  <2>1. ProjectDir # Gone => ProjectDir \in Places
    <3>1. ProjectDirs \in Seq(Range(ProjectDirs))
      BY SourcesAssumption
    <3>2. ASSUME Existing # {} PROVE \E i \in Existing : \A k \in Existing : i <= k
      <4>1. Existing \subseteq Nat
        BY <3>1 DEF Existing
      <4> QED
        BY <3>2, <4>1, LeastNatural
    <3>3. Existing \subseteq DOMAIN ProjectDirs
      BY DEF Existing
    <3>4. \A i \in DOMAIN ProjectDirs : ProjectDirs[i] \in Places
      BY DEF Places, Range
    <3> QED
      BY <3>2, <3>3, <3>4 DEF ProjectDir
  <2> QED
    BY <1>1, <1>2, <2>1, PlacesTyped DEF Place
<1> HIDE DEF s
<1>4. CASE Place(s) # Gone /\ Loads(tree[Place(s)])
  <2> DEFINE t == tree[Place(s)]
  <2>1. /\ Place(s) \in Places /\ t \in Trees \cup {Gone} /\ Loads(t) /\ t # Gone
        /\ clone' \in [Range(CacheOf) -> CloneDir]
    BY <1>1, <1>3, <1>4 DEF SourcesInv, SourcesTyped, Loads
  <2>2. Found(p, t, Offers(t), Place(s), FALSE)
    BY <1>1, <1>4 DEF ScanDir
  <2>3. s.type # "git"
    BY <1>1
  <2> HIDE DEF t
  <2> QED
    BY <1>1, <2>1, <2>2, <2>3, FoundOK DEF s, t
<1>5. CASE ~(Place(s) # Gone /\ Loads(tree[Place(s)]))
  <2>1. Skip(p, FALSE) /\ s.type # "git"
    BY <1>1, <1>5 DEF ScanDir
  <2> QED
    BY <1>1, <1>5, <2>1, SkipOK DEF s
<1> QED
  BY <1>4, <1>5

LEMMA ScanSourceOK ==
  ASSUME SourcesInv, NEW p \in Refreshers, ScanSource(p) PROVE SourcesInv'
<1> DEFINE s == Head(refresh[p].stages)
           t == tree[s.at]
<1>1. /\ refresh[p].at = "stages" /\ refresh[p].stages # <<>>
      /\ s.type \in {"catalog", "directory"}
      /\ UNCHANGED <<tree, clone, table, sources>>
      /\ \/ t = Gone /\ Skip(p, FALSE)
         \/ Loads(t) /\ Found(p, t, Offers(t), s.at, FALSE)
         \/ Abort(p)
         \/ t # Gone /\ \E some \in SUBSET Offers(t) : Found(p, t, some, s.at, TRUE)
  BY DEF ScanSource
<1>2. s \in Stage
  BY <1>1, HeadTailProperties, Known
<1>3. s.at \in Places /\ Place(s) = s.at /\ s.type # "git"
  BY <1>1, <1>2, PlacesTyped DEF Place
<1>4. t \in Trees \cup {Gone} /\ clone' \in [Range(CacheOf) -> CloneDir]
  BY <1>1, <1>3 DEF SourcesInv, SourcesTyped
<1>5. CASE t = Gone /\ Skip(p, FALSE)
  <2>1. ~Loads(t)
    BY <1>5 DEF Loads
  <2> QED
    BY <1>1, <1>3, <1>5, <2>1, SkipOK
<1>6. CASE Loads(t) /\ Found(p, t, Offers(t), s.at, FALSE)
  <2>1. t # Gone
    BY <1>6 DEF Loads
  <2> QED
    BY <1>1, <1>3, <1>4, <1>6, <2>1, FoundOK
<1>7. CASE Abort(p)
  BY <1>1, <1>4, <1>7, AbortOK
<1>8. ASSUME NEW some \in SUBSET Offers(t), t # Gone, Found(p, t, some, s.at, TRUE)
      PROVE  SourcesInv'
  BY <1>1, <1>3, <1>4, <1>8, FoundOK
<1> QED
  BY <1>1, <1>5, <1>6, <1>7, <1>8

LEMMA FetchSourceOK ==
  ASSUME SourcesInv, NEW p \in Refreshers, FetchSource(p) PROVE SourcesInv'
<1> DEFINE s == Head(refresh[p].stages)
           d == CacheOf[s.name]
           pulled == Pulled(d, s.at)
<1>1. /\ refresh[p].at = "stages" /\ refresh[p].stages # <<>> /\ s.type = "git"
      /\ UNCHANGED <<tree, table, sources>>
      /\ \/ Skip(p, TRUE) /\ UNCHANGED clone
         \/ /\ clone' = [clone EXCEPT ![d] = pulled]
            /\ \/ Loads(pulled.tree) /\ Found(p, pulled.tree, Offers(pulled.tree), s.at, FALSE)
               \/ Abort(p)
  BY DEF FetchSource
<1>2. s \in Stage
  BY <1>1, HeadTailProperties, Known
<1>3. s.at \in Places /\ Place(s) = s.at /\ s.at \in Urls /\ d \in Range(CacheOf)
  BY <1>1, <1>2, PlacesTyped DEF Place
<1>4. clone \in [Range(CacheOf) -> CloneDir]
  BY DEF SourcesInv, SourcesTyped
<1>5. /\ pulled \in CloneDir /\ pulled.url # Gone /\ pulled.tree = tree[pulled.url]
      /\ clone[d].url # Gone => pulled.url = clone[d].url
      /\ pulled.tree \in Trees \cup {Gone}
  <2>1. SourcesTyped
    BY DEF SourcesInv
  <2>2. /\ pulled \in CloneDir /\ pulled.url # Gone /\ pulled.tree = tree[pulled.url]
        /\ clone[d].url # Gone => pulled.url = clone[d].url
    BY <1>3, <2>1, PulledTyped
  <2> HIDE DEF pulled
  <2> QED
    BY <2>2 DEF CloneDir
<1>6. CASE Skip(p, TRUE) /\ UNCHANGED clone
  BY <1>1, <1>6, SkipOK
<1> HIDE DEF d, pulled
<1>7. ASSUME clone' = [clone EXCEPT ![d] = pulled]
      PROVE  /\ clone' \in [Range(CacheOf) -> CloneDir] /\ clone'[d] = pulled
             /\ \A e \in Range(CacheOf) : clone[e].url # Gone => clone'[e].url = clone[e].url
  <2>1. pulled \in CloneDir /\ d \in Range(CacheOf)
    BY <1>3, <1>5
  <2>2. /\ clone' \in [Range(CacheOf) -> CloneDir] /\ clone'[d] = pulled
        /\ \A e \in Range(CacheOf) \ {d} : clone'[e] = clone[e]
    BY <1>4, <1>7, <2>1
  <2> QED
    BY <1>5, <2>2
<1>8. CASE clone' = [clone EXCEPT ![d] = pulled] /\ Abort(p)
  BY <1>1, <1>7, <1>8, AbortOK
<1>9. CASE /\ clone' = [clone EXCEPT ![d] = pulled] /\ Loads(pulled.tree)
           /\ Found(p, pulled.tree, Offers(pulled.tree), s.at, FALSE)
  <2> DEFINE t == pulled.tree
             clones == clone'
  <2>1. /\ t \in Trees \cup {Gone} /\ Loads(t) /\ t # Gone
        /\ Found(p, t, Offers(t), s.at, FALSE)
    BY <1>5, <1>9 DEF Loads
  <2>2. /\ clones[CacheOf[s.name]].url # Gone
        /\ clones[CacheOf[s.name]].url = s.at => t = tree[s.at]
    <3>1. clones[d] = pulled
      BY <1>7, <1>9
    <3>2. t = tree[pulled.url] /\ pulled.url # Gone
      BY <1>5
    <3> HIDE DEF clones, t, s
    <3> QED
      BY <3>1, <3>2 DEF d
  <2> HIDE DEF t, s
  <2>3. s.at = Place(s)
    BY <1>3
  <2> QED
    BY <1>1, <1>3, <1>7, <1>9, <2>1, <2>2, <2>3, FoundOK DEF s
<1> QED
  BY <1>1, <1>6, <1>8, <1>9

LEMMA StoreFoundOK ==
  ASSUME SourcesInv, NEW p \in Refreshers, StoreFound(p) PROVE SourcesInv'
<1> DEFINE A == StagesOf(sources)
           n == Passed(p)
<1>1. PICK c \in refresh[p].found :
        \/ /\ table' = [table EXCEPT ![c] = [text |-> refresh[p].text[c], from |-> refresh[p].from]]
           /\ refresh' = [refresh EXCEPT ![p].found = @ \ {c}]
        \/ /\ UNCHANGED table
           /\ refresh' = [refresh EXCEPT ![p].found = @ \ {c}, ![p].failed = TRUE]
  BY DEF StoreFound
<1>2. refresh[p].at = "store" /\ UNCHANGED <<tree, clone, sources>>
  BY DEF StoreFound
<1>3. refresh \in [Refreshers -> RefreshJob] /\ refresh[p] \in RefreshJob
  BY DEF SourcesInv, SourcesTyped
<1>4. c \in Offered /\ refresh[p].found \ {c} \in SUBSET Offered
  BY <1>3 DEF RefreshJob
<1>5. PICK failed \in BOOLEAN :
        /\ refresh' = [refresh EXCEPT ![p] = [refresh[p] EXCEPT !.found = refresh[p].found \ {c},
                                                                !.failed = failed]]
        /\ ~failed => /\ ~refresh[p].failed
                      /\ table' = [table EXCEPT ![c] = [text |-> refresh[p].text[c],
                                                        from |-> refresh[p].from]]
        /\ DOMAIN table' = DOMAIN table
  <2>1. ASSUME table' = [table EXCEPT ![c] = [text |-> refresh[p].text[c],
                                              from |-> refresh[p].from]],
               refresh' = [refresh EXCEPT ![p].found = @ \ {c}]
        PROVE  /\ refresh' = [refresh EXCEPT ![p] =
                     [refresh[p] EXCEPT !.found = refresh[p].found \ {c},
                                        !.failed = refresh[p].failed]]
               /\ DOMAIN table' = DOMAIN table
    <3>1. [refresh[p] EXCEPT !.found = refresh[p].found \ {c}]
            = [refresh[p] EXCEPT !.found = refresh[p].found \ {c}, !.failed = refresh[p].failed]
      BY <1>3 DEF RefreshJob
    <3> QED
      BY <1>3, <2>1, <3>1
  <2>2. refresh[p].failed \in BOOLEAN
    BY <1>3 DEF RefreshJob
  <2>3. ASSUME UNCHANGED table,
               refresh' = [refresh EXCEPT ![p].found = @ \ {c}, ![p].failed = TRUE]
        PROVE  refresh' = [refresh EXCEPT ![p] =
                     [refresh[p] EXCEPT !.found = refresh[p].found \ {c}, !.failed = TRUE]]
    BY <1>3, <2>3
  <2> QED
    BY <1>1, <2>1, <2>2, <2>3
<1> DEFINE job == [refresh[p] EXCEPT !.found = refresh[p].found \ {c}, !.failed = failed]
<1>6. /\ job \in RefreshJob /\ job.found = refresh[p].found \ {c} /\ job.failed = failed
      /\ job.at = "store" /\ job.stages = refresh[p].stages /\ job.text = refresh[p].text
      /\ job.from = refresh[p].from /\ job.alone = refresh[p].alone
  BY <1>2, <1>3, <1>4 DEF RefreshJob
<1>7. refresh' = [refresh EXCEPT ![p] = job]
  BY <1>5
<1> HIDE DEF job
<1>8. /\ refresh' \in [Refreshers -> RefreshJob] /\ refresh'[p] = job
      /\ \A q \in Refreshers \ {p} : refresh'[q] = refresh[q]
  BY <1>3, <1>6, <1>7
<1>9. SourcesTyped' /\ StepOf(p)
  <2>1. SourcesTyped'
    BY <1>2, <1>5, <1>8 DEF SourcesInv, SourcesTyped
  <2> QED
    BY <1>2, <1>6, <1>8, <2>1 DEF StepOf
<1>10. Passed(p)' = n /\ (StagesAhead(p) => StagesAhead(p)')
  BY <1>2, <1>6, <1>8, SameStages DEF Passed, StagesAhead
<1>11. ASSUME job.alone, ~job.failed
       PROVE  /\ FetchedUpTo(A, clone', n)
              /\ OwnUpTo(A, clone', n) => RowsUpTo(job, table', n)
  <2>1. /\ ~refresh[p].failed /\ refresh[p].alone
        /\ table' = [table EXCEPT ![c] = [text |-> refresh[p].text[c], from |-> refresh[p].from]]
    BY <1>5, <1>6, <1>11
  <2>2. /\ FetchedUpTo(A, clone', n) /\ n \in Nat
        /\ OwnUpTo(A, clone', n) => RowsUpTo(refresh[p], table, n)
    BY <1>2, <2>1, Known
  <2>3. DOMAIN table = Offered /\ SourcesTyped
    BY DEF SourcesInv, SourcesTyped
  <2> HIDE DEF n, A
  <2>4. ASSUME RowsUpTo(refresh[p], table, n) PROVE RowsUpTo(job, table', n)
    <3>1. LatestStored(table', c, n)
      <4>1. n \in Offering(c) /\ table'[c] = RowFrom(c, n)
        BY <1>2, <1>4, <2>1, <2>3, <2>4 DEF RowsUpTo, InHand
      <4>2. Offering(c) \subseteq Nat
        BY <2>3, OfferingTyped
      <4> QED
        BY <2>2, <4>1, <4>2 DEF LatestStored
    <3>2. ASSUME NEW e \in Offered \ {c}
          PROVE  IF e \in job.found THEN InHand(job, e, n) ELSE LatestStored(table', e, n)
      <4>1. table'[e] = table[e] /\ (e \in job.found <=> e \in refresh[p].found)
        BY <1>6, <2>1, <2>3
      <4>2. IF e \in refresh[p].found THEN InHand(refresh[p], e, n)
                                      ELSE LatestStored(table, e, n)
        BY <1>2, <2>4 DEF RowsUpTo
      <4> QED
        BY <1>6, <4>1, <4>2 DEF InHand, LatestStored
    <3> QED
      BY <1>6, <3>1, <3>2 DEF RowsUpTo
  <2> QED
    BY <2>2, <2>4
<1>12. StagesAhead(p)' \/ ~job.alone
  BY <1>6, <1>10, Known
<1> QED
  BY <1>6, <1>8, <1>9, <1>10, <1>11, <1>12, StepInv

LEMMA NextStageOK ==
  ASSUME SourcesInv, NEW p \in Refreshers, NextStage(p) PROVE SourcesInv'
<1> DEFINE A == StagesOf(sources)
           n == Passed(p)
           at == IF refresh[p].stages = <<>> THEN "done" ELSE "stages"
           job == [refresh[p] EXCEPT !.at = at, !.found = {}, !.text = <<>>, !.from = Gone]
<1>1. /\ refresh[p].at \in {"stages", "store"} /\ UNCHANGED <<tree, clone, table, sources>>
      /\ refresh[p].at = "store" => refresh[p].found = {}
  BY DEF NextStage
<1>2. refresh \in [Refreshers -> RefreshJob] /\ refresh[p] \in RefreshJob
  BY DEF SourcesInv, SourcesTyped
<1>3. refresh' = [refresh EXCEPT ![p] = job]
  BY <1>2 DEF NextStage
<1>4. /\ job \in RefreshJob /\ job.found = {} /\ job.failed = refresh[p].failed
      /\ job.at \in {"stages", "done"}
      /\ job.at = "done" => job.stages = <<>>
      /\ job.stages = refresh[p].stages /\ job.alone = refresh[p].alone
  BY <1>2 DEF RefreshJob
<1> HIDE DEF job
<1>5. /\ refresh' \in [Refreshers -> RefreshJob] /\ refresh'[p] = job
      /\ \A q \in Refreshers \ {p} : refresh'[q] = refresh[q]
  BY <1>2, <1>3, <1>4
<1>6. SourcesTyped' /\ StepOf(p)
  <2>1. SourcesTyped'
    BY <1>1, <1>5 DEF SourcesInv, SourcesTyped
  <2>2. refresh'[p].alone = refresh[p].alone /\ refresh'[p].at # "idle"
    BY <1>4, <1>5
  <2> QED
    BY <1>1, <1>5, <2>1, <2>2 DEF StepOf
<1>7. Passed(p)' = n /\ (StagesAhead(p) => StagesAhead(p)')
  BY <1>1, <1>4, <1>5, SameStages DEF Passed, StagesAhead
<1>8. ASSUME job.alone, ~job.failed
      PROVE  /\ FetchedUpTo(A, clone', n)
             /\ OwnUpTo(A, clone', n) => RowsUpTo(job, table', n)
  <2>1. /\ FetchedUpTo(A, clone, n)
        /\ OwnUpTo(A, clone, n) => RowsUpTo(refresh[p], table, n)
    BY <1>4, <1>8, Known
  <2>2. RowsUpTo(refresh[p], table, n) => RowsUpTo(job, table, n)
    BY <1>1, <1>4 DEF RowsUpTo
  <2> QED
    BY <1>1, <2>1, <2>2
<1>9. StagesAhead(p)' \/ ~job.alone
  BY <1>4, <1>7, Known
<1> QED
  BY <1>4, <1>5, <1>6, <1>7, <1>8, <1>9, StepInv

LEMMA KillRefreshOK ==
  ASSUME SourcesInv, NEW p \in Refreshers, KillRefresh(p) PROVE SourcesInv'
<1>1. /\ refresh[p].at \in {"stages", "store"} /\ UNCHANGED <<tree, clone, table, sources>>
      /\ refresh' = [refresh EXCEPT ![p] = Resting]
  <2>1. refresh[p] \in RefreshJob
    BY Known
  <2> QED
    BY <2>1 DEF KillRefresh, Refreshing, RefreshJob
<1>2. Resting \in RefreshJob /\ ~Resting.alone
  BY EmptySeq DEF Resting, RefreshJob
<1>3. /\ refresh' \in [Refreshers -> RefreshJob] /\ refresh'[p] = Resting
      /\ \A q \in Refreshers \ {p} : refresh'[q] = refresh[q]
  BY <1>1, <1>2 DEF SourcesInv, SourcesTyped
<1>4. SourcesTyped'
  BY <1>1, <1>3 DEF SourcesInv, SourcesTyped
<1>5. StepOf(p)
  BY <1>1, <1>2, <1>3, <1>4 DEF StepOf
<1> QED
  BY <1>2, <1>3, <1>5, StepInv

(* A refresh begins: it has passed nothing yet.                             *)
LEMMA BeginsOK ==
  ASSUME SourcesInv, NEW p \in Refreshers, RefreshWith(p, sources'),
         sources' \in Seq(Added \cup ByHand)
  PROVE  SourcesInv'
<1> DEFINE undisturbed == (Refreshing = {})
           job == [Resting EXCEPT !.at = "stages", !.alone = undisturbed,
                                  !.stages = StagesOf(sources')]
<1>1. /\ refresh[p].at \in {"idle", "done"} /\ UNCHANGED <<tree, clone, table>>
      /\ refresh' = [q \in Refreshers |-> IF q = p THEN job
                                          ELSE [refresh[q] EXCEPT !.alone = FALSE]]
  BY DEF RefreshWith
<1>2. StagesOf(sources') \in Seq(Stage) /\ Len(StagesOf(sources')) \in Nat
  BY StagesTyped, LenProperties
<1>3. /\ job \in RefreshJob /\ job.stages = StagesOf(sources') /\ job.at = "stages"
      /\ job.alone = undisturbed
  BY <1>2 DEF Resting, RefreshJob
<1> HIDE DEF job
<1>4. ASSUME NEW q \in Refreshers \ {p}
      PROVE  refresh'[q] \in RefreshJob /\ ~refresh'[q].alone /\ refresh'[q].at = refresh[q].at
  <2>1. refresh[q] \in RefreshJob /\ refresh'[q] = [refresh[q] EXCEPT !.alone = FALSE]
    BY <1>1 DEF SourcesInv, SourcesTyped
  <2> QED
    BY <2>1 DEF RefreshJob
<1>5. refresh'[p] = job
  BY <1>1
<1>6. refresh' \in [Refreshers -> RefreshJob]
  <2>1. DOMAIN refresh' = Refreshers /\ refresh' = [q \in Refreshers |-> refresh'[q]]
    BY <1>1
  <2>2. \A q \in Refreshers : refresh'[q] \in RefreshJob
    BY <1>3, <1>4, <1>5
  <2> QED
    BY <2>1, <2>2
<1>7. SourcesTyped'
  BY <1>1, <1>6 DEF SourcesInv, SourcesTyped
<1>8. ASSUME undisturbed PROVE RefreshOf(p)'
  <2>1. Refreshing' \subseteq {p}
    BY <1>4, <1>8 DEF Refreshing
  <2>2. Passed(p)' = 0
    BY <1>2, <1>3, <1>5 DEF Passed
  <2>3. StagesAhead(p)'
    <3>1. \A i \in 1 .. Len(StagesOf(sources')) : 0 + i = i
      BY <1>2
    <3>2. StagesOf(sources)' = StagesOf(sources')
      BY DEF StagesOf
    <3> QED
      BY <1>2, <1>3, <1>5, <2>2, <3>1, <3>2 DEF StagesAhead
  <2>4. FetchedUpTo(StagesOf(sources), clone, Passed(p))'
    BY <2>2 DEF FetchedUpTo
  <2>5. RowsUpTo(refresh[p], table, Passed(p))'
    <3>1. StagesOf(sources)' = StagesOf(sources')
      BY DEF StagesOf
    <3>2. \A c : Offering(c)' \subseteq Nat \ {0}
      <4>1. DOMAIN StagesOf(sources') = 1 .. Len(StagesOf(sources'))
        BY <1>2, LenProperties
      <4>2. \A c : Offering(c)' \subseteq DOMAIN StagesOf(sources')
        BY <3>1 DEF Offering
      <4> QED
        BY <1>2, <4>1, <4>2
    <3>3. \A c : LatestStored(table, c, Passed(p))'
      BY <2>2, <3>2 DEF LatestStored
    <3> QED
      BY <1>3, <1>5, <3>3 DEF RowsUpTo
  <2> QED
    BY <1>3, <1>5, <2>1, <2>3, <2>4, <2>5 DEF RefreshOf
<1>9. ASSUME ~undisturbed PROVE RefreshOf(p)'
  BY <1>3, <1>5, <1>9 DEF RefreshOf
<1>10. \A q \in Refreshers \ {p} : RefreshOf(q)'
  BY <1>4 DEF RefreshOf
<1> QED
  BY <1>7, <1>8, <1>9, <1>10 DEF SourcesInv

LEMMA RefreshAllOK ==
  ASSUME SourcesInv, NEW p \in Refreshers, RefreshAll(p) PROVE SourcesInv'
<1>1. RefreshWith(p, sources') /\ sources' \in Seq(Added \cup ByHand)
  BY DEF RefreshAll, SourcesInv, SourcesTyped
<1> QED
  BY <1>1, BeginsOK

LEMMA SourceAddOK ==
  ASSUME SourcesInv, NEW p \in Refreshers, SourceAdd(p) PROVE SourcesInv'
<1>1. PICK s \in Added : sources' = Add(s) /\ RefreshWith(p, sources')
  BY DEF SourceAdd
<1>2. sources' \in Seq(Added \cup ByHand)
  BY <1>1, AddTyped DEF SourcesInv
<1> QED
  BY <1>1, <1>2, BeginsOK

LEMMA EditTreeOK == ASSUME SourcesInv, EditTree PROVE SourcesInv'
<1>1. PICK place \in Places, t \in EditedTrees : tree' = [tree EXCEPT ![place] = t]
  BY DEF EditTree
<1>2. tree' \in [Places -> Trees \cup {Gone}]
  BY <1>1, SourcesAssumption DEF SourcesInv, SourcesTyped
<1>3. /\ refresh' \in [Refreshers -> RefreshJob] /\ \A p \in Refreshers : ~refresh'[p].alone
  BY Disturbed DEF EditTree, SourcesInv
<1> QED
  BY <1>2, <1>3, NobodyAlone DEF EditTree, SourcesInv, SourcesTyped

LEMMA WriteSourceOK == ASSUME SourcesInv, WriteSource PROVE SourcesInv'
<1>1. sources' \in Seq(Added \cup ByHand)
  BY AddTyped DEF WriteSource, SourcesInv
<1>2. /\ refresh' \in [Refreshers -> RefreshJob] /\ \A p \in Refreshers : ~refresh'[p].alone
  BY Disturbed DEF WriteSource, SourcesInv
<1> QED
  BY <1>1, <1>2, NobodyAlone DEF WriteSource, SourcesInv, SourcesTyped

LEMMA SourceRemoveOK == ASSUME SourcesInv, SourceRemove PROVE SourcesInv'
<1>1. sources' \in Seq(Added \cup ByHand)
  BY RemoveTyped DEF SourceRemove, SourcesInv
<1>2. /\ refresh' \in [Refreshers -> RefreshJob] /\ \A p \in Refreshers : ~refresh'[p].alone
  BY Disturbed DEF SourceRemove, SourcesInv
<1> QED
  BY <1>1, <1>2, NobodyAlone DEF SourceRemove, SourcesInv, SourcesTyped

LEMMA InstallUrlOK == ASSUME SourcesInv, InstallUrl PROVE SourcesInv'
<1>1. PICK u \in Urls : /\ clone' = [clone EXCEPT ![CacheOf[u]] = Pulled(CacheOf[u], u)]
                        /\ DOMAIN table' = Offered
  <2>1. PICK u \in Urls :
          LET pulled == Pulled(CacheOf[u], u) IN
          /\ clone' = [clone EXCEPT ![CacheOf[u]] = pulled]
          /\ IF Loads(pulled.tree)
             THEN \E c \in Offers(pulled.tree) :
                    table' = [table EXCEPT ![c] = [text |-> pulled.tree.offers[c], from |-> u]]
             ELSE UNCHANGED table
    BY DEF InstallUrl
  <2>2. DOMAIN table' = Offered
    BY <2>1 DEF SourcesInv, SourcesTyped
  <2> QED
    BY <2>1, <2>2
<1>2. CacheOf[u] \in Range(CacheOf)
  BY SourcesAssumption DEF Range
<1>3. Pulled(CacheOf[u], u) \in CloneDir
  BY <1>2, PulledTyped DEF SourcesInv
<1>4. clone' \in [Range(CacheOf) -> CloneDir]
  BY <1>1, <1>2, <1>3 DEF SourcesInv, SourcesTyped
<1>5. /\ refresh' \in [Refreshers -> RefreshJob] /\ \A p \in Refreshers : ~refresh'[p].alone
  BY Disturbed DEF InstallUrl, SourcesInv
<1> QED
  BY <1>1, <1>4, <1>5, NobodyAlone DEF InstallUrl, SourcesInv, SourcesTyped

LEMMA SourcesInitOK == SourcesInit => SourcesInv
<1> SUFFICES ASSUME SourcesInit PROVE SourcesInv
  OBVIOUS
<1>1. Resting \in RefreshJob /\ ~Resting.alone
  BY EmptySeq DEF Resting, RefreshJob
<1>2. [d \in Range(CacheOf) |-> [url |-> Gone, tree |-> Gone]] \in [Range(CacheOf) -> CloneDir]
  BY DEF CloneDir
<1>3. sources \in Seq(Added \cup ByHand)
  BY EmptySeq DEF SourcesInit
<1>4. refresh = [p \in Refreshers |-> Resting]
  BY DEF SourcesInit
<1>5. SourcesTyped
  BY <1>1, <1>2, <1>3, <1>4, SourcesAssumption DEF SourcesInit, SourcesTyped
<1> QED
  BY <1>1, <1>4, <1>5 DEF SourcesInv, RefreshOf

LEMMA SourcesStutterOK == SourcesInv /\ UNCHANGED sourcesVars => SourcesInv'
<1> SUFFICES ASSUME SourcesInv, UNCHANGED sourcesVars PROVE SourcesInv'
  OBVIOUS
<1>1. UNCHANGED <<tree, clone, table, sources, refresh>>
  BY DEF sourcesVars
<1>2. SourcesTyped'
  BY <1>1 DEF SourcesInv, SourcesTyped
<1>3. ASSUME NEW p \in Refreshers PROVE RefreshOf(p)'
  <2>1. RefreshOf(p)
    BY DEF SourcesInv
  <2>2. StagesOf(sources)' = StagesOf(sources) /\ Passed(p)' = Passed(p)
        /\ Refreshing' = Refreshing
    BY <1>1, SameStages DEF Passed, Refreshing
  <2>3. StagesAhead(p)' <=> StagesAhead(p)
    BY <1>1, <2>2 DEF StagesAhead
  <2>4. /\ FetchedUpTo(StagesOf(sources), clone, Passed(p))'
             <=> FetchedUpTo(StagesOf(sources), clone, Passed(p))
        /\ OwnUpTo(StagesOf(sources), clone, Passed(p))'
             <=> OwnUpTo(StagesOf(sources), clone, Passed(p))
    BY <1>1, <2>2 DEF FetchedUpTo, OwnUpTo
  <2>5. RowsUpTo(refresh[p], table, Passed(p))' <=> RowsUpTo(refresh[p], table, Passed(p))
    BY <1>1, <2>2, SameStages DEF RowsUpTo, InHand, LatestStored
  <2> QED
    BY <1>1, <2>1, <2>2, <2>3, <2>4, <2>5 DEF RefreshOf
<1> QED
  BY <1>2, <1>3 DEF SourcesInv

LEMMA SourcesStepOK == SourcesInv /\ [SourcesNext]_sourcesVars => SourcesInv'
<1> SUFFICES ASSUME SourcesInv, [SourcesNext]_sourcesVars PROVE SourcesInv'
  OBVIOUS
<1>1. CASE EditTree \/ WriteSource \/ SourceRemove \/ InstallUrl
  BY <1>1, EditTreeOK, WriteSourceOK, SourceRemoveOK, InstallUrlOK
<1>2. ASSUME NEW p \in Refreshers,
             RefreshAll(p) \/ SourceAdd(p) \/ KillRefresh(p) \/ Scan(p) \/ ScanSource(p)
               \/ FetchSource(p) \/ StoreFound(p) \/ NextStage(p)
      PROVE  SourcesInv'
  BY <1>2, RefreshAllOK, SourceAddOK, KillRefreshOK, ScanOK, ScanSourceOK, FetchSourceOK,
     StoreFoundOK, NextStageOK
<1>3. CASE UNCHANGED sourcesVars
  BY <1>3, SourcesStutterOK
<1> QED
  BY <1>1, <1>2, <1>3 DEF SourcesNext

(* At the end all stages have been passed, and one of those that offer a    *)
(* capability is the last.                                                  *)
LEMMA LatestAtTheEnd == SourcesInv => RefreshedIsLatest
<1> SUFFICES ASSUME SourcesInv, NEW p \in Refreshers, refresh[p].at = "done",
                    refresh[p].alone, ~refresh[p].failed, OwnClones,
                    NEW c \in Offered, Offering(c) # {}
             PROVE  \E i \in Offering(c) :
                      LET place == Place(StagesOf(sources)[i]) IN
                      /\ \A k \in Offering(c) : k <= i
                      /\ table[c] = [text |-> tree[place].offers[c], from |-> place]
  BY DEF RefreshedIsLatest
<1> DEFINE A == StagesOf(sources)
           N == Len(StagesOf(sources))
<1>1. SourcesTyped
  BY DEF SourcesInv
<1>2. N \in Nat /\ Offering(c) \subseteq 1 .. N
  BY <1>1, Known, OfferingTyped
<1>3. Passed(p) = N
  <2>1. refresh[p].stages = <<>>
    BY DEF SourcesInv, RefreshOf
  <2> QED
    BY <1>2, <2>1 DEF Passed
<1>4. OwnUpTo(A, clone, N)
  <2> DEFINE first == 2 + Len(UserDirs)
  <2>1. sources \in Seq(Added \cup ByHand) /\ DOMAIN sources = 1 .. Len(sources)
    BY <1>1, LenProperties DEF SourcesTyped
  <2>2. \A i \in 1 .. N : A[i].type = "git" =>
          i - first \in DOMAIN sources /\ A[i] = sources[i - first]
    BY <2>1, StagesTyped
  <2> HIDE DEF A, N, first
  <2> QED
    BY <2>2 DEF OwnUpTo, OwnClones
<1>5. LatestStored(table, c, N)
  BY <1>3, <1>4, Known DEF RowsUpTo
<1> HIDE DEF N
<1>6. PICK i \in Offering(c) : \A k \in Offering(c) : k <= i
  <2> DEFINE Below == {N - k : k \in Offering(c)}
  <2>1. Below \subseteq Nat /\ Below # {}
    BY <1>2
  <2>2. PICK b \in Below : \A k \in Below : b <= k
    BY <2>1, LeastNatural
  <2>3. PICK i \in Offering(c) : b = N - i
    BY <2>2
  <2>4. ASSUME NEW k \in Offering(c) PROVE k <= i
    <3>1. N - i <= N - k
      BY <2>2, <2>3
    <3>2. N \in Nat /\ i \in Nat /\ k \in Nat
      BY <1>2
    <3> QED
      BY <3>1, <3>2
  <2> QED
    BY <2>4
<1>7. i <= N /\ table[c] = RowFrom(c, i)
  BY <1>2, <1>5, <1>6 DEF LatestStored
<1> QED
  BY <1>6, <1>7 DEF RowFrom

(* Whatever the places, the processes and the edits are, a refresh that     *)
(* nothing disturbs and that reports no failure leaves each capability with *)
(* the row of the last place that offers it (registry/indexer.ts:24-150).   *)
THEOREM RefreshKeepsTheLast == SourcesSpec => []RefreshedIsLatest
<1>1. SourcesInit => SourcesInv
  BY SourcesInitOK
<1>2. SourcesInv /\ [SourcesNext]_sourcesVars => SourcesInv'
  BY SourcesStepOK
<1>3. SourcesInv => RefreshedIsLatest
  BY LatestAtTheEnd
<1> QED
  BY <1>1, <1>2, <1>3, PTL DEF SourcesSpec
===============================================================================
