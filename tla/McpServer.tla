------------------------------ MODULE McpServer ------------------------------
(***************************************************************************)
(* The MCP server: JSON-RPC messages come in one per line and are handled   *)
(* concurrently; when the input ends, the server waits for what is in       *)
(* flight, closes the storage and returns.                                  *)
(*                         mcp/server.ts, cli/commands/serve.ts             *)
(* A call of route_task collects context from a list of providers, one      *)
(* after the other, each under a timeout; a provider that is too late goes  *)
(* on running and what it returns is dropped.      context/collect.ts       *)
(***************************************************************************)
EXTENDS Naturals, Sequences, FiniteSets

CONSTANTS Messages,      \* the lines a client may send
          NumProviders,  \* how many context providers there are (0 if disabled)
          Hanging        \* the providers that never return

ASSUME ServerAssumption == /\ NumProviders \in Nat
                           /\ Hanging \subseteq 1..NumProviders

VARIABLES stdin,     \* "open", or "closed" once readline has closed
          handler,   \* handler[n]: the handling of line n
          inflight,  \* the set `inflight`
          answers,   \* answers[n]: how many lines were written in answer to n
          main,      \* where startMcpStdioServer is
          batch      \* what its Promise.all waits for

serverVars == <<stdin, handler, inflight, answers, main, batch>>

(* Not JSON; JSON without a method, or a notification nobody listens to;     *)
(* initialize; what is answered without a wait, errors too; a route_task.    *)
MessageKinds == {"blank", "garbage", "nothing", "initialize", "quick", "route"}

Results == {"ok", "failed", "timedOut"}

Handlers == [kind : MessageKinds, id : BOOLEAN,
             pc : {"unread", "reading", "collecting", "ranking", "answering",
                   "settling", "done"},
             timeline : Seq(Results),     \* how each provider ended, so far
             pending : SUBSET (1..NumProviders)]     \* the providers still running

Unread == [kind |-> "blank", id |-> FALSE, pc |-> "unread",
           timeline |-> <<>>, pending |-> {}]

(* A message without an id is not answered, but for initialize.              *)
Replies(n) == \/ handler[n].kind \in {"garbage", "initialize"}
              \/ handler[n].kind \in {"quick", "route"} /\ handler[n].id

ServerInit == /\ stdin = "open"
              /\ handler = [n \in Messages |-> Unread]
              /\ inflight = {}
              /\ answers = [n \in Messages |-> 0]
              /\ main = "listening"
              /\ batch = {}

Proceed(n, label) == handler' = [handler EXCEPT ![n].pc = label]

-----------------------------------------------------------------------------
(* One line event.  The handler runs in it up to its first await.            *)
Line(n) ==
    /\ stdin = "open" /\ handler[n].pc = "unread"
    /\ \E k \in MessageKinds, i \in BOOLEAN :
         LET at == CASE k \in {"blank", "garbage"} -> "done"
                     [] k = "route"                -> "reading"
                     [] OTHER                      -> "answering"
         IN /\ handler' = [handler EXCEPT ![n] = [Unread EXCEPT !.kind = k, !.id = i, !.pc = at]]
            /\ inflight' = IF at = "done" THEN inflight ELSE inflight \cup {n}
            /\ answers' = IF k = "garbage" THEN [answers EXCEPT ![n] = @ + 1] ELSE answers
    /\ UNCHANGED <<stdin, main, batch>>

(* readline closes after the last line.                                      *)
Close == /\ stdin = "open"
         /\ stdin' = "closed"
         /\ UNCHANGED <<handler, inflight, answers, main, batch>>

-----------------------------------------------------------------------------
(* buildRouteContext.  Where a provider has ended, the next one starts.      *)
Current(n) == Len(handler[n].timeline) + 1

Starting(t) == LET k == Len(t.timeline) + 1 IN
    IF k > NumProviders THEN [t EXCEPT !.pc = "ranking"]
                        ELSE [t EXCEPT !.pc = "collecting", !.pending = @ \cup {k}]

(* The reads before the context, of the storage and of the project, succeed  *)
(* or throw; the exception becomes the answer.                               *)
Read(n) == /\ handler[n].pc = "reading"
           /\ \/ handler' = [handler EXCEPT ![n] = Starting(@)]
              \/ Proceed(n, "answering")
           /\ UNCHANGED <<stdin, inflight, answers, main, batch>>

Recorded(t, result) == Starting([t EXCEPT !.timeline = Append(@, result)])

(* A fault: a late answer is recorded too.                                   *)
ProviderReturnsTwice(n) ==
    /\ \E k \in handler[n].pending \ Hanging, result \in {"ok", "failed"} :
         LET t == [handler[n] EXCEPT !.pending = @ \ {k}] IN
           handler' = [handler EXCEPT ![n] = IF t.pc = "collecting" THEN Recorded(t, result)
                                                              ELSE t]
    /\ UNCHANGED <<stdin, inflight, answers, main, batch>>

(* A provider returns or throws.  After its timeout that changes nothing.    *)
ProviderReturns(n) ==
    /\ \E k \in handler[n].pending \ Hanging, result \in {"ok", "failed"} :
         LET t == [handler[n] EXCEPT !.pending = @ \ {k}] IN
           handler' = [handler EXCEPT ![n] = IF k = Current(n) THEN Recorded(t, result) ELSE t]
    /\ UNCHANGED <<stdin, inflight, answers, main, batch>>

(* A fault: a timeout waits for the provider it is to cut short.             *)
ProviderTimesOutAfterwards(n) ==
    /\ handler[n].pc = "collecting" /\ Current(n) \notin handler[n].pending
    /\ handler' = [handler EXCEPT ![n] = Recorded(@, "timedOut")]
    /\ UNCHANGED <<stdin, inflight, answers, main, batch>>

ProviderTimesOut(n) ==
    /\ handler[n].pc = "collecting"
    /\ handler' = [handler EXCEPT ![n] = Recorded(@, "timedOut")]
    /\ UNCHANGED <<stdin, inflight, answers, main, batch>>

(* The reads after the context and the ranking; their exception, too,        *)
(* becomes the answer.                                                       *)
RankTask(n) == /\ handler[n].pc = "ranking"
               /\ Proceed(n, "answering")
               /\ UNCHANGED <<stdin, inflight, answers, main, batch>>

-----------------------------------------------------------------------------
(* The reactions to the handler's promise: then writes, finally forgets.     *)

(* A fault: what is not to be answered is answered.                          *)
AnswerAll(n) == /\ handler[n].pc = "answering"
                /\ answers' = [answers EXCEPT ![n] = @ + 1]
                /\ Proceed(n, "settling")
                /\ UNCHANGED <<stdin, inflight, main, batch>>

Answer(n) == /\ handler[n].pc = "answering"
             /\ answers' = IF Replies(n) THEN [answers EXCEPT ![n] = @ + 1] ELSE answers
             /\ Proceed(n, "settling")
             /\ UNCHANGED <<stdin, inflight, main, batch>>

(* A fault: what had no answer stays in flight.                              *)
SettleAnswered(n) ==
    /\ handler[n].pc = "settling"
    /\ inflight' = IF Replies(n) THEN inflight \ {n} ELSE inflight
    /\ Proceed(n, "done")
    /\ UNCHANGED <<stdin, answers, main, batch>>

Settle(n) == /\ handler[n].pc = "settling"
             /\ inflight' = inflight \ {n}
             /\ Proceed(n, "done")
             /\ UNCHANGED <<stdin, answers, main, batch>>

-----------------------------------------------------------------------------
(* startMcpStdioServer after the close, and serve-mcp's `finally`.           *)
Drain == IF inflight = {} THEN main' = "returned" /\ batch' = {}
                          ELSE main' = "draining" /\ batch' = inflight

(* A fault: the first handler that ends ends the wait.                       *)
AwaitAny == /\ main = "draining" /\ ~(batch \subseteq inflight)
            /\ main' = "returned" /\ batch' = {}
            /\ UNCHANGED <<stdin, handler, inflight, answers>>

AwaitAll == /\ main = "draining" /\ batch \cap inflight = {}
            /\ Drain
            /\ UNCHANGED <<stdin, handler, inflight, answers>>

Closed == /\ main = "listening" /\ stdin = "closed"
          /\ Drain
          /\ UNCHANGED <<stdin, handler, inflight, answers>>

Attend(n) == Read(n) \/ ProviderTimesOut(n) \/ RankTask(n) \/ Answer(n) \/ Settle(n)

ServerNext == \/ \E n \in Messages : Line(n) \/ ProviderReturns(n) \/ Attend(n)
              \/ Close \/ Closed \/ AwaitAll

(* The client need not send anything nor close, no provider need return.     *)
ServerSpec == /\ ServerInit /\ [][ServerNext]_serverVars
              /\ \A n \in Messages : WF_serverVars(Attend(n))
              /\ WF_serverVars(Closed) /\ WF_serverVars(AwaitAll)

-----------------------------------------------------------------------------
ServerTypeOK ==
    /\ stdin \in {"open", "closed"}
    /\ handler \in [Messages -> Handlers]
    /\ inflight \subseteq Messages /\ batch \subseteq Messages
    /\ answers \in [Messages -> Nat]
    /\ main \in {"listening", "draining", "returned"}

Finished(n) == handler[n].pc \in {"unread", "done"}

(* A line that was handled has exactly the answer it asks for, whatever else *)
(* is handled meanwhile, and no other line has any: a notification none, a   *)
(* failing call one.                                                         *)
OneAnswerEach ==
    \A n \in Messages :
      answers[n] = IF handler[n].pc \in {"settling", "done"} /\ Replies(n) THEN 1 ELSE 0

(* The server returns, and the storage is closed, only when no handler runs  *)
(* that would use it or whose answer would be lost.                          *)
ReturnsWhenIdle == main = "returned" => stdin = "closed" /\ \A n \in Messages : Finished(n)

(* What is in flight is what is being handled, so that the drain cannot miss *)
(* a handler nor wait for one that has ended.                                *)
InFlight == \A n \in Messages : n \in inflight <=> ~Finished(n)

(* A late provider does not disturb the timeline: each entry is its own      *)
(* provider's, only one that timed out may still be running, and one that    *)
(* never returns has timed out.                                              *)
TimelineInOrder ==
    \A n \in Messages :
      LET t == handler[n] IN
        /\ Len(t.timeline) <= NumProviders
        /\ \A k \in 1..Len(t.timeline) :
             /\ k \in t.pending => t.timeline[k] = "timedOut"
             /\ k \in Hanging => t.timeline[k] = "timedOut"
        /\ t.pc = "collecting" => Current(n) \in t.pending

(* Every request that was read is answered, even if a provider hangs.        *)
EveryRequestIsAnswered ==
    \A n \in Messages : handler[n].pc # "unread" /\ Replies(n) ~> answers[n] = 1

(* When the client disconnects, the server returns.                          *)
ReturnsAfterClose == stdin = "closed" ~> main = "returned"
=============================================================================
