------------------------------- MODULE Stream -------------------------------
(***************************************************************************)
(* The streaming path: HandleChatCompletionStream in ingress/service.go,   *)
(* handleStream in ingress/handler.go, and the adapters' streamOpenAI and  *)
(* StreamAnthropic, which have the same shape.                             *)
(*                                                                         *)
(* Three goroutines make one stream: the reader scans the provider's body, *)
(* the service records the outcome on the breaker, the handler writes to   *)
(* the client.  Unbuffered channels join them, so a value passes from one  *)
(* to the next in one step, when both are there.  The provider's body is   *)
(* any sequence of lines and may end anywhere; a client that goes away     *)
(* cancels the context, which the reader sees as one more read error.      *)
(***************************************************************************)
EXTENDS Breaker, Sequences, SequencesExt, FiniteSets

CONSTANTS Streams,    \* concurrent streaming requests
          Model, Provider,
          Registry,   \* the registered providers
          ReqModel,   \* the model each request names
          Routes,     \* model |-> the <<provider, model>> Route may return for it
          MaxChunks,  \* bound: chunks in a provider's body
          MaxTime     \* bound: the breakers' clock stops here

ASSUME StreamAssumption ==
  /\ Registry \subseteq Provider
  /\ ReqModel \in [Streams -> Model]
  /\ Routes \in [Model -> SUBSET (Provider \X Model)]
  /\ MaxChunks \in Nat /\ MaxTime \in Nat

Key == Provider \X Model

VARIABLES breakers,  \* cbManager.breakers
          now,       \* the clock the breakers read
          route,     \* the RouteDecision of each stream
          reader,    \* the adapter's goroutine: where it is, what it sends
          service,   \* the service's goroutine
          handler,   \* where the HTTP handler is
          wrote,     \* the events written to the client
          read,      \* history: what the reader made of the body
          recorded,  \* history: what was recorded on the breaker
          refused    \* history: streams whose body carried an error event

vars == <<breakers, now, route, reader, service, handler, wrote, read,
          recorded, refused>>

Chunk(n) == [kind |-> "chunk", n |-> n]
Done == [kind |-> "done", n |-> 0]
Error == [kind |-> "error", n |-> 0]
EndMark == [kind |-> "[DONE]", n |-> 0]
Value == {Chunk(n) : n \in 1..MaxChunks} \cup {Done, Error}

NoRoute == <<"none", "none">>
Nothing == Done
Outcome == {"success", "failure"}

TypeOK ==
  /\ breakers \in [Key -> BreakerType(0..MaxTime)]
  /\ now \in 0..MaxTime
  /\ route \in [Streams -> Key \cup {NoRoute}]
  /\ reader \in [Streams -> [pc : {"none", "scan", "send", "closed"}, val : Value]]
  /\ service \in [Streams -> [pc : {"none", "recv", "send", "closed"}, val : Value,
                              gotError : BOOLEAN]]
  /\ handler \in [Streams -> {"route", "dial", "recv", "done"}]
  /\ \A s \in Streams : /\ wrote[s] \in Seq(Value \cup {EndMark})
                        /\ read[s] \in Seq(Value)
                        /\ recorded[s] \in Seq(Outcome)
  /\ refused \subseteq Streams

Init ==
  /\ breakers = [k \in Key |-> NewCircuitBreaker]
  /\ now = 0
  /\ route = [s \in Streams |-> NoRoute]
  /\ reader = [s \in Streams |-> [pc |-> "none", val |-> Nothing]]
  /\ service = [s \in Streams |-> [pc |-> "none", val |-> Nothing, gotError |-> FALSE]]
  /\ handler = [s \in Streams |-> "route"]
  /\ wrote = [s \in Streams |-> <<>>]
  /\ read = [s \in Streams |-> <<>>]
  /\ recorded = [s \in Streams |-> <<>>]
  /\ refused = {}

HandlerAt(s, l) == handler' = [handler EXCEPT ![s] = l]

\* mutant: one breaker for all the models of a provider.
RecordForProvider(s, outcome) ==
  /\ breakers' = [k \in Key |->
       IF k[1] # route[s][1] THEN breakers[k]
       ELSE IF outcome = "success" THEN AfterSuccess(breakers[k])
       ELSE AfterFailure(breakers[k], now)]
  /\ recorded' = [recorded EXCEPT ![s] = Append(@, outcome)]

Record(s, outcome) ==
  /\ breakers' = [breakers EXCEPT ![route[s]] =
                    IF outcome = "success" THEN AfterSuccess(@) ELSE AfterFailure(@, now)]
  /\ recorded' = [recorded EXCEPT ![s] = Append(@, outcome)]

-----------------------------------------------------------------------------
(***************************************************************************)
(* The handler until the stream is open                                    *)
(***************************************************************************)

RouteError(s) ==
  /\ handler[s] = "route"
  /\ Routes[ReqModel[s]] = {}
  /\ HandlerAt(s, "done")
  /\ UNCHANGED <<breakers, now, route, reader, service, wrote, read, recorded, refused>>

\* Route, Allow, providerLookup.
Route(s) ==
  /\ handler[s] = "route"
  /\ \E k \in Routes[ReqModel[s]] :
       /\ route' = [route EXCEPT ![s] = k]
       /\ breakers' = [breakers EXCEPT ![k] = AfterAllow(@, now)]
       /\ \/ /\ Allows(breakers[k], now) /\ k[1] \in Registry
             /\ HandlerAt(s, "dial")
          \/ /\ ~(Allows(breakers[k], now) /\ k[1] \in Registry)
             /\ HandlerAt(s, "done")
  /\ UNCHANGED <<now, reader, service, wrote, read, recorded, refused>>

\* SendStream returns an error: no connection, or a status of 400 or more.
DialFailed(s) ==
  /\ handler[s] = "dial"
  /\ Record(s, "failure")
  /\ HandlerAt(s, "done")
  /\ UNCHANGED <<now, route, reader, service, wrote, read, refused>>

\* Both goroutines start, and the handler sends the status 200.
Open(s) ==
  /\ handler[s] = "dial"
  /\ reader' = [reader EXCEPT ![s].pc = "scan"]
  /\ service' = [service EXCEPT ![s].pc = "recv"]
  /\ HandlerAt(s, "recv")
  /\ UNCHANGED <<breakers, now, route, wrote, read, recorded, refused>>

-----------------------------------------------------------------------------
(***************************************************************************)
(* The stream                                                              *)
(***************************************************************************)

\* A line that holds a chunk, ends the stream or cannot be parsed, or an error
\* from the body.  The reader then waits for the service to receive.
ReadValue(s) ==
  /\ reader[s].pc = "scan"
  /\ \E v \in {Done, Error} \cup {Chunk(n) : n \in {Len(read[s]) + 1} \cap 1..MaxChunks} :
       /\ reader' = [reader EXCEPT ![s] = [pc |-> "send", val |-> v]]
       /\ read' = [read EXCEPT ![s] = Append(@, v)]
  /\ UNCHANGED <<breakers, now, route, service, handler, wrote, recorded, refused>>

\* An event with an error object has neither id nor content: it is passed over.
ReadRefusal(s) ==
  /\ reader[s].pc = "scan"
  /\ refused' = refused \cup {s}
  /\ UNCHANGED <<breakers, now, route, reader, service, handler, wrote, read, recorded>>

\* The body ends, with or without its last event.
ReadEOF(s) ==
  /\ reader[s].pc = "scan"
  /\ reader' = [reader EXCEPT ![s].pc = "closed"]
  /\ UNCHANGED <<breakers, now, route, service, handler, wrote, read, recorded, refused>>

\* From the reader to the service, which records a failure before it goes on.
\* A reader that sent its last value closes the channel.
Forward(s) ==
  /\ reader[s].pc = "send" /\ service[s].pc = "recv"
  /\ reader' = [reader EXCEPT ![s].pc = IF reader[s].val.kind = "chunk" THEN "scan" ELSE "closed"]
  /\ service' = [service EXCEPT ![s] = [pc |-> "send", val |-> reader[s].val,
                                        gotError |-> @.gotError \/ reader[s].val = Error]]
  /\ IF reader[s].val = Error THEN Record(s, "failure") ELSE UNCHANGED <<breakers, recorded>>
  /\ UNCHANGED <<now, route, handler, wrote, read, refused>>

\* mutant: the handler goes on after an error.
DeliverOn(s) ==
  /\ service[s].pc = "send" /\ handler[s] = "recv"
  /\ service' = [service EXCEPT ![s].pc = "recv"]
  /\ wrote' = [wrote EXCEPT ![s] = Append(@, service[s].val)]
  /\ UNCHANGED <<breakers, now, route, reader, handler, read, recorded, refused>>

\* mutant: the handler leaves when a write to the client fails.
DeliverOrLeave(s) ==
  /\ service[s].pc = "send" /\ handler[s] = "recv"
  /\ service' = [service EXCEPT ![s].pc = "recv"]
  /\ wrote' = [wrote EXCEPT ![s] = Append(@, service[s].val)]
  /\ \E l \in {"recv", "done"} : HandlerAt(s, IF service[s].val = Error THEN "done" ELSE l)
  /\ UNCHANGED <<breakers, now, route, reader, read, recorded, refused>>

\* From the service to the handler, which writes the event and leaves after an error.
Deliver(s) ==
  /\ service[s].pc = "send" /\ handler[s] = "recv"
  /\ service' = [service EXCEPT ![s].pc = "recv"]
  /\ wrote' = [wrote EXCEPT ![s] = Append(@, service[s].val)]
  /\ HandlerAt(s, IF service[s].val = Error THEN "done" ELSE "recv")
  /\ UNCHANGED <<breakers, now, route, reader, read, recorded, refused>>

\* mutant: the error is forgotten at the end of the channel.
ServiceEndsWell(s) ==
  /\ service[s].pc = "recv" /\ reader[s].pc = "closed"
  /\ service' = [service EXCEPT ![s].pc = "closed"]
  /\ Record(s, "success")
  /\ UNCHANGED <<now, route, reader, handler, wrote, read, refused>>

\* The service finds its channel closed, records a success unless there was an
\* error, and closes its own.
ServiceEnds(s) ==
  /\ service[s].pc = "recv" /\ reader[s].pc = "closed"
  /\ service' = [service EXCEPT ![s].pc = "closed"]
  /\ IF service[s].gotError THEN UNCHANGED <<breakers, recorded>> ELSE Record(s, "success")
  /\ UNCHANGED <<now, route, reader, handler, wrote, read, refused>>

\* mutant: the handler watches the reader's channel.
HandlerEndsEarly(s) ==
  /\ handler[s] = "recv" /\ reader[s].pc = "closed"
  /\ wrote' = [wrote EXCEPT ![s] = Append(@, EndMark)]
  /\ HandlerAt(s, "done")
  /\ UNCHANGED <<breakers, now, route, reader, service, read, recorded, refused>>

HandlerEnds(s) ==
  /\ handler[s] = "recv" /\ service[s].pc = "closed"
  /\ wrote' = [wrote EXCEPT ![s] = Append(@, EndMark)]
  /\ HandlerAt(s, "done")
  /\ UNCHANGED <<breakers, now, route, reader, service, read, recorded, refused>>

Tick ==
  /\ now < MaxTime
  /\ now' = now + 1
  /\ UNCHANGED <<breakers, route, reader, service, handler, wrote, read, recorded, refused>>

Step(s) == \/ RouteError(s) \/ Route(s) \/ DialFailed(s) \/ Open(s)
           \/ ReadValue(s) \/ ReadRefusal(s) \/ ReadEOF(s)
           \/ Forward(s) \/ Deliver(s) \/ ServiceEnds(s) \/ HandlerEnds(s)

Finished(s) == /\ handler[s] = "done"
               /\ reader[s].pc \in {"none", "closed"}
               /\ service[s].pc \in {"none", "closed"}

Terminated == /\ \A s \in Streams : Finished(s)
              /\ UNCHANGED vars

Next == \/ Tick
        \/ \E s \in Streams : Step(s)
        \/ Terminated

Spec == Init /\ [][Next]_vars

\* The Go scheduler runs the goroutines, and the Timeout of http.Client, which
\* covers the body too, ends a body that does not end by itself.
FairSpec == Spec /\ \A s \in Streams : WF_vars(Step(s))

-----------------------------------------------------------------------------
(***************************************************************************)
(* Properties                                                              *)
(***************************************************************************)

\* A stream that reached its provider counts on the breaker once, as what it
\* was: before the client learns the end, and as a failure exactly when the
\* reader met an error.
OneOutcome ==
  \A s \in Streams :
    /\ Len(recorded[s]) <= 1
    /\ service[s].pc = "closed" =>
         recorded[s] = <<IF Error \in ToSet(read[s]) THEN "failure" ELSE "success">>

\* The client sees how its stream ended: [DONE] after a success, one error event
\* and nothing more after a failure.
EndAsRecorded ==
  \A s \in Streams : handler[s] = "done" /\ wrote[s] # <<>> =>
    /\ recorded[s] # <<>>
    /\ Last(wrote[s]) = IF recorded[s][1] = "success" THEN EndMark ELSE Error
    /\ \A i \in 1..Len(wrote[s]) - 1 : wrote[s][i] \notin {EndMark, Error}

\* Events reach the client in the order the provider sent them, none is lost or
\* doubled, and a slow client holds the reader back: no more than one event
\* waits in each of the two goroutines.
DeliveredInOrder ==
  \A s \in Streams :
    LET ended == wrote[s] # <<>> /\ Last(wrote[s]) = EndMark
        events == IF ended THEN Front(wrote[s]) ELSE wrote[s]
    IN  /\ IsPrefix(events, read[s])
        /\ Len(read[s]) - Len(events) <= 2
        /\ ended => events = read[s]

\* Streams of one provider and model share its breaker: its failures are
\* failures of streams, each counted once.
FailuresAreStreams ==
  \A k \in Key :
    breakers[k].failures <=
      Cardinality({s \in Streams : route[s] = k /\ "failure" \in ToSet(recorded[s])})

\* Every stream ends, and with it all three of its goroutines.
EveryStreamEnds == \A s \in Streams : <>[]Finished(s)

-----------------------------------------------------------------------------
(***************************************************************************)
(* What a document says of streams and the code does not do              *)
(***************************************************************************)

\* Design document, errors in a stream: the client gets an event with the error.
UpstreamErrorReported ==
  \A s \in Streams : s \in refused /\ handler[s] = "done" => Error \in ToSet(wrote[s])
=============================================================================
