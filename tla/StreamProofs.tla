---------------------------- MODULE StreamProofs ----------------------------
(***************************************************************************)
(* Proofs about Stream.tla for every set of streams, routes and bodies.    *)
(* The argument: what the reader made of the body is, at any time, what    *)
(* the client was sent, then the event in the service's hand, then the one *)
(* in the reader's; only the last can be the end or an error; and who has  *)
(* seen the error says what is recorded and where the handler is.  Streams *)
(* meet in the breakers only, where every failure is set against a stream. *)
(***************************************************************************)
EXTENDS Stream, FiniteSetTheorems, SequenceTheorems, TLAPS

(***************************************************************************)
(* What the methods of a breaker do, for every threshold and clock.        *)
(***************************************************************************)

\* Each method returns a breaker.
LEMMA MethodTypes ==
  ASSUME NEW time \in SUBSET Nat, NEW t \in time, NEW b \in BreakerType(time)
  PROVE  /\ AfterAllow(b, t) \in BreakerType(time)
         /\ AfterSuccess(b) \in BreakerType(time)
         /\ AfterFailure(b, t) \in BreakerType(time)
<1> USE DEF BreakerType, CircuitState
<1>1. AfterAllow(b, t) \in BreakerType(time)
    BY DEF AfterAllow
<1>2. AfterSuccess(b) \in BreakerType(time)
    BY DEF AfterSuccess
<1>3. AfterFailure(b, t) \in BreakerType(time)
    BY DEF AfterFailure
<1> QED
    BY <1>1, <1>2, <1>3

\* Allow() touches nothing but the state, and only to make an Open breaker
\* whose cooldown is over HalfOpen.
LEMMA AllowEffect ==
  ASSUME NEW time \in SUBSET Nat, NEW t \in time, NEW b \in BreakerType(time)
  PROVE  /\ AfterAllow(b, t).failures = b.failures
         /\ AfterAllow(b, t).openedAt = b.openedAt
         /\ \/ AfterAllow(b, t).state = b.state
            \/ /\ b.state = "Open" /\ t - b.openedAt >= Cooldown
               /\ AfterAllow(b, t).state = "HalfOpen"
  BY DEF BreakerType, AfterAllow, CooldownOver

\* A success closes the breaker and forgets the failures.
LEMMA SuccessEffect ==
  ASSUME NEW time \in SUBSET Nat, NEW b \in BreakerType(time)
  PROVE  AfterSuccess(b).failures = 0 /\ AfterSuccess(b).state = "Closed"
  BY DEF BreakerType, AfterSuccess

\* A failure is counted, and at the threshold the breaker is not Closed.
LEMMA FailureEffect ==
  ASSUME NEW time \in SUBSET Nat, NEW t \in time, NEW b \in BreakerType(time)
  PROVE  /\ AfterFailure(b, t).failures = b.failures + 1
         /\ \/ b.failures + 1 >= Threshold
            \/ AfterFailure(b, t).state = b.state
  BY BreakerAssumption DEF BreakerType, AfterFailure

\* A new breaker is Closed and has counted nothing.
LEMMA NewEffect ==
  ASSUME NEW time \in SUBSET Nat, 0 \in time
  PROVE  /\ NewCircuitBreaker \in BreakerType(time)
         /\ NewCircuitBreaker.failures = 0 /\ NewCircuitBreaker.state = "Closed"
  BY DEF BreakerType, CircuitState, NewCircuitBreaker

-----------------------------------------------------------------------------
Reader == [pc : {"none", "scan", "send", "closed"}, val : Value]
Service == [pc : {"none", "recv", "send", "closed"}, val : Value, gotError : BOOLEAN]

(***************************************************************************)
(* One stream: h is where its handler is, rt its route, rd and sv its      *)
(* reader and service, w what was written, rr what was read, rc what was   *)
(* recorded.                                                               *)
(***************************************************************************)

One(b) == IF b THEN 1 ELSE 0

\* [DONE] was written.
Ended(h, sv) == h = "done" /\ ~sv.gotError

\* The number of events written, without the mark.
Events(h, sv, w) == Len(w) - One(Ended(h, sv))

\* A stream that is not open: at most a failure to dial was recorded.
NotOpen(h, rt, sv, w, rr, rc) ==
  /\ sv.pc = "none" /\ sv.gotError = FALSE /\ h \in {"route", "dial", "done"}
  /\ h = "dial" => rt \in Key
  /\ w = <<>> /\ rr = <<>>
  /\ IF h = "done" THEN rc \in {<<>>, <<"failure">>} ELSE rc = <<>>

\* What was read is what was written, then what the service holds, then what
\* the reader holds.
Flow(h, rd, sv, w, rr) ==
  LET e == Events(h, sv, w) IN
    /\ Len(rr) = e + One(sv.pc = "send") + One(rd.pc = "send")
    /\ \A i \in 1..e : w[i] = rr[i]
    /\ sv.pc = "send" => rr[e + 1] = sv.val
    /\ rd.pc = "send" => rr[Len(rr)] = rd.val

\* Only the last value read ends the stream, and the reader is gone when the
\* service has it.
LastEnds(rd, sv, rr) ==
  /\ \A i \in 1..Len(rr) : i < Len(rr) \/ rd.pc = "scan" => rr[i].kind = "chunk"
  /\ sv.gotError => rd.pc = "closed" /\ Len(rr) > 0 /\ rr[Len(rr)] = Error
  /\ rd.pc = "closed" /\ ~sv.gotError => \A i \in 1..Len(rr) : rr[i] # Error

\* The error ends the handler when it is delivered; without one, the service
\* ends it.
WhoLeaves(h, rd, sv, w) ==
  /\ sv.pc = "send" => h = "recv"
  /\ sv.pc = "closed" => rd.pc = "closed"
  /\ sv.gotError /\ sv.pc # "send" => h = "done"
  /\ h = "done" /\ sv.gotError => Len(w) > 0 /\ w[Len(w)] = Error
  /\ Ended(h, sv) => sv.pc = "closed" /\ Len(w) > 0 /\ w[Len(w)] = EndMark

\* What is recorded, and when.
Outcomes(sv, rc) ==
  rc = IF sv.gotError THEN <<"failure">>
       ELSE IF sv.pc = "closed" THEN <<"success">> ELSE <<>>

IsOpen(h, rt, rd, sv, w, rr, rc) ==
  /\ sv.pc # "none" /\ h \in {"recv", "done"} /\ rt \in Key
  /\ Flow(h, rd, sv, w, rr) /\ LastEnds(rd, sv, rr)
  /\ WhoLeaves(h, rd, sv, w) /\ Outcomes(sv, rc)

Sound(h, rt, rd, sv, w, rr, rc) ==
  IF rd.pc = "none" THEN NotOpen(h, rt, sv, w, rr, rc)
                    ELSE IsOpen(h, rt, rd, sv, w, rr, rc)

(***************************************************************************)
(* All streams together                                                    *)
(***************************************************************************)

\* The streams to k that failed.
Failing(rts, rcs, k) == {s \in Streams : rts[s] = k /\ "failure" \in ToSet(rcs[s])}

Holds(b, failing) == IsFiniteSet(failing) /\ b.failures <= Cardinality(failing)

HistoriesTyped == /\ wrote \in [Streams -> Seq(Value \cup {EndMark})]
                  /\ read \in [Streams -> Seq(Value)]
                  /\ recorded \in [Streams -> Seq(Outcome)]

StreamsSound ==
  \A s \in Streams :
    Sound(handler[s], route[s], reader[s], service[s], wrote[s], read[s], recorded[s])

BreakersHold == \A k \in Key : Holds(breakers[k], Failing(route, recorded, k))

IInv == TypeOK /\ HistoriesTyped /\ StreamsSound /\ BreakersHold

-----------------------------------------------------------------------------
(***************************************************************************)
(* One step of one goroutine, as a statement about its stream alone        *)
(***************************************************************************)

LEMMA Values ==
  /\ Error \in Value /\ Done \in Value /\ EndMark \notin Value /\ Error.kind # "chunk"
  /\ \A v \in Value : v.kind = "chunk" => v # Error
<1>1. Error \in Value /\ Done \in Value
    BY DEF Value
<1>2. /\ Error.kind = "error" /\ Done.kind = "done" /\ EndMark.kind = "[DONE]"
      /\ \A n : Chunk(n).kind = "chunk"
    BY DEF Error, Done, EndMark, Chunk
<1>3. \A v \in Value : v.kind \in {"chunk", "done", "error"}
    BY <1>2 DEF Value
<1> QED
    BY <1>1, <1>2, <1>3

\* The stream opens.
LEMMA SoundOpen ==
  ASSUME NEW rt, NEW rd, NEW sv, NEW w, NEW rr, NEW rc,
         rd.pc = "none", Sound("dial", rt, rd, sv, w, rr, rc),
         NEW rd2, rd2.pc = "scan", NEW sv2, sv2.pc = "recv", sv2.gotError = sv.gotError
  PROVE  Sound("recv", rt, rd2, sv2, w, rr, rc)
<1>1. /\ rt \in Key /\ w = <<>> /\ rr = <<>> /\ rc = <<>> /\ sv2.gotError = FALSE
    BY DEF Sound, NotOpen
<1>2. Flow("recv", rd2, sv2, w, rr) /\ LastEnds(rd2, sv2, rr)
    BY <1>1 DEF Flow, Events, Ended, One, LastEnds
<1>3. WhoLeaves("recv", rd2, sv2, w) /\ Outcomes(sv2, rc)
    BY <1>1 DEF WhoLeaves, Outcomes, Ended
<1> QED
    BY <1>1, <1>2, <1>3 DEF Sound, IsOpen

\* The reader makes a value of the body.
LEMMA SoundRead ==
  ASSUME NEW h, NEW rt, NEW rd, NEW sv \in Service, NEW w \in Seq(Value \cup {EndMark}),
         NEW rr \in Seq(Value), NEW rc,
         rd.pc = "scan", Sound(h, rt, rd, sv, w, rr, rc),
         NEW v \in Value, NEW rd2, rd2.pc = "send", rd2.val = v
  PROVE  Sound(h, rt, rd2, sv, w, Append(rr, v), rc)
<1> DEFINE t == Append(rr, v)
           N == Len(rr)
           e == Events(h, sv, w)
<1>1. IsOpen(h, rt, rd, sv, w, rr, rc)
    BY DEF Sound
<1>2. /\ N \in Nat /\ Len(t) = N + 1 /\ t[N + 1] = v /\ \A i \in 1..N : t[i] = rr[i]
    BY AppendProperties
<1>3. e \in Int
    BY LenProperties DEF Events, One
<1>4. /\ N = e + One(sv.pc = "send") /\ (\A i \in 1..e : w[i] = rr[i])
      /\ sv.pc = "send" => rr[e + 1] = sv.val
    BY <1>1, <1>2, <1>3 DEF IsOpen, Flow, One
<1>5. /\ (\A i \in 1..N : rr[i].kind = "chunk") /\ ~sv.gotError
    BY <1>1 DEF IsOpen, LastEnds
<1>6. /\ sv.pc # "none" /\ h \in {"recv", "done"} /\ rt \in Key
      /\ WhoLeaves(h, rd, sv, w) /\ Outcomes(sv, rc)
    BY <1>1 DEF IsOpen
<1>7. sv.pc # "closed"
    BY <1>6 DEF WhoLeaves
<1> HIDE DEF t, N, e
<1>8. \A i \in 1..e : i \in 1..N
    BY <1>2, <1>3, <1>4 DEF One
<1>9. sv.pc = "send" => e + 1 = N /\ N \in 1..N
  <2>1. CASE sv.pc = "send"
    <3>1. N = e + 1 /\ \A i \in 1..N : t[i] = rr[i]
        BY <1>2, <1>4, <2>1 DEF One
    <3>2. e >= 0
      <4>1. h = "recv"
          BY <1>6, <2>1 DEF WhoLeaves
      <4> QED
          BY <4>1, LenProperties DEF e, Events, Ended, One
    <3> QED
        BY <1>2, <1>3, <3>1, <3>2
  <2> QED
      BY <2>1
<1>10. Flow(h, rd2, sv, w, t)
  <2>1. Len(t) = e + One(sv.pc = "send") + One(rd2.pc = "send")
      BY <1>2, <1>3, <1>4 DEF One
  <2>2. \A i \in 1..e : w[i] = t[i]
      BY <1>2, <1>4, <1>8
  <2>3. sv.pc = "send" => t[e + 1] = sv.val
      BY <1>2, <1>4, <1>9
  <2>4. t[Len(t)] = rd2.val
      BY <1>2
  <2> QED
      BY <2>1, <2>2, <2>3, <2>4 DEF Flow, e
<1>11. LastEnds(rd2, sv, t)
    BY <1>2, <1>5 DEF LastEnds
<1>12. WhoLeaves(h, rd2, sv, w)
    BY <1>5, <1>6, <1>7 DEF WhoLeaves
<1> QED
    BY <1>6, <1>10, <1>11, <1>12 DEF Sound, IsOpen, t

\* The body ends.
LEMMA SoundEOF ==
  ASSUME NEW h, NEW rt, NEW rd, NEW sv \in Service, NEW w, NEW rr \in Seq(Value), NEW rc,
         rd.pc = "scan", Sound(h, rt, rd, sv, w, rr, rc), NEW rd2, rd2.pc = "closed"
  PROVE  Sound(h, rt, rd2, sv, w, rr, rc)
<1>1. IsOpen(h, rt, rd, sv, w, rr, rc)
    BY DEF Sound
<1>2. Flow(h, rd2, sv, w, rr)
    BY <1>1 DEF IsOpen, Flow
<1>3. \A i \in 1..Len(rr) : rr[i].kind = "chunk" /\ rr[i] \in Value
    BY <1>1, LenProperties DEF IsOpen, LastEnds
<1>4. LastEnds(rd2, sv, rr)
    BY <1>1, <1>3, Values DEF IsOpen, LastEnds
<1>5. WhoLeaves(h, rd2, sv, w)
    BY <1>1 DEF IsOpen, WhoLeaves
<1> QED
    BY <1>1, <1>2, <1>4, <1>5 DEF Sound, IsOpen

\* A value passes from the reader to the service.
LEMMA SoundForward ==
  ASSUME NEW h, NEW rt, NEW rd, NEW sv \in Service, NEW w \in Seq(Value \cup {EndMark}),
         NEW rr \in Seq(Value), NEW rc \in Seq(Outcome),
         rd.pc = "send", sv.pc = "recv", rd.val \in Value, Sound(h, rt, rd, sv, w, rr, rc),
         NEW rd2, rd2.pc = (IF rd.val.kind = "chunk" THEN "scan" ELSE "closed"),
         NEW sv2, sv2.pc = "send", sv2.val = rd.val,
         sv2.gotError = (sv.gotError \/ rd.val = Error)
  PROVE  /\ Sound(h, rt, rd2, sv2, w, rr, IF rd.val = Error THEN <<"failure">> ELSE rc)
         /\ rc = <<>> /\ rt \in Key
<1> DEFINE v == rd.val
           N == Len(rr)
           rc2 == IF v = Error THEN <<"failure">> ELSE rc
<1>1. /\ h \in {"recv", "done"} /\ rt \in Key /\ Flow(h, rd, sv, w, rr) /\ LastEnds(rd, sv, rr)
      /\ WhoLeaves(h, rd, sv, w) /\ Outcomes(sv, rc)
    BY DEF Sound, IsOpen
<1>2. ~sv.gotError /\ h = "recv" /\ rc = <<>>
    BY <1>1 DEF LastEnds, WhoLeaves, Ended, Outcomes
<1>3. sv2.gotError <=> v = Error
    BY <1>2
<1>4. /\ N \in Nat /\ Len(w) \in Nat /\ rr[N] = v /\ N = Len(w) + 1
      /\ \A i \in 1..Len(w) : w[i] = rr[i]
    BY <1>1, <1>2, LenProperties DEF Flow, Events, Ended, One
<1>5. \A i \in 1..N : rr[i] \in Value /\ (i < N => rr[i].kind = "chunk")
    BY <1>1, LenProperties DEF LastEnds
<1> HIDE DEF v, N
<1>6. Flow(h, rd2, sv2, w, rr)
  <2>1. Events(h, sv2, w) = Len(w)
      BY <1>2, <1>4 DEF Events, Ended, One
  <2>2. Len(rr) = Len(w) + 1 /\ rr[Len(w) + 1] = sv2.val
      BY <1>4 DEF v, N
  <2>3. One(sv2.pc = "send") = 1 /\ One(rd2.pc = "send") = 0 /\ rd2.pc # "send"
      BY DEF One
  <2> QED
      BY <1>4, <2>1, <2>2, <2>3 DEF Flow
<1>7. LastEnds(rd2, sv2, rr)
  <2>1. rr[N] = v /\ N \in 1..N /\ N > 0
      BY <1>4
  <2>2. v \in Value /\ (rd2.pc = "scan" <=> v.kind = "chunk") /\ rd2.pc \in {"scan", "closed"}
      BY DEF v
  <2>3. v.kind = "chunk" => v # Error
      BY <2>2, Values
  <2>4. \A i \in 1..N : i < N => rr[i] # Error
      BY <1>5, Values
  <2>5. \A i \in 1..N : i < N \/ rd2.pc = "scan" => rr[i].kind = "chunk"
      BY <1>4, <1>5, <2>1, <2>2
  <2>6. sv2.gotError => rd2.pc = "closed" /\ N > 0 /\ rr[N] = Error
      BY <1>3, <2>1, <2>2, <2>3
  <2>7. ~sv2.gotError => \A i \in 1..N : rr[i] # Error
      BY <1>3, <1>4, <2>1, <2>4
  <2> QED
      BY <2>5, <2>6, <2>7 DEF LastEnds, N
<1>8. WhoLeaves(h, rd2, sv2, w)
    BY <1>2 DEF WhoLeaves, Ended
<1>9. Outcomes(sv2, rc2)
    BY <1>2, <1>3 DEF Outcomes, v
<1>10. rd2.pc # "none"
    OBVIOUS
<1> QED
    BY <1>1, <1>2, <1>6, <1>7, <1>8, <1>9, <1>10 DEF Sound, IsOpen, v

\* An event passes from the service to the handler, who leaves after an error.
LEMMA SoundDeliver ==
  ASSUME NEW h, NEW rt, NEW rd \in Reader, NEW sv \in Service,
         NEW w \in Seq(Value \cup {EndMark}),
         NEW rr \in Seq(Value), NEW rc,
         sv.pc = "send", h = "recv", Sound(h, rt, rd, sv, w, rr, rc),
         NEW sv2, sv2.pc = "recv", sv2.gotError = sv.gotError,
         NEW h2, h2 = (IF sv.val = Error THEN "done" ELSE "recv")
  PROVE  Sound(h2, rt, rd, sv2, Append(w, sv.val), rr, rc)
<1> DEFINE v == sv.val
           N == Len(rr)
           n == Len(w)
           t == Append(w, v)
<1>1. /\ rt \in Key /\ Flow(h, rd, sv, w, rr) /\ LastEnds(rd, sv, rr)
      /\ WhoLeaves(h, rd, sv, w) /\ Outcomes(sv, rc) /\ rd.pc # "none"
    BY DEF Sound, IsOpen, NotOpen
<1>2. v \in Value /\ sv.gotError \in BOOLEAN
    BY DEF Service
<1>3. /\ n \in Nat /\ Len(t) = n + 1 /\ t[n + 1] = v
      /\ \A i \in 1..n : t[i] = w[i]
    BY <1>2, AppendProperties
<1>4. /\ N = n + 1 + One(rd.pc = "send") /\ rr[n + 1] = v
      /\ (\A i \in 1..n : w[i] = rr[i]) /\ (rd.pc = "send" => rr[N] = rd.val)
  <2>1. Events(h, sv, w) = n /\ One(sv.pc = "send") = 1
      BY <1>3 DEF Events, Ended, One
  <2> QED
      BY <1>1, <1>3, <2>1 DEF Flow
<1>5. N \in Nat /\ (rd.pc # "send" => N = n + 1) /\ (rd.pc = "send" => N = n + 2)
    BY <1>3, <1>4 DEF One
<1>6. /\ \A i \in 1..N : i < N \/ rd.pc = "scan" => rr[i].kind = "chunk"
      /\ sv.gotError => rd.pc = "closed" /\ rr[N] = Error
      /\ rd.pc = "closed" /\ ~sv.gotError => \A i \in 1..N : rr[i] # Error
    BY <1>1 DEF LastEnds
<1> HIDE DEF v, N, n, t
<1>7. v = Error <=> sv.gotError
  <2>1. ASSUME sv.gotError PROVE v = Error
      BY <1>4, <1>5, <1>6, <2>1
  <2>2. ASSUME ~sv.gotError, v = Error PROVE FALSE
    <3>1. n + 1 \in 1..N
        BY <1>3, <1>5
    <3>2. rd.pc # "closed"
        BY <1>4, <1>6, <2>2, <3>1
    <3>3. v.kind # "chunk"
        BY <2>2, Values
    <3>4. rd.pc # "scan"
        BY <1>4, <1>6, <3>1, <3>3
    <3>5. rd.pc # "send"
        BY <1>3, <1>4, <1>5, <1>6, <3>1, <3>3
    <3> QED
        BY <1>1, <3>2, <3>4, <3>5 DEF Reader
  <2> QED
      BY <2>1, <2>2
<1>8. ~Ended(h2, sv2) /\ h2 \in {"recv", "done"} /\ (h2 = "done" <=> v = Error)
    BY <1>7 DEF Ended, v
<1>9. Flow(h2, rd, sv2, t, rr)
  <2>1. Events(h2, sv2, t) = n + 1 /\ One(sv2.pc = "send") = 0 /\ sv2.pc # "send"
      BY <1>3, <1>8 DEF Events, One
  <2>2. \A i \in 1..(n + 1) : t[i] = rr[i]
    <3> TAKE i \in 1..(n + 1)
    <3>1. CASE i = n + 1
        BY <1>3, <1>4, <3>1
    <3>2. CASE i # n + 1
        BY <1>3, <1>4, <3>2
    <3> QED
        BY <3>1, <3>2
  <2>3. Len(rr) = n + 1 + 0 + One(rd.pc = "send")
      BY <1>3, <1>4 DEF N, One
  <2>4. rd.pc = "send" => rr[Len(rr)] = rd.val
      BY <1>4 DEF N
  <2> QED
      BY <2>1, <2>2, <2>3, <2>4 DEF Flow
<1>10. LastEnds(rd, sv2, rr)
    BY <1>1 DEF LastEnds
<1>11. WhoLeaves(h2, rd, sv2, t)
    BY <1>3, <1>7, <1>8 DEF WhoLeaves
<1>12. Outcomes(sv2, rc)
    BY <1>1 DEF Outcomes
<1> QED
    BY <1>1, <1>8, <1>9, <1>10, <1>11, <1>12 DEF Sound, IsOpen, t, v

\* The service finds its channel closed: it records a success, unless it has
\* recorded a failure.
LEMMA SoundServiceEnds ==
  ASSUME NEW h, NEW rt, NEW rd, NEW sv \in Service, NEW w, NEW rr, NEW rc,
         sv.pc = "recv", rd.pc = "closed", Sound(h, rt, rd, sv, w, rr, rc),
         NEW sv2, sv2.pc = "closed", sv2.gotError = sv.gotError
  PROVE  /\ Sound(h, rt, rd, sv2, w, rr, IF sv.gotError THEN rc ELSE <<"success">>)
         /\ rt \in Key /\ (~sv.gotError => rc = <<>>)
<1>1. /\ h \in {"recv", "done"} /\ rt \in Key /\ Flow(h, rd, sv, w, rr) /\ LastEnds(rd, sv, rr)
      /\ WhoLeaves(h, rd, sv, w) /\ Outcomes(sv, rc)
    BY DEF Sound, IsOpen
<1>2. Ended(h, sv2) <=> Ended(h, sv)
    BY DEF Ended
<1>3. Flow(h, rd, sv2, w, rr)
    BY <1>1, <1>2 DEF Flow, Events, One
<1>4. LastEnds(rd, sv2, rr)
    BY <1>1 DEF LastEnds
<1>5. WhoLeaves(h, rd, sv2, w)
    BY <1>1, <1>2 DEF WhoLeaves
<1>6. Outcomes(sv2, IF sv.gotError THEN rc ELSE <<"success">>) /\ (~sv.gotError => rc = <<>>)
    BY <1>1 DEF Outcomes
<1> QED
    BY <1>1, <1>3, <1>4, <1>5, <1>6 DEF Sound, IsOpen

\* The handler finds the service's channel closed: there was no error.
LEMMA SoundHandlerEnds ==
  ASSUME NEW rt, NEW rd \in Reader, NEW sv \in Service, NEW w \in Seq(Value \cup {EndMark}),
         NEW rr \in Seq(Value), NEW rc,
         sv.pc = "closed", Sound("recv", rt, rd, sv, w, rr, rc)
  PROVE  Sound("done", rt, rd, sv, Append(w, EndMark), rr, rc)
<1> DEFINE n == Len(w)
           t == Append(w, EndMark)
<1>1. /\ rt \in Key /\ Flow("recv", rd, sv, w, rr) /\ LastEnds(rd, sv, rr)
      /\ WhoLeaves("recv", rd, sv, w) /\ Outcomes(sv, rc) /\ rd.pc # "none"
    BY DEF Sound, IsOpen, NotOpen
<1>2. ~sv.gotError /\ rd.pc = "closed"
    BY <1>1 DEF WhoLeaves
<1>3. /\ n \in Nat /\ Len(t) = n + 1 /\ t[n + 1] = EndMark
      /\ \A i \in 1..n : t[i] = w[i]
    BY AppendProperties
<1>4. /\ Len(rr) = n /\ \A i \in 1..n : w[i] = rr[i]
    BY <1>1, <1>2, <1>3 DEF Flow, Events, Ended, One
<1> HIDE DEF n, t
<1>5. Flow("done", rd, sv, t, rr)
  <2>1. Events("done", sv, t) = n
      BY <1>2, <1>3 DEF Events, Ended, One
  <2> QED
      BY <1>2, <1>3, <1>4, <2>1 DEF Flow, One
<1>6. WhoLeaves("done", rd, sv, t)
    BY <1>2, <1>3 DEF WhoLeaves
<1> QED
    BY <1>1, <1>5, <1>6 DEF Sound, IsOpen, t

\* The dial fails.
LEMMA SoundDialFailed ==
  ASSUME NEW rt, NEW rd, NEW sv, NEW w, NEW rr, NEW rc, Sound("dial", rt, rd, sv, w, rr, rc)
  PROVE  Sound("done", rt, rd, sv, w, rr, <<"failure">>) /\ rc = <<>> /\ rt \in Key
  BY DEF Sound, NotOpen, IsOpen

\* The request is routed, or refused before it is.
LEMMA SoundRoute ==
  ASSUME NEW rt, NEW rd, NEW sv, NEW w, NEW rr, NEW rc, Sound("route", rt, rd, sv, w, rr, rc)
  PROVE  /\ rc = <<>>
         /\ \A rt2 : Sound("done", rt2, rd, sv, w, rr, rc)
         /\ \A rt2 \in Key : Sound("dial", rt2, rd, sv, w, rr, rc)
  BY DEF Sound, NotOpen, IsOpen

-----------------------------------------------------------------------------
(***************************************************************************)
(* Steps of the system                                                     *)
(***************************************************************************)

LEMMA IInvInit == Init => IInv
<1> SUFFICES ASSUME Init PROVE IInv
    OBVIOUS
<1>1. 0 \in 0..MaxTime /\ 0..MaxTime \in SUBSET Nat
    BY StreamAssumption
<1>2. /\ HistoriesTyped
      /\ \A s \in Streams : wrote[s] = <<>> /\ read[s] = <<>> /\ recorded[s] = <<>>
    BY DEF Init, HistoriesTyped
<1>3. TypeOK
  <2>1. NewCircuitBreaker \in BreakerType(0..MaxTime)
      BY <1>1, NewEffect
  <2>2. breakers \in [Key -> BreakerType(0..MaxTime)]
      BY <2>1 DEF Init
  <2>3. Nothing \in Value
      BY Values DEF Nothing
  <2> QED
      BY <1>1, <1>2, <2>2, <2>3 DEF Init, TypeOK
<1>4. StreamsSound
    BY DEF Init, StreamsSound, Sound, NotOpen
<1>5. BreakersHold
  <2> SUFFICES ASSUME NEW k \in Key PROVE Holds(breakers[k], Failing(route, recorded, k))
      BY DEF BreakersHold
  <2>1. Failing(route, recorded, k) = {}
      BY <1>2 DEF Failing, ToSet
  <2>2. breakers[k].failures = 0
      BY <1>1, NewEffect DEF Init
  <2> QED
      BY <2>1, <2>2, FS_EmptySet DEF Holds
<1> QED
    BY <1>2, <1>3, <1>4, <1>5 DEF IInv

\* The state of the streams, and that of the breakers.
StreamsTyped == /\ reader \in [Streams -> Reader] /\ service \in [Streams -> Service]
                /\ handler \in [Streams -> {"route", "dial", "recv", "done"}]
                /\ route \in [Streams -> Key \cup {NoRoute}]
                /\ refused \subseteq Streams /\ HistoriesTyped
BreakersTyped == breakers \in [Key -> BreakerType(0..MaxTime)] /\ now \in 0..MaxTime

LEMMA Types == TypeOK /\ HistoriesTyped <=> StreamsTyped /\ BreakersTyped
  BY DEF TypeOK, HistoriesTyped, StreamsTyped, BreakersTyped, Reader, Service

\* What was recorded of a stream that had no outcome.
LEMMA Recording ==
  ASSUME StreamsTyped, BreakersTyped, NEW s \in Streams, NEW o \in Outcome, Record(s, o),
         recorded[s] = <<>>, route[s] \in Key
  PROVE  /\ breakers' \in [Key -> BreakerType(0..MaxTime)]
         /\ recorded' \in [Streams -> Seq(Outcome)] /\ recorded'[s] = <<o>>
         /\ \A q \in Streams : q # s => recorded'[q] = recorded[q]
         /\ o = "success" => breakers' = [breakers EXCEPT ![route[s]] = AfterSuccess(@)]
         /\ o = "failure" => breakers' = [breakers EXCEPT ![route[s]] = AfterFailure(@, now)]
<1>1. 0..MaxTime \in SUBSET Nat
    BY StreamAssumption
<1>2. /\ AfterSuccess(breakers[route[s]]) \in BreakerType(0..MaxTime)
      /\ AfterFailure(breakers[route[s]], now) \in BreakerType(0..MaxTime)
    BY <1>1, MethodTypes DEF BreakersTyped
<1>3. breakers' = [breakers EXCEPT ![route[s]] =
                    IF o = "success" THEN AfterSuccess(@) ELSE AfterFailure(@, now)]
    BY DEF Record
<1>4. breakers' \in [Key -> BreakerType(0..MaxTime)]
    BY <1>2, <1>3 DEF BreakersTyped
<1>5. recorded' = [recorded EXCEPT ![s] = <<o>>]
    BY DEF Record
<1>6. /\ recorded' \in [Streams -> Seq(Outcome)] /\ recorded'[s] = <<o>>
      /\ \A q \in Streams : q # s => recorded'[q] = recorded[q]
    BY <1>5 DEF StreamsTyped, HistoriesTyped
<1> QED
    BY <1>3, <1>4, <1>6

\* A step of one stream changes nothing of another.
LEMMA OthersKept ==
  ASSUME StreamsTyped, NEW s \in Streams, Step(s), NEW q \in Streams, q # s
  PROVE  /\ handler'[q] = handler[q] /\ route'[q] = route[q] /\ reader'[q] = reader[q]
         /\ service'[q] = service[q] /\ wrote'[q] = wrote[q] /\ read'[q] = read[q]
         /\ recorded'[q] = recorded[q]
  BY DEF StreamsTyped, HistoriesTyped, Step, RouteError, Route, DialFailed, Open, ReadValue,
         ReadRefusal, ReadEOF, Forward, Deliver, ServiceEnds, HandlerEnds, HandlerAt, Record

\* A step of one stream touches the breakers in one of three ways.
Quiet == breakers' = breakers /\ route' = route /\ recorded' = recorded

Admission(s) ==
  /\ recorded[s] = <<>> /\ recorded' = recorded
  /\ \E k \in Key : /\ route' = [route EXCEPT ![s] = k]
                    /\ breakers' = [breakers EXCEPT ![k] = AfterAllow(@, now)]

Outcoming(s) ==
  /\ recorded[s] = <<>> /\ route[s] \in Key /\ route' = route
  /\ \E o \in Outcome : Record(s, o)

LEMMA BreakerSteps ==
  ASSUME StreamsTyped, StreamsSound, NEW s \in Streams, Step(s)
  PROVE  Quiet \/ Admission(s) \/ Outcoming(s)
<1>s. Sound(handler[s], route[s], reader[s], service[s], wrote[s], read[s], recorded[s])
    BY DEF StreamsSound
<1>t. /\ reader[s] \in Reader /\ service[s] \in Service /\ recorded[s] \in Seq(Outcome)
      /\ wrote[s] \in Seq(Value \cup {EndMark}) /\ read[s] \in Seq(Value)
    BY DEF StreamsTyped, HistoriesTyped
<1>o. "failure" \in Outcome /\ "success" \in Outcome
    BY DEF Outcome
<1>1. CASE Route(s)
  <2>1. recorded[s] = <<>>
      BY <1>1, <1>s, SoundRoute DEF Route
  <2>2. Routes[ReqModel[s]] \subseteq Key
      BY StreamAssumption DEF Key
  <2> QED
      BY <1>1, <2>1, <2>2 DEF Route, Admission
<1>2. CASE DialFailed(s)
  <2>1. recorded[s] = <<>> /\ route[s] \in Key
      BY <1>2, <1>s, SoundDialFailed DEF DialFailed
  <2> QED
      BY <1>2, <1>o, <2>1 DEF DialFailed, Outcoming
<1>3. CASE Forward(s)
  <2>1. recorded[s] = <<>> /\ route[s] \in Key
      BY <1>3, <1>s DEF Forward, Sound, IsOpen, NotOpen, LastEnds, Outcomes
  <2> QED
      BY <1>3, <1>o, <2>1 DEF Forward, Quiet, Outcoming
<1>4. CASE ServiceEnds(s)
  <2>1. route[s] \in Key /\ (~service[s].gotError => recorded[s] = <<>>)
      BY <1>4, <1>s, <1>t DEF ServiceEnds, Sound, IsOpen, NotOpen, Outcomes
  <2> QED
      BY <1>4, <1>o, <2>1 DEF ServiceEnds, Quiet, Outcoming
<1>5. CASE RouteError(s) \/ Open(s) \/ ReadValue(s) \/ ReadRefusal(s) \/ ReadEOF(s)
           \/ Deliver(s) \/ HandlerEnds(s)
    BY <1>5 DEF RouteError, Open, ReadValue, ReadRefusal, ReadEOF, Deliver, HandlerEnds, Quiet
<1> QED
    BY <1>1, <1>2, <1>3, <1>4, <1>5 DEF Step

\* What a step of a stream leaves of it, and of the types.
LEMMA StreamStep ==
  ASSUME StreamsTyped, BreakersTyped, StreamsSound, NEW s \in Streams, Step(s)
  PROVE  /\ StreamsTyped'
         /\ Sound(handler'[s], route'[s], reader'[s], service'[s], wrote'[s], read'[s],
                  recorded'[s])
<1> DEFINE Here == Sound(handler'[s], route'[s], reader'[s], service'[s], wrote'[s], read'[s],
                         recorded'[s])
<1>s. Sound(handler[s], route[s], reader[s], service[s], wrote[s], read[s], recorded[s])
    BY DEF StreamsSound
<1>t. /\ reader[s] \in Reader /\ service[s] \in Service /\ recorded[s] \in Seq(Outcome)
      /\ wrote[s] \in Seq(Value \cup {EndMark}) /\ read[s] \in Seq(Value)
    BY DEF StreamsTyped, HistoriesTyped
<1>v. reader[s].val \in Value /\ service[s].val \in Value
    BY <1>t DEF Reader, Service
<1> USE DEF HandlerAt
<1>1. CASE RouteError(s)
  <2>1. StreamsTyped'
      BY <1>1 DEF RouteError, StreamsTyped, HistoriesTyped
  <2>2. Here
    <3>1. /\ handler[s] = "route" /\ handler'[s] = "done" /\ route'[s] = route[s]
          /\ reader' = reader /\ service' = service
          /\ wrote' = wrote /\ read' = read /\ recorded' = recorded
        BY <1>1 DEF RouteError, StreamsTyped
    <3> QED
        BY <1>s, <3>1, SoundRoute
  <2> QED
      BY <2>1, <2>2
<1>2. CASE Route(s)
  <2>1. Routes[ReqModel[s]] \subseteq Key
      BY StreamAssumption DEF Key
  <2>2. /\ handler[s] = "route" /\ handler'[s] \in {"dial", "done"} /\ route'[s] \in Key
        /\ reader' = reader /\ service' = service
        /\ wrote' = wrote /\ read' = read /\ recorded' = recorded
      BY <1>2, <2>1 DEF Route, StreamsTyped
  <2>3. Here
      BY <1>s, <2>2, SoundRoute
  <2>4. StreamsTyped'
      BY <1>2, <2>1, <2>2 DEF Route, StreamsTyped, HistoriesTyped
  <2> QED
      BY <2>3, <2>4
<1>3. CASE DialFailed(s)
  <2>1. /\ handler[s] = "dial" /\ handler'[s] = "done" /\ route' = route /\ reader' = reader
        /\ service' = service /\ wrote' = wrote /\ read' = read /\ refused' = refused
      BY <1>3 DEF DialFailed, StreamsTyped
  <2>2. /\ Sound("done", route[s], reader[s], service[s], wrote[s], read[s], <<"failure">>)
        /\ recorded[s] = <<>> /\ route[s] \in Key
      BY <1>s, <2>1, SoundDialFailed
  <2>3. recorded' \in [Streams -> Seq(Outcome)] /\ recorded'[s] = <<"failure">>
    <3>1. Record(s, "failure") /\ "failure" \in Outcome
        BY <1>3 DEF DialFailed, Outcome
    <3> QED
        BY <2>2, <3>1, Recording
  <2>4. handler' \in [Streams -> {"route", "dial", "recv", "done"}]
      BY <1>3 DEF DialFailed, StreamsTyped
  <2> QED
      BY <2>1, <2>2, <2>3, <2>4 DEF StreamsTyped, HistoriesTyped
<1>4. CASE Open(s)
  <2>1. /\ handler[s] = "dial" /\ handler'[s] = "recv"
        /\ reader'[s].pc = "scan" /\ service'[s].pc = "recv"
        /\ service'[s].gotError = service[s].gotError
        /\ route' = route /\ wrote' = wrote /\ read' = read /\ recorded' = recorded
      BY <1>4 DEF Open, StreamsTyped, Reader, Service
  <2>2. reader[s].pc = "none"
      BY <1>s, <2>1 DEF Sound, IsOpen
  <2>3. Here
      BY <1>s, <2>1, <2>2, SoundOpen
  <2>4. reader' \in [Streams -> Reader]
      BY <1>4 DEF Open, StreamsTyped, Reader
  <2>5. service' \in [Streams -> Service]
      BY <1>4 DEF Open, StreamsTyped, Service
  <2>6. handler' \in [Streams -> {"route", "dial", "recv", "done"}] /\ refused' = refused
      BY <1>4 DEF Open, StreamsTyped
  <2> QED
      BY <2>1, <2>3, <2>4, <2>5, <2>6 DEF StreamsTyped, HistoriesTyped
<1>5. CASE ReadValue(s)
  <2>1. PICK v \in Value : /\ reader' = [reader EXCEPT ![s] = [pc |-> "send", val |-> v]]
                          /\ read' = [read EXCEPT ![s] = Append(@, v)]
      BY <1>5 DEF ReadValue, Value
  <2>2. /\ reader[s].pc = "scan" /\ handler' = handler /\ route' = route
        /\ service' = service /\ wrote' = wrote /\ recorded' = recorded /\ refused' = refused
      BY <1>5 DEF ReadValue
  <2>3. reader'[s] = [pc |-> "send", val |-> v] /\ read'[s] = Append(read[s], v)
      BY <2>1 DEF StreamsTyped, HistoriesTyped
  <2>4. Sound(handler[s], route[s], reader'[s], service[s], wrote[s], Append(read[s], v),
              recorded[s])
      BY <1>s, <1>t, <2>2, <2>3, SoundRead
  <2>5. Here
      BY <2>2, <2>3, <2>4
  <2>6. Append(read[s], v) \in Seq(Value) /\ [pc |-> "send", val |-> v] \in Reader
      BY <1>t, AppendProperties DEF Reader
  <2>7. StreamsTyped'
      BY <2>1, <2>2, <2>6 DEF StreamsTyped, HistoriesTyped
  <2> QED
      BY <2>5, <2>7
<1>6. CASE ReadRefusal(s)
    BY <1>6, <1>s DEF ReadRefusal, StreamsTyped, HistoriesTyped
<1>7. CASE ReadEOF(s)
  <2>1. /\ reader[s].pc = "scan" /\ reader'[s].pc = "closed" /\ handler' = handler
        /\ route' = route /\ service' = service /\ wrote' = wrote /\ read' = read
        /\ recorded' = recorded /\ refused' = refused
      BY <1>7 DEF ReadEOF, StreamsTyped, Reader
  <2>2. Here
      BY <1>s, <1>t, <2>1, SoundEOF
  <2>3. reader' \in [Streams -> Reader]
      BY <1>7 DEF ReadEOF, StreamsTyped, Reader
  <2> QED
      BY <2>1, <2>2, <2>3 DEF StreamsTyped, HistoriesTyped
<1>8. CASE Forward(s)
  <2> DEFINE v == reader[s].val
             rc2 == IF v = Error THEN <<"failure">> ELSE recorded[s]
  <2>1. /\ reader[s].pc = "send" /\ service[s].pc = "recv" /\ handler' = handler
        /\ route' = route /\ wrote' = wrote /\ read' = read /\ refused' = refused
      BY <1>8 DEF Forward
  <2>2. /\ reader'[s].pc = (IF v.kind = "chunk" THEN "scan" ELSE "closed")
        /\ reader' \in [Streams -> Reader]
    <3>1. reader' = [reader EXCEPT ![s].pc = IF v.kind = "chunk" THEN "scan" ELSE "closed"]
        BY <1>8 DEF Forward
    <3> HIDE DEF v
    <3> QED
        BY <3>1 DEF StreamsTyped, Reader
  <2>3. /\ service'[s].pc = "send" /\ service'[s].val = v
        /\ service'[s].gotError = (service[s].gotError \/ v = Error)
        /\ service' \in [Streams -> Service]
    <3> DEFINE met == service[s].gotError \/ v = Error
               sv2 == [pc |-> "send", val |-> v, gotError |-> met]
    <3>1. service' = [service EXCEPT ![s] = sv2]
        BY <1>8 DEF Forward
    <3>2. met \in BOOLEAN
        OBVIOUS
    <3> HIDE DEF met
    <3>3. sv2 \in Service /\ sv2.pc = "send" /\ sv2.val = v /\ sv2.gotError = met
        BY <1>v, <3>2 DEF Service
    <3> HIDE DEF sv2
    <3>4. service'[s] = sv2 /\ service' \in [Streams -> Service]
        BY <3>1, <3>3 DEF StreamsTyped
    <3>5. service'[s].gotError = met
        BY <3>3, <3>4
    <3> QED
        BY <3>3, <3>4, <3>5 DEF met
  <2>4. /\ Sound(handler[s], route[s], reader'[s], service'[s], wrote[s], read[s], rc2)
        /\ recorded[s] = <<>> /\ route[s] \in Key
      BY <1>s, <1>t, <1>v, <2>1, <2>2, <2>3, SoundForward
  <2>5. recorded' \in [Streams -> Seq(Outcome)] /\ recorded'[s] = rc2
    <3>1. CASE v = Error
      <4>1. Record(s, "failure") /\ "failure" \in Outcome
          BY <1>8, <3>1 DEF Forward, Outcome
      <4> QED
          BY <2>4, <3>1, <4>1, Recording
    <3>2. CASE v # Error
        BY <1>8, <3>2 DEF Forward, StreamsTyped, HistoriesTyped
    <3> QED
        BY <3>1, <3>2
  <2>6. Here
      BY <2>1, <2>4, <2>5
  <2> QED
      BY <2>1, <2>2, <2>3, <2>5, <2>6 DEF StreamsTyped, HistoriesTyped
<1>9. CASE Deliver(s)
  <2> DEFINE v == service[s].val
             w2 == Append(wrote[s], v)
  <2>1. /\ service[s].pc = "send" /\ handler[s] = "recv" /\ reader' = reader
        /\ route' = route /\ read' = read /\ recorded' = recorded /\ refused' = refused
        /\ wrote' = [wrote EXCEPT ![s] = w2] /\ wrote'[s] = w2
        /\ handler'[s] = IF v = Error THEN "done" ELSE "recv"
      BY <1>9 DEF Deliver, StreamsTyped, HistoriesTyped
  <2>2. /\ service'[s].pc = "recv" /\ service'[s].gotError = service[s].gotError
        /\ service' \in [Streams -> Service]
      BY <1>9 DEF Deliver, StreamsTyped, Service
  <2>3. Here
      BY <1>s, <1>t, <2>1, <2>2, SoundDeliver
  <2>4. w2 \in Seq(Value \cup {EndMark})
      BY <1>t, <1>v, AppendProperties
  <2>5. handler' \in [Streams -> {"route", "dial", "recv", "done"}]
      BY <1>9 DEF Deliver, StreamsTyped
  <2>6. wrote' \in [Streams -> Seq(Value \cup {EndMark})]
      BY <2>1, <2>4 DEF StreamsTyped, HistoriesTyped
  <2> QED
      BY <2>1, <2>2, <2>3, <2>5, <2>6 DEF StreamsTyped, HistoriesTyped
<1>10. CASE ServiceEnds(s)
  <2> DEFINE rc2 == IF service[s].gotError THEN recorded[s] ELSE <<"success">>
  <2>1. /\ service[s].pc = "recv" /\ reader[s].pc = "closed" /\ handler' = handler
        /\ reader' = reader /\ route' = route /\ wrote' = wrote /\ read' = read
        /\ refused' = refused
      BY <1>10 DEF ServiceEnds
  <2>2. /\ service'[s].pc = "closed" /\ service'[s].gotError = service[s].gotError
        /\ service' \in [Streams -> Service]
      BY <1>10 DEF ServiceEnds, StreamsTyped, Service
  <2>3. /\ Sound(handler[s], route[s], reader[s], service'[s], wrote[s], read[s], rc2)
        /\ route[s] \in Key /\ (~service[s].gotError => recorded[s] = <<>>)
      BY <1>s, <1>t, <2>1, <2>2, SoundServiceEnds
  <2>4. recorded' \in [Streams -> Seq(Outcome)] /\ recorded'[s] = rc2
    <3>1. CASE service[s].gotError
        BY <1>10, <3>1 DEF ServiceEnds, StreamsTyped, HistoriesTyped
    <3>2. CASE ~service[s].gotError
      <4>1. Record(s, "success") /\ "success" \in Outcome
          BY <1>10, <3>2 DEF ServiceEnds, Outcome
      <4> QED
          BY <2>3, <3>2, <4>1, Recording
    <3> QED
        BY <3>1, <3>2
  <2>5. Here
      BY <2>1, <2>3, <2>4
  <2> QED
      BY <2>1, <2>2, <2>4, <2>5 DEF StreamsTyped, HistoriesTyped
<1>11. CASE HandlerEnds(s)
  <2> DEFINE w2 == Append(wrote[s], EndMark)
  <2>1. /\ service[s].pc = "closed" /\ handler[s] = "recv" /\ handler'[s] = "done"
        /\ reader' = reader /\ service' = service /\ route' = route /\ read' = read
        /\ recorded' = recorded /\ refused' = refused
        /\ wrote' = [wrote EXCEPT ![s] = w2] /\ wrote'[s] = w2
      BY <1>11 DEF HandlerEnds, StreamsTyped, HistoriesTyped
  <2>2. Here
      BY <1>s, <1>t, <2>1, SoundHandlerEnds
  <2>3. w2 \in Seq(Value \cup {EndMark})
      BY <1>t, AppendProperties
  <2>4. handler' \in [Streams -> {"route", "dial", "recv", "done"}]
      BY <1>11 DEF HandlerEnds, StreamsTyped
  <2>5. wrote' \in [Streams -> Seq(Value \cup {EndMark})]
      BY <2>1, <2>3 DEF StreamsTyped, HistoriesTyped
  <2> QED
      BY <2>1, <2>2, <2>4, <2>5 DEF StreamsTyped, HistoriesTyped
<1> QED
    BY <1>1, <1>2, <1>3, <1>4, <1>5, <1>6, <1>7, <1>8, <1>9, <1>10, <1>11 DEF Step

\* The streams that failed, before a stream has its outcome and after.
LEMMA FailingChange ==
  ASSUME NEW s \in Streams, NEW rts, NEW rcs, NEW rts2, NEW rcs2, NEW k,
         rcs[s] = <<>>, \A q \in Streams : q # s => rts2[q] = rts[q] /\ rcs2[q] = rcs[q]
  PROVE  /\ s \notin Failing(rts, rcs, k)
         /\ rcs2[s] \in {<<>>, <<"success">>} => Failing(rts2, rcs2, k) = Failing(rts, rcs, k)
         /\ rcs2[s] = <<"failure">> =>
              Failing(rts2, rcs2, k) = IF rts2[s] = k THEN Failing(rts, rcs, k) \cup {s}
                                                      ELSE Failing(rts, rcs, k)
<1>1. /\ "failure" \notin ToSet(<<>>) /\ "failure" \notin ToSet(<<"success">>)
      /\ "failure" \in ToSet(<<"failure">>)
    BY DEF ToSet
<1> QED
    BY <1>1 DEF Failing

\* One breaker and the streams that failed on it, over one operation.
LEMMA HoldsAfter ==
  ASSUME NEW t \in 0..MaxTime, NEW b \in BreakerType(0..MaxTime), NEW failing,
         Holds(b, failing)
  PROVE  /\ Holds(AfterAllow(b, t), failing)
         /\ Holds(AfterSuccess(b), failing)
         /\ \A x : x \notin failing => Holds(AfterFailure(b, t), failing \cup {x})
<1>t. 0..MaxTime \in SUBSET Nat
    BY StreamAssumption
<1>b. b.failures \in Nat
    BY DEF BreakerType
<1>c. /\ IsFiniteSet(failing) /\ Cardinality(failing) \in Nat
      /\ b.failures <= Cardinality(failing)
    BY FS_CardinalityType DEF Holds
<1>1. Holds(AfterAllow(b, t), failing)
    BY <1>c, <1>t, AllowEffect DEF Holds
<1>2. Holds(AfterSuccess(b), failing)
  <2>1. AfterSuccess(b).failures = 0
      BY <1>t, SuccessEffect
  <2> QED
      BY <1>c, <2>1 DEF Holds
<1>3. ASSUME NEW x, x \notin failing PROVE Holds(AfterFailure(b, t), failing \cup {x})
  <2>1. AfterFailure(b, t).failures = b.failures + 1
      BY <1>t, FailureEffect
  <2>2. /\ IsFiniteSet(failing \cup {x})
        /\ Cardinality(failing \cup {x}) = Cardinality(failing) + 1
      BY <1>c, <1>3, FS_AddElement
  <2>3. b.failures + 1 <= Cardinality(failing) + 1
      BY <1>b, <1>c
  <2> QED
      BY <2>1, <2>2, <2>3 DEF Holds
<1> QED
    BY <1>1, <1>2, <1>3

\* Every breaker's count stays covered.
LEMMA BreakersStep ==
  ASSUME StreamsTyped, BreakersTyped, StreamsSound, BreakersHold, NEW s \in Streams, Step(s)
  PROVE  BreakersTyped' /\ BreakersHold'
<1>n. now' = now
    BY DEF Step, RouteError, Route, DialFailed, Open, ReadValue, ReadRefusal, ReadEOF,
           Forward, Deliver, ServiceEnds, HandlerEnds
<1>t. /\ breakers \in [Key -> BreakerType(0..MaxTime)] /\ now \in 0..MaxTime
      /\ 0..MaxTime \in SUBSET Nat
    BY StreamAssumption DEF BreakersTyped
<1>h. ASSUME NEW k \in Key
      PROVE  /\ Holds(breakers[k], Failing(route, recorded, k))
             /\ breakers[k] \in BreakerType(0..MaxTime)
    BY <1>t DEF BreakersHold
<1>k. ASSUME NEW q \in Streams, q # s
      PROVE  route'[q] = route[q] /\ recorded'[q] = recorded[q]
    BY <1>k, OthersKept
<1>1. CASE Quiet
    BY <1>1, <1>n, <1>t, <1>h DEF Quiet, BreakersTyped, BreakersHold
<1>2. CASE Admission(s)
  <2>1. PICK k \in Key : breakers' = [breakers EXCEPT ![k] = AfterAllow(@, now)]
      BY <1>2 DEF Admission
  <2>2. AfterAllow(breakers[k], now) \in BreakerType(0..MaxTime)
      BY <1>t, MethodTypes
  <2>3. BreakersTyped'
      BY <1>n, <1>t, <2>1, <2>2 DEF BreakersTyped
  <2>4. ASSUME NEW j \in Key PROVE Holds(breakers'[j], Failing(route', recorded', j))
    <3>1. recorded[s] = <<>> /\ recorded'[s] = <<>>
        BY <1>2 DEF Admission
    <3>2. Failing(route', recorded', j) = Failing(route, recorded, j)
        BY <1>k, <3>1, FailingChange
    <3>3. breakers'[j] = breakers[j] \/ breakers'[j] = AfterAllow(breakers[j], now)
        BY <1>t, <2>1
    <3>4. Holds(AfterAllow(breakers[j], now), Failing(route, recorded, j))
        BY <1>t, <1>h, HoldsAfter
    <3> QED
        BY <1>h, <3>2, <3>3, <3>4
  <2> QED
      BY <2>3, <2>4 DEF BreakersHold
<1>3. CASE Outcoming(s)
  <2>1. PICK o \in Outcome : Record(s, o)
      BY <1>3 DEF Outcoming
  <2>2. recorded[s] = <<>> /\ route[s] \in Key /\ route' = route
      BY <1>3 DEF Outcoming
  <2>3. /\ breakers' \in [Key -> BreakerType(0..MaxTime)] /\ recorded'[s] = <<o>>
        /\ o = "success" => breakers' = [breakers EXCEPT ![route[s]] = AfterSuccess(@)]
        /\ o = "failure" => breakers' = [breakers EXCEPT ![route[s]] = AfterFailure(@, now)]
      BY <2>1, <2>2, Recording
  <2>4. BreakersTyped'
      BY <1>n, <1>t, <2>3 DEF BreakersTyped
  <2>5. ASSUME NEW j \in Key PROVE Holds(breakers'[j], Failing(route', recorded', j))
    <3> DEFINE failing == Failing(route, recorded, j)
    <3>1. /\ s \notin failing
          /\ recorded'[s] \in {<<>>, <<"success">>} => Failing(route', recorded', j) = failing
          /\ recorded'[s] = <<"failure">> =>
               Failing(route', recorded', j) = IF route'[s] = j THEN failing \cup {s}
                                                               ELSE failing
        BY <1>k, <2>2, FailingChange
    <3> HIDE DEF failing
    <3>5. Holds(breakers[j], failing)
        BY <1>h DEF failing
    <3>2. /\ Holds(AfterSuccess(breakers[j]), failing)
          /\ Holds(AfterFailure(breakers[j], now), failing \cup {s})
        BY <1>t, <1>h, <3>1, <3>5, HoldsAfter
    <3>3. CASE o = "success"
      <4>1. Failing(route', recorded', j) = failing
          BY <2>3, <3>1, <3>3
      <4>2. breakers'[j] = breakers[j] \/ breakers'[j] = AfterSuccess(breakers[j])
          BY <1>t, <2>3, <3>3
      <4> QED
          BY <3>2, <3>5, <4>1, <4>2
    <3>4. CASE o = "failure"
      <4>1. Failing(route', recorded', j) = IF route[s] = j THEN failing \cup {s} ELSE failing
          BY <2>2, <2>3, <3>1, <3>4
      <4>2. breakers'[j] = IF route[s] = j THEN AfterFailure(breakers[j], now) ELSE breakers[j]
          BY <1>t, <2>3, <3>4
      <4> QED
          BY <3>2, <3>5, <4>1, <4>2
    <3> QED
        BY <3>3, <3>4 DEF Outcome
  <2> QED
      BY <2>4, <2>5 DEF BreakersHold
<1> QED
    BY <1>1, <1>2, <1>3, BreakerSteps

LEMMA IInvStep == IInv /\ [Next]_vars => IInv'
<1> SUFFICES ASSUME IInv, [Next]_vars PROVE IInv'
    OBVIOUS
<1>0. StreamsTyped /\ BreakersTyped /\ StreamsSound /\ BreakersHold
    BY Types DEF IInv
<1>1. ASSUME NEW s \in Streams, Step(s) PROVE IInv'
  <2>1. StreamsTyped' /\ BreakersTyped' /\ BreakersHold'
      BY <1>0, <1>1, StreamStep, BreakersStep
  <2>2. ASSUME NEW q \in Streams
        PROVE  Sound(handler'[q], route'[q], reader'[q], service'[q], wrote'[q], read'[q],
                     recorded'[q])
    <3>1. CASE q = s
        BY <1>0, <1>1, <3>1, StreamStep
    <3>2. CASE q # s
        BY <1>0, <1>1, <3>2, OthersKept DEF StreamsSound
    <3> QED
        BY <3>1, <3>2
  <2>3. StreamsSound'
      BY <2>2 DEF StreamsSound
  <2>4. TypeOK' /\ HistoriesTyped'
      BY <2>1 DEF TypeOK, HistoriesTyped, StreamsTyped, BreakersTyped, Reader, Service
  <2> QED
      BY <2>1, <2>3, <2>4 DEF IInv
<1>2. ASSUME Tick PROVE IInv'
  <2>1. now' \in 0..MaxTime
      BY <1>0, <1>2, StreamAssumption DEF Tick, BreakersTyped
  <2> QED
      BY <1>2, <2>1
      DEF Tick, IInv, TypeOK, HistoriesTyped, StreamsSound, BreakersHold
<1>3. ASSUME UNCHANGED vars PROVE IInv'
    BY <1>3 DEF vars, IInv, TypeOK, HistoriesTyped, StreamsSound, BreakersHold
<1> QED
    BY <1>1, <1>2, <1>3 DEF Next, Terminated

LEMMA Invariant == Spec => []IInv
<1>1. Init => IInv
    BY IInvInit
<1>2. IInv /\ [Next]_vars => IInv'
    BY IInvStep
<1> QED
    BY <1>1, <1>2, PTL DEF Spec

-----------------------------------------------------------------------------
(***************************************************************************)
(* What the invariant says of one stream                                   *)
(***************************************************************************)

\* What is recorded of a stream follows what was read of it.
LEMMA OutcomeRead ==
  ASSUME NEW h, NEW rt, NEW rd, NEW sv \in Service, NEW w, NEW rr \in Seq(Value), NEW rc,
         Sound(h, rt, rd, sv, w, rr, rc)
  PROVE  /\ Len(rc) <= 1
         /\ sv.pc = "closed" =>
              rc = <<IF Error \in ToSet(rr) THEN "failure" ELSE "success">>
<1>1. rc \in {<<>>, <<"failure">>, <<"success">>}
    BY DEF Sound, NotOpen, IsOpen, Outcomes
<1>2. Len(rc) <= 1
  <2>1. Len(<<>>) = 0 /\ Len(<<"failure">>) = 1 /\ Len(<<"success">>) = 1
      OBVIOUS
  <2>2. CASE rc = <<>>
      BY <2>1, <2>2
  <2>3. CASE rc = <<"failure">>
      BY <2>1, <2>3
  <2>4. CASE rc = <<"success">>
      BY <2>1, <2>4
  <2> QED
      BY <1>1, <2>2, <2>3, <2>4
<1>3. ASSUME sv.pc = "closed"
      PROVE  rc = <<IF Error \in ToSet(rr) THEN "failure" ELSE "success">>
  <2>1. LastEnds(rd, sv, rr) /\ WhoLeaves(h, rd, sv, w) /\ Outcomes(sv, rc)
      BY <1>3 DEF Sound, NotOpen, IsOpen
  <2>2. rd.pc = "closed"
      BY <1>3, <2>1 DEF WhoLeaves
  <2>3. /\ Len(rr) \in Nat /\ DOMAIN rr = 1..Len(rr)
      BY LenProperties
  <2>4. CASE sv.gotError
    <3>1. Len(rr) \in DOMAIN rr /\ rr[Len(rr)] = Error
        BY <2>1, <2>3, <2>4 DEF LastEnds
    <3>2. Error \in ToSet(rr)
        BY <3>1 DEF ToSet
    <3> QED
        BY <2>1, <2>4, <3>2 DEF Outcomes
  <2>5. CASE ~sv.gotError
    <3>1. \A i \in DOMAIN rr : rr[i] # Error
        BY <2>1, <2>2, <2>3, <2>5 DEF LastEnds
    <3>2. Error \notin ToSet(rr)
        BY <3>1 DEF ToSet
    <3> QED
        BY <1>3, <2>1, <2>5, <3>2 DEF Outcomes
  <2> QED
      BY <2>4, <2>5
<1> QED
    BY <1>2, <1>3

\* A finished stream was written up to its end, and the end is what was recorded.
LEMMA EndRead ==
  ASSUME NEW rt, NEW rd \in Reader, NEW sv \in Service,
         NEW w \in Seq(Value \cup {EndMark}), NEW rr \in Seq(Value), NEW rc,
         Sound("done", rt, rd, sv, w, rr, rc), w # <<>>
  PROVE  /\ rc # <<>>
         /\ w[Len(w)] = IF rc[1] = "success" THEN EndMark ELSE Error
         /\ \A i \in 1..Len(w) - 1 : w[i] \notin {EndMark, Error}
<1> DEFINE n == Len(w)
           N == Len(rr)
<1>1. /\ Flow("done", rd, sv, w, rr) /\ LastEnds(rd, sv, rr)
      /\ WhoLeaves("done", rd, sv, w) /\ Outcomes(sv, rc)
    BY DEF Sound, NotOpen, IsOpen
<1>2. n \in Nat /\ N \in Nat
    BY LenProperties
<1>3. \A i \in 1..N : rr[i] \in Value
    BY LenProperties
<1>4. rd.pc = "closed" /\ sv.pc # "send"
    BY <1>1 DEF WhoLeaves, LastEnds, Ended
<1>5. CASE sv.gotError
  <2>1. rc = <<"failure">> /\ w[n] = Error /\ n > 0
      BY <1>1, <1>5 DEF Outcomes, WhoLeaves
  <2>2. N = n /\ \A i \in 1..n : w[i] = rr[i]
      BY <1>1, <1>2, <1>4, <1>5 DEF Flow, Events, Ended, One
  <2>3. \A i \in 1..N : i < N => rr[i].kind = "chunk"
      BY <1>1 DEF LastEnds
  <2> HIDE DEF n, N
  <2>4. ASSUME NEW i \in 1..n - 1 PROVE w[i] \notin {EndMark, Error}
    <3>1. i \in 1..n /\ i \in 1..N /\ i < N
        BY <1>2, <2>2
    <3>2. w[i] \in Value /\ w[i].kind = "chunk"
        BY <1>3, <2>2, <2>3, <3>1
    <3> QED
        BY <3>2, Values
  <2> QED
      BY <2>1, <2>4 DEF n
<1>6. CASE ~sv.gotError
  <2>1. sv.pc = "closed" /\ n > 0 /\ w[n] = EndMark /\ rc = <<"success">>
      BY <1>1, <1>6 DEF WhoLeaves, Ended, Outcomes
  <2>2. N = n - 1 /\ \A i \in 1..n - 1 : w[i] = rr[i]
      BY <1>1, <1>2, <1>4, <1>6 DEF Flow, Events, Ended, One
  <2>3. \A i \in 1..N : rr[i] # Error
      BY <1>1, <1>4, <1>6 DEF LastEnds
  <2> HIDE DEF n, N
  <2>4. \A i \in 1..n - 1 : w[i] \in Value /\ w[i] # Error
      BY <1>3, <2>2, <2>3
  <2> QED
      BY <2>1, <2>4, Values DEF n
<1> QED
    BY <1>5, <1>6

\* The events written begin what was read.
LEMMA OrderRead ==
  ASSUME NEW h, NEW rt, NEW rd \in Reader, NEW sv \in Service,
         NEW w \in Seq(Value \cup {EndMark}), NEW rr \in Seq(Value), NEW rc,
         Sound(h, rt, rd, sv, w, rr, rc),
         NEW ended, ended = (w # <<>> /\ Last(w) = EndMark),
         NEW events, events = IF ended THEN Front(w) ELSE w
  PROVE  /\ IsPrefix(events, rr)
         /\ Len(rr) - Len(events) <= 2
         /\ ended => events = rr
<1>none. CASE rd.pc = "none"
  <2>1. w = <<>> /\ rr = <<>>
      BY <1>none DEF Sound, NotOpen
  <2>2. ~ended /\ events = <<>>
      BY <2>1
  <2> QED
      BY <2>1, <2>2 DEF IsPrefix
<1> SUFFICES ASSUME rd.pc # "none"
             PROVE  /\ IsPrefix(events, rr)
                    /\ Len(rr) - Len(events) <= 2
                    /\ ended => events = rr
    BY <1>none
<1> DEFINE n == Len(w)
           N == Len(rr)
           e == Events(h, sv, w)
           over == Ended(h, sv)
<1>t. /\ n \in Nat /\ N \in Nat
      /\ (\A i \in 1..N : rr[i] \in Value)
      /\ (\A i \in 1..n : w[i] \in Value \cup {EndMark})
    BY LenProperties
<1>1. /\ n >= e /\ e >= 0 /\ e \in Int /\ N >= e /\ N <= e + 2
      /\ (\A i \in 1..e : w[i] = rr[i])
      /\ (over => n > 0 /\ n = e + 1 /\ N = e /\ w[n] = EndMark)
      /\ (~over => n = e)
  <2>1. Flow(h, rd, sv, w, rr) /\ WhoLeaves(h, rd, sv, w)
      BY DEF Sound, IsOpen
  <2>2. N = e + One(sv.pc = "send") + One(rd.pc = "send") /\ \A i \in 1..e : w[i] = rr[i]
      BY <2>1 DEF Flow
  <2>3. over => n > 0 /\ w[n] = EndMark /\ sv.pc = "closed" /\ rd.pc = "closed"
      BY <2>1 DEF WhoLeaves
  <2>4. e = n - One(over)
      BY DEF Events
  <2> HIDE DEF n, N, e, over
  <2>5. CASE over
      BY <1>t, <2>2, <2>3, <2>4, <2>5 DEF One
  <2>6. CASE ~over
      BY <1>t, <2>2, <2>4, <2>6 DEF One
  <2> QED
      BY <2>5, <2>6
<1> HIDE DEF e, over
<1>2. ended <=> over
  <2>1. w # <<>> <=> n > 0
      BY <1>t, EmptySeq
  <2>2. ASSUME over PROVE ended
      BY <1>1, <2>1, <2>2 DEF Last
  <2>3. ASSUME ended, ~over PROVE FALSE
    <3>1. n > 0 /\ w[n] = EndMark
        BY <2>1, <2>3 DEF Last
    <3> HIDE DEF n, N
    <3>2. n \in 1..e /\ n \in 1..N
        BY <1>t, <1>1, <2>3, <3>1
    <3>3. w[n] \in Value
        BY <1>t, <1>1, <3>2
    <3> QED
        BY <3>1, <3>3, Values
  <2> QED
      BY <2>2, <2>3
<1>3. /\ events \in Seq(Value) /\ Len(events) = e
      /\ \A i \in 1..e : events[i] = rr[i]
  <2>1. events = SubSeq(w, 1, e)
    <3>1. CASE over
        BY <1>1, <1>2, <3>1 DEF Front
    <3>2. CASE ~over
        BY <1>1, <1>2, <3>2, SubSeqFull
    <3> QED
        BY <3>1, <3>2
  <2>2. \A i \in 1..e : w[i] \in Value
    <3> HIDE DEF n, N
    <3> QED
        BY <1>t, <1>1
  <2>3. /\ SubSeq(w, 1, e) \in Seq(Value)
        /\ Len(SubSeq(w, 1, e)) = IF 1 <= e THEN e - 1 + 1 ELSE 0
        /\ \A i \in 1..(e - 1 + 1) : SubSeq(w, 1, e)[i] = w[1 + i - 1]
      BY <1>1, <2>2, SubSeqProperties
  <2> DEFINE p == SubSeq(w, 1, e)
  <2> HIDE DEF p, n, N
  <2>4. Len(p) = e /\ \A i \in 1..e : p[i] = w[i]
      BY <1>1, <2>3 DEF p
  <2> QED
      BY <1>1, <2>1, <2>3, <2>4 DEF p
<1>4. IsPrefix(events, rr)
  <2>1. SubSeq(events, 1, e) = events
      BY <1>3, SubSeqFull
  <2> DEFINE p == SubSeq(rr, 1, e)
  <2>2. \A i \in 1..e : rr[i] \in Value
    <3> HIDE DEF n, N
    <3> QED
        BY <1>t, <1>1
  <2>3. /\ p \in Seq(Value)
        /\ Len(p) = IF 1 <= e THEN e - 1 + 1 ELSE 0
        /\ \A i \in 1..(e - 1 + 1) : p[i] = rr[1 + i - 1]
      BY <1>1, <2>2, SubSeqProperties
  <2> HIDE DEF p
  <2>4. Len(p) = e /\ \A i \in 1..e : p[i] = rr[i]
      BY <1>1, <2>3
  <2>5. Len(events) = Len(p) /\ \A i \in 1..Len(events) : events[i] = p[i]
      BY <1>3, <2>4
  <2>6. events = p
      BY <1>3, <2>3, <2>5, SeqEqual
  <2> QED
      BY <1>1, <1>3, <2>1, <2>6 DEF IsPrefix, p
<1>5. ended => events = rr
  <2> SUFFICES ASSUME ended PROVE events = rr
      OBVIOUS
  <2>1. Len(events) = Len(rr) /\ \A i \in 1..Len(events) : events[i] = rr[i]
      BY <1>1, <1>2, <1>3
  <2> QED
      BY <1>3, <2>1, SeqEqual
<1> QED
    BY <1>1, <1>3, <1>4, <1>5

-----------------------------------------------------------------------------
(***************************************************************************)
(* The theorems                                                            *)
(***************************************************************************)

\* The type invariant of Stream.tla, for any streams, routes and bodies.
THEOREM TypeCorrect == Spec => []TypeOK
<1>1. IInv => TypeOK
    BY DEF IInv
<1> QED
    BY <1>1, Invariant, PTL

\* A stream counts on its breaker once, and as what the reader made of it.
THEOREM OutcomeOnce == Spec => []OneOutcome
<1>1. IInv => OneOutcome
  <2> SUFFICES ASSUME IInv, NEW s \in Streams
               PROVE  /\ Len(recorded[s]) <= 1
                      /\ service[s].pc = "closed" =>
                           recorded[s] = <<IF Error \in ToSet(read[s]) THEN "failure"
                                                                      ELSE "success">>
      BY DEF OneOutcome
  <2>1. /\ service[s] \in Service /\ read[s] \in Seq(Value)
        /\ Sound(handler[s], route[s], reader[s], service[s], wrote[s], read[s], recorded[s])
      BY DEF IInv, TypeOK, Service, HistoriesTyped, StreamsSound
  <2> QED
      BY <2>1, OutcomeRead
<1> QED
    BY <1>1, Invariant, PTL

\* The client sees the end that was recorded, and nothing after it.
THEOREM EndIsRecorded == Spec => []EndAsRecorded
<1>1. IInv => EndAsRecorded
  <2> SUFFICES ASSUME IInv, NEW s \in Streams, handler[s] = "done", wrote[s] # <<>>
               PROVE  /\ recorded[s] # <<>>
                      /\ Last(wrote[s]) = IF recorded[s][1] = "success" THEN EndMark ELSE Error
                      /\ \A i \in 1..Len(wrote[s]) - 1 : wrote[s][i] \notin {EndMark, Error}
      BY DEF EndAsRecorded
  <2>1. /\ reader[s] \in Reader /\ service[s] \in Service
        /\ wrote[s] \in Seq(Value \cup {EndMark}) /\ read[s] \in Seq(Value)
        /\ Sound("done", route[s], reader[s], service[s], wrote[s], read[s], recorded[s])
      BY DEF IInv, TypeOK, Reader, Service, HistoriesTyped, StreamsSound
  <2> QED
      BY <2>1, EndRead DEF Last
<1> QED
    BY <1>1, Invariant, PTL

\* The client is sent what the reader read, in its order, none lost or doubled.
THEOREM OrderKept == Spec => []DeliveredInOrder
<1>1. IInv => DeliveredInOrder
  <2> SUFFICES ASSUME IInv, NEW s \in Streams
               PROVE  LET ended == wrote[s] # <<>> /\ Last(wrote[s]) = EndMark
                          events == IF ended THEN Front(wrote[s]) ELSE wrote[s]
                      IN  /\ IsPrefix(events, read[s])
                          /\ Len(read[s]) - Len(events) <= 2
                          /\ ended => events = read[s]
      BY DEF DeliveredInOrder
  <2>1. /\ reader[s] \in Reader /\ service[s] \in Service
        /\ wrote[s] \in Seq(Value \cup {EndMark}) /\ read[s] \in Seq(Value)
        /\ Sound(handler[s], route[s], reader[s], service[s], wrote[s], read[s], recorded[s])
      BY DEF IInv, TypeOK, Reader, Service, HistoriesTyped, StreamsSound
  <2> DEFINE ended == wrote[s] # <<>> /\ Last(wrote[s]) = EndMark
             events == IF ended THEN Front(wrote[s]) ELSE wrote[s]
  <2>2. /\ ended = (wrote[s] # <<>> /\ Last(wrote[s]) = EndMark)
        /\ events = IF ended THEN Front(wrote[s]) ELSE wrote[s]
      OBVIOUS
  <2> HIDE DEF ended, events
  <2>3. /\ IsPrefix(events, read[s])
        /\ Len(read[s]) - Len(events) <= 2
        /\ ended => events = read[s]
      BY <2>1, <2>2, OrderRead
  <2> QED
      BY <2>3 DEF ended, events
<1> QED
    BY <1>1, Invariant, PTL

\* A breaker counts failures of streams to its provider and model, each once.
THEOREM FailuresCounted == Spec => []FailuresAreStreams
<1>1. IInv => FailuresAreStreams
    BY DEF IInv, BreakersHold, Holds, Failing, FailuresAreStreams
<1> QED
    BY <1>1, Invariant, PTL
=============================================================================
