----------------------------- MODULE TuiProofs -----------------------------
(***************************************************************************)
(* Theorems about Tui, for every number of presses, getters, results and   *)
(* tip changes.                                                            *)
(***************************************************************************)
EXTENDS Tui, SequenceTheorems, TLAPS

USE DEF QuitKeys, CallKeys, OtherKeys, AllKeys, Modes, Fields

(***************************************************************************)
(* What a step may do to the channel.                                      *)
(***************************************************************************)
Pushed(e) ==
  /\ Len(events') = Len(events) + 1
  /\ \A i \in 1 .. Len(events) : events'[i] = events[i]
  /\ events'[Len(events) + 1] = e

Informed ==
  /\ Len(events') >= Len(events)
  /\ \A i \in 1 .. Len(events) : events'[i] = events[i]
  /\ \A i \in Len(events) + 1 .. Len(events') : events'[i] = Plain("result")

Popped ==
  /\ Len(events) >= 1
  /\ Head(events) = events[1]
  /\ Len(events') = Len(events) - 1
  /\ \A i \in 1 .. Len(events) - 1 : events'[i] = events[i + 1]

LEMMA EventsAreTyped ==
  ASSUME NEW n \in Nat
  PROVE  /\ \A p \in Presses : /\ Event("key", p, n) \in Events
                               /\ Event("result", p, n) \in Events
                               /\ Event("error", p, n) \in Events
         /\ Event("tip", None, n) \in Events
         /\ Plain("connected") \in Events
         /\ Plain("failed") \in Events
         /\ Plain("result") \in Events
BY DEF Event, Plain, Events

LEMMA LengthIsNat == TypeOK => Len(events) \in Nat
BY DEF TypeOK

LEMMA PushFacts ==
  ASSUME TypeOK, NEW e \in Events,
         events' = Append(events, e) \/ events' = events \o <<e>>
  PROVE  events' \in Seq(Events) /\ Pushed(e)
<1>1. events \in Seq(Events) /\ <<e>> \in Seq(Events) /\ Len(<<e>>) = 1 /\ <<e>>[1] = e
  BY DEF TypeOK
<1>2. events \o <<e>> = Append(events, e)
  BY <1>1, AppendIsConcat
<1>3. events' = Append(events, e)
  BY <1>2
<1>. QED  BY <1>1, <1>3, AppendProperties DEF Pushed

LEMMA InformFacts ==
  ASSUME TypeOK, NEW n \in Nat,
         events' = events \o [i \in 1 .. n |-> Plain("result")]
  PROVE  events' \in Seq(Events) /\ Informed
<1>. DEFINE sent == [i \in 1 .. n |-> Plain("result")]
<1>1. Plain("result") \in Events
  BY EventsAreTyped
<1>2. sent \in Seq(Events) /\ Len(sent) = n /\ \A i \in 1 .. n : sent[i] = Plain("result")
  BY <1>1
<1>3. events \in Seq(Events) /\ Len(events) \in Nat
  BY DEF TypeOK
<1>4. /\ events \o sent \in Seq(Events)
      /\ Len(events \o sent) = Len(events) + n
      /\ \A i \in 1 .. Len(events) + n :
           (events \o sent)[i] = IF i <= Len(events) THEN events[i] ELSE sent[i - Len(events)]
  BY <1>2, <1>3, ConcatProperties
<1>. HIDE DEF sent
<1>5. \A i \in 1 .. Len(events) : events'[i] = events[i]
  BY <1>3, <1>4 DEF sent
<1>6. \A i \in Len(events) + 1 .. Len(events') : events'[i] = Plain("result")
  <2>. SUFFICES ASSUME NEW i \in Len(events) + 1 .. Len(events')
                PROVE  events'[i] = Plain("result")
    OBVIOUS
  <2>1. events' = events \o sent
    BY DEF sent
  <2>2. i \in 1 .. Len(events) + n /\ ~(i <= Len(events)) /\ i - Len(events) \in 1 .. n
    BY <1>3, <1>4, <2>1
  <2>3. events'[i] = sent[i - Len(events)]
    BY <1>4, <2>1, <2>2
  <2>. QED  BY <1>2, <2>2, <2>3
<1>7. events' = events \o sent
  BY DEF sent
<1>. QED  BY <1>3, <1>4, <1>5, <1>6, <1>7 DEF Informed

LEMMA SilentFacts ==
  ASSUME TypeOK, events' = events \o << >>
  PROVE  events' = events
BY ConcatEmptySeq DEF TypeOK

LEMMA PopFacts ==
  ASSUME TypeOK, NEW type, Receive(type)
  PROVE  /\ events' \in Seq(Events) /\ Popped
         /\ events[1] \in Events /\ events[1].type = type
<1>1. events \in Seq(Events) /\ events # << >>
  BY DEF TypeOK, Receive
<1>2. Len(events) >= 1 /\ Head(events) = events[1] /\ events[1] \in Events
  BY <1>1
<1>. QED  BY <1>1, <1>2, HeadTailProperties DEF Receive, Popped

(***************************************************************************)
(* Type correctness.                                                       *)
(***************************************************************************)
\* A press is one of the keys, whatever session it belongs to.
LEMMA PressIsKey ==
  ASSUME NEW p \in Presses, Press(p)
  PROVE  \E k \in AllKeys : key' = [key EXCEPT ![p] = k]
<1>1. PICK s \in Scripts : p \in DOMAIN s /\ key' = [key EXCEPT ![p] = s[p]]
  BY DEF Press
<1>2. s \in Seq(AllKeys)
  BY ScriptsAssumption
<1>3. s[p] \in AllKeys
  BY <1>1, <1>2
<1>. QED  BY <1>1, <1>3

LEMMA TypeStep == TypeOK /\ [Next]_vars => TypeOK'
<1>. SUFFICES ASSUME TypeOK, [Next]_vars PROVE TypeOK'
  OBVIOUS
<1>. USE DEF display, control, tasks, calls
<1>1. CASE Interrupt
  BY <1>1 DEF Interrupt, TypeOK
<1>2. ASSUME NEW p \in Presses, Press(p) PROVE TypeOK'
  <2>1. events' \in Seq(Events)
    BY <1>2, EventsAreTyped, PushFacts DEF Press
  <2>2. PICK k \in AllKeys : key' = [key EXCEPT ![p] = k]
    BY <1>2, PressIsKey
  <2>3. key' \in [Presses -> AllKeys \cup {"none"}]
    BY <2>2 DEF TypeOK
  <2>. QED  BY <1>2, <2>1, <2>3 DEF Press, TypeOK
<1>3. CASE KeyboardEnds
  <2>1. keyboard' \in BOOLEAN
    BY <1>3 DEF KeyboardEnds
  <2>2. UNCHANGED <<display, control, events, cancel, connector, info, feed, fed, calls>>
    BY <1>3 DEF KeyboardEnds
  <2>. QED  BY <2>1, <2>2 DEF TypeOK
<1>4. CASE Connecting
  <2>1. events' \in Seq(Events)
    <3>1. CASE ConnectSucceeds
      BY <3>1, EventsAreTyped, PushFacts DEF ConnectSucceeds, Connects
    <3>2. CASE ConnectFails \/ ConnectTimesOut
      BY <3>2, EventsAreTyped, PushFacts DEF ConnectFails, ConnectTimesOut, Connects
    <3>3. CASE ConnectGivesUp
      BY <3>3, SilentFacts DEF ConnectGivesUp, Connects, TypeOK
    <3>. QED  BY <1>4, <3>1, <3>2, <3>3 DEF Connecting
  <2>2. PICK sent : Connects(sent)
    BY <1>4 DEF Connecting, ConnectSucceeds, ConnectFails, ConnectTimesOut, ConnectGivesUp
  <2>. QED  BY <2>1, <2>2 DEF Connects, TypeOK
<1>5. CASE InfoEnds
  <2>1. events' \in Seq(Events)
    <3>1. PICK n \in 0 .. MaxInfo : events' = events \o [i \in 1 .. n |-> Plain("result")]
      BY <1>5 DEF InfoEnds
    <3>2. n \in Nat
      BY BoundsAssumption
    <3>. QED  BY <3>1, <3>2, InformFacts
  <2>. QED  BY <1>5, <2>1 DEF InfoEnds, TypeOK
<1>6. CASE TipChanges
  <2>1. fed + 1 \in Nat
    BY DEF TypeOK
  <2>2. events' \in Seq(Events)
    BY <1>6, <2>1, EventsAreTyped, PushFacts DEF TipChanges
  <2>. QED  BY <1>6, <2>1, <2>2 DEF TipChanges, TypeOK
<1>7. CASE FeedEnds
  BY <1>7 DEF FeedEnds, TypeOK
<1>8. ASSUME NEW p \in Presses, Execute(p) PROVE TypeOK'
  BY <1>8 DEF Execute, TypeOK
<1>9. ASSUME NEW p \in Presses,
             CallAnswered(p) \/ CallRefused(p) \/ CallTimesOut(p) \/ CallGivesUp(p)
      PROVE  TypeOK'
  <2>1. events' \in Seq(Events)
    <3>1. CASE CallAnswered(p)
      BY <3>1, EventsAreTyped, PushFacts DEF CallAnswered, EndCall
    <3>2. CASE CallRefused(p) \/ CallTimesOut(p)
      BY <3>2, EventsAreTyped, PushFacts DEF CallRefused, CallTimesOut, EndCall
    <3>3. CASE CallGivesUp(p)
      BY <3>3, SilentFacts DEF CallGivesUp, EndCall, TypeOK
    <3>. QED  BY <1>9, <3>1, <3>2, <3>3
  <2>2. PICK sent : EndCall(p, sent)
    BY <1>9 DEF CallAnswered, CallRefused, CallTimesOut, CallGivesUp
  <2>. QED  BY <2>1, <2>2 DEF EndCall, TypeOK
<1>10. CASE HandleConnected
  BY <1>10, PopFacts DEF HandleConnected, TypeOK
<1>11. CASE FetchStep
  <2>1. fetched' \in 0 .. Getters - 1
    BY <1>11, BoundsAssumption DEF FetchStep, TypeOK
  <2>2. fields' \subseteq Nat
    BY <1>11 DEF FetchStep, TypeOK
  <2>. QED  BY <1>11, <2>1, <2>2 DEF FetchStep, TypeOK
<1>12. CASE HandleConnectionFailed
  BY <1>12, PopFacts DEF HandleConnectionFailed, TypeOK
<1>13. CASE HandleTipChange
  <2>1. Head(events).tip \in Nat
    BY <1>13, PopFacts DEF HandleTipChange, Popped, Events
  <2>. QED  BY <1>13, <2>1, PopFacts DEF HandleTipChange, TypeOK
<1>14. CASE HandleReport
  <2>1. Receive("result") \/ Receive("error")
    BY <1>14 DEF HandleReport
  <2>2. events' \in Seq(Events)
    BY <2>1, PopFacts
  <2>3. waiting' \in BOOLEAN
    BY <1>14 DEF HandleReport
  <2>4. UNCHANGED <<conn, monitor, mode, tip, fields, control, cancel, tasks, calls>>
    BY <1>14 DEF HandleReport
  <2>. QED  BY <2>2, <2>3, <2>4 DEF TypeOK
<1>15. ASSUME NEW p \in Presses, Quit(p) \/ Ignore(p) PROVE TypeOK'
  <2>1. Receive("key")
    BY <1>15 DEF Quit, Ignore, HandleKey
  <2>2. events' \in Seq(Events)
    BY <2>1, PopFacts
  <2>3. cancel' \in BOOLEAN
    BY <1>15, Zenon DEF Quit, Ignore, TypeOK
  <2>4. UNCHANGED <<display, control, tasks, calls>>
    BY <1>15, Zenon DEF Quit, Ignore
  <2>. QED  BY <2>2, <2>3, <2>4 DEF TypeOK
<1>16. ASSUME NEW p \in Presses, TypeInForm(p) PROVE TypeOK'
  <2>1. mode' \in Modes
    BY <1>16 DEF TypeInForm, NextMode, TypeOK
  <2>2. events' \in Seq(Events)
    BY <1>16, PopFacts DEF TypeInForm, HandleKey
  <2>. QED  BY <1>16, <2>1, <2>2 DEF TypeInForm, TypeOK
<1>17. ASSUME NEW p \in Presses, MakeCall(p) \/ WaitNext(p) PROVE TypeOK'
  <2>1. events' \in Seq(Events)
    <3>1. Receive("key")
      BY <1>17 DEF MakeCall, WaitNext, Command, HandleKey
    <3>. QED  BY <3>1, PopFacts
  <2>2. call' \in [Presses -> {"none", "calling", "ended"}]
    BY <1>17 DEF MakeCall, WaitNext, Spawn, TypeOK
  <2>3. waiting' \in BOOLEAN
    BY <1>17 DEF MakeCall, WaitNext, TypeOK
  <2>4. UNCHANGED <<conn, monitor, mode, tip, fields, control, cancel, tasks, key, executed, template>>
    BY <1>17 DEF MakeCall, WaitNext, Started
  <2>. QED  BY <2>1, <2>2, <2>3, <2>4 DEF TypeOK
<1>18. ASSUME NEW p \in Presses, OpenForm(p) PROVE TypeOK'
  <2>1. events' \in Seq(Events)
    BY <1>18, PopFacts DEF OpenForm, Command, HandleKey
  <2>2. mode' \in Modes
    BY <1>18 DEF OpenForm
  <2>3. UNCHANGED <<conn, monitor, waiting, tip, fields, control, cancel, tasks, calls>>
    BY <1>18 DEF OpenForm
  <2>. QED  BY <2>1, <2>2, <2>3 DEF TypeOK
<1>19. CASE SubmitReturns
  BY <1>19 DEF SubmitReturns, TypeOK
<1>20. CASE Break
  BY <1>20 DEF Break, TypeOK
<1>21. CASE UNCHANGED vars
  BY <1>21 DEF vars, TypeOK
<1>. QED
  BY <1>1, <1>2, <1>3, <1>4, <1>5, <1>6, <1>7, <1>8, <1>9, <1>10, <1>11, <1>12, <1>13,
     <1>14, <1>15, <1>16, <1>17, <1>18, <1>19, <1>20, <1>21
  DEF Next, Handle, Calling

LEMMA InitTyped == Init => TypeOK
<1>1. 0 \in 0 .. Getters - 1
  BY BoundsAssumption
<1>2. << >> \in Seq(Events)
  OBVIOUS
<1>3. Init => /\ monitor \in BOOLEAN /\ waiting \in BOOLEAN
              /\ cancel \in BOOLEAN /\ keyboard \in BOOLEAN
  BY DEF Init
<1>4. Init => /\ conn = "connecting" /\ mode = "Normal" /\ tip = 0 /\ fields = {}
              /\ loop = "select" /\ fetched = 0 /\ events = << >>
              /\ connector = "calling" /\ info = "none" /\ feed = "none" /\ fed = 0
              /\ key = [p \in Presses |-> "none"] /\ call = [p \in Presses |-> "none"]
              /\ executed = {} /\ template = 0
  BY DEF Init
<1>. QED  BY <1>1, <1>2, <1>3, <1>4 DEF TypeOK

\* Every variable of the program keeps its type (main.rs:77, main.rs:223).
THEOREM TypeCorrect == Spec => []TypeOK
BY InitTyped, TypeStep, PTL DEF Spec

(***************************************************************************)
(* A wait_next is out while the spinner turns.                             *)
(***************************************************************************)
LEMMA KeepsReports ==
  ASSUME TypeOK, NEW e \in Events, NEW p,
         Pushed(e) \/ Informed \/ UNCHANGED events
  PROVE  Reported(p) => Reported(p)'
<1>1. Len(events) \in Nat
  BY LengthIsNat
<1>2. \A i \in 1 .. Len(events) : i \in 1 .. Len(events') /\ events'[i] = events[i]
  <2>1. CASE Pushed(e)
    BY <1>1, <2>1 DEF Pushed
  <2>2. CASE Informed
    BY <1>1, <2>2 DEF Informed, TypeOK
  <2>. QED  BY <2>1, <2>2
<1>. QED  BY <1>2 DEF Reported, Has

LEMMA PopKeepsOthers ==
  ASSUME TypeOK, NEW type, Receive(type), type \notin {"result", "error"}, NEW p
  PROVE  Reported(p) => Reported(p)'
<1>. SUFFICES ASSUME NEW t \in {"result", "error"}, Has(t, p)
              PROVE  Has(t, p)'
  BY DEF Reported
<1>1. Popped /\ events[1].type = type /\ Len(events) \in Nat
  BY PopFacts, LengthIsNat
<1>2. PICK i \in 1 .. Len(events) : events[i].type = t /\ events[i].press = p
  BY DEF Has
<1>3. i # 1
  BY <1>1, <1>2
<1>4. i - 1 \in 1 .. Len(events') /\ events'[i - 1] = events[i]
  BY <1>1, <1>2, <1>3 DEF Popped
<1>. QED  BY <1>2, <1>4 DEF Has

\* No press stands for two keys, and what has reported stays reported until the
\* loop has shown it.
LEMMA SpinnerStep ==
  TypeOK /\ (conn = "connected" => monitor) /\ SpinnerHasCall /\ [Next]_vars => SpinnerHasCall'
<1>. SUFFICES ASSUME TypeOK, conn = "connected" => monitor, SpinnerHasCall, [Next]_vars,
                     waiting', ~cancel'
              PROVE  \E p \in Presses : key'[p] = "w" /\ (call'[p] = "calling" \/ Reported(p)')
  BY DEF SpinnerHasCall
<1>. USE DEF display, control, tasks, calls
<1>. DEFINE Out(p) == key[p] = "w" /\ (call[p] = "calling" \/ Reported(p))
            Kept == \A p : Reported(p) => Reported(p)'
<1>1. ASSUME UNCHANGED waiting, UNCHANGED cancel PROVE \E p \in Presses : Out(p)
  BY <1>1 DEF SpinnerHasCall
<1>2. ASSUME UNCHANGED <<waiting, cancel>>, Kept, UNCHANGED key,
             \A p \in Presses : call'[p] = call[p] \/ Reported(p)'
      PROVE  \E p \in Presses : Out(p)'
  BY <1>1, <1>2
<1>3. CASE Interrupt
  BY <1>3 DEF Interrupt
<1>4. ASSUME NEW p \in Presses, Press(p) PROVE \E q \in Presses : Out(q)'
  <2>1. Event("key", p, 0) \in Events
    BY EventsAreTyped
  <2>2. Kept
    BY <1>4, <2>1, PushFacts, KeepsReports DEF Press
  <2>3. PICK q \in Presses : Out(q)
    BY <1>4, <1>1 DEF Press
  <2>4. q # p /\ key'[q] = key[q] /\ call' = call
    BY <1>4, <2>3 DEF Press, TypeOK
  <2>. QED  BY <2>2, <2>3, <2>4
<1>5. CASE KeyboardEnds \/ FeedEnds \/ FetchStep \/ SubmitReturns \/ Break
  <2>1. UNCHANGED <<waiting, cancel, events, key, call>>
    BY <1>5 DEF KeyboardEnds, FeedEnds, FetchStep, SubmitReturns, Break
  <2>. QED  BY <1>2, <2>1, KeepsReports, EventsAreTyped
<1>6. CASE Connecting
  <2>1. Kept
    <3>1. CASE ConnectSucceeds
      BY <3>1, EventsAreTyped, PushFacts, KeepsReports DEF ConnectSucceeds, Connects
    <3>2. CASE ConnectFails \/ ConnectTimesOut
      BY <3>2, EventsAreTyped, PushFacts, KeepsReports DEF ConnectFails, ConnectTimesOut, Connects
    <3>3. CASE ConnectGivesUp
      BY <3>3, EventsAreTyped, SilentFacts, KeepsReports DEF ConnectGivesUp, Connects
    <3>. QED  BY <1>6, <3>1, <3>2, <3>3 DEF Connecting
  <2>2. UNCHANGED <<waiting, cancel, key, call>>
    BY <1>6 DEF Connecting, ConnectSucceeds, ConnectFails, ConnectTimesOut, ConnectGivesUp, Connects
  <2>. QED  BY <1>2, <2>1, <2>2
<1>7. CASE InfoEnds
  <2>1. PICK n \in 0 .. MaxInfo : events' = events \o [i \in 1 .. n |-> Plain("result")]
    BY <1>7 DEF InfoEnds
  <2>2. n \in Nat
    BY BoundsAssumption
  <2>3. Kept
    BY <2>1, <2>2, InformFacts, KeepsReports, EventsAreTyped
  <2>4. UNCHANGED <<waiting, cancel, key, call>>
    BY <1>7 DEF InfoEnds
  <2>. QED  BY <1>2, <2>3, <2>4
<1>8. CASE TipChanges
  <2>1. Event("tip", None, fed + 1) \in Events
    BY EventsAreTyped DEF TypeOK
  <2>2. Kept
    BY <1>8, <2>1, PushFacts, KeepsReports DEF TipChanges
  <2>3. UNCHANGED <<waiting, cancel, key, call>>
    BY <1>8 DEF TipChanges
  <2>. QED  BY <1>2, <2>2, <2>3
<1>9. ASSUME NEW p \in Presses, Execute(p) PROVE \E q \in Presses : Out(q)'
  <2>1. UNCHANGED <<waiting, cancel, events, key, call>>
    BY <1>9 DEF Execute
  <2>. QED  BY <1>2, <2>1, KeepsReports, EventsAreTyped
<1>10. ASSUME NEW p \in Presses, NEW type \in {"result", "error"},
              EndCall(p, <<Event(type, p, 0)>>)
       PROVE  \E q \in Presses : Out(q)'
  <2>1. Event(type, p, 0) \in Events /\ Event(type, p, 0).type = type
        /\ Event(type, p, 0).press = p
    BY EventsAreTyped DEF Event
  <2>2. Pushed(Event(type, p, 0))
    BY <1>10, <2>1, PushFacts DEF EndCall
  <2>3. Kept
    BY <2>1, <2>2, KeepsReports
  <2>4. Reported(p)'
    BY <2>1, <2>2, LengthIsNat DEF Pushed, Reported, Has
  <2>5. /\ UNCHANGED <<waiting, cancel, key>>
        /\ \A q \in Presses : q # p => call'[q] = call[q]
    BY <1>10 DEF EndCall, TypeOK
  <2>. QED  BY <1>2, <2>3, <2>4, <2>5
<1>11. ASSUME NEW p \in Presses, CallGivesUp(p) PROVE \E q \in Presses : Out(q)'
  BY <1>11 DEF CallGivesUp, EndCall
<1>12. CASE HandleConnected \/ HandleConnectionFailed \/ HandleTipChange
  <2>1. PICK type \in {"connected", "failed", "tip"} : Receive(type)
    BY <1>12 DEF HandleConnected, HandleConnectionFailed, HandleTipChange
  <2>2. Kept
    BY <2>1, PopKeepsOthers
  <2>3. UNCHANGED <<waiting, cancel, key, call>>
    BY <1>12 DEF HandleConnected, HandleConnectionFailed, HandleTipChange
  <2>. QED  BY <1>2, <2>2, <2>3
<1>13. CASE HandleReport
  BY <1>13 DEF HandleReport
<1>14. ASSUME NEW p \in Presses, Quit(p) PROVE \E q \in Presses : Out(q)'
  BY <1>14 DEF Quit
<1>15. ASSUME NEW p \in Presses, TypeInForm(p) \/ Ignore(p) \/ OpenForm(p)
       PROVE  \E q \in Presses : Out(q)'
  <2>1. Receive("key")
    BY <1>15 DEF TypeInForm, Ignore, OpenForm, Command, HandleKey
  <2>2. Kept
    BY <2>1, PopKeepsOthers
  <2>3. UNCHANGED <<waiting, cancel, key, call>>
    BY <1>15 DEF TypeInForm, Ignore, OpenForm
  <2>. QED  BY <1>2, <2>2, <2>3
<1>16. ASSUME NEW p \in Presses, MakeCall(p) PROVE \E q \in Presses : Out(q)'
  <2>1. Receive("key")
    BY <1>16 DEF MakeCall, Command, HandleKey
  <2>2. Kept
    BY <2>1, PopKeepsOthers
  <2>3. PICK q \in Presses : Out(q)
    BY <1>16, <1>1 DEF MakeCall, Started
  <2>4. key'[q] = key[q] /\ (call[q] = "calling" => call'[q] = "calling")
    BY <1>16 DEF MakeCall, Spawn, Started, TypeOK
  <2>. QED  BY <2>2, <2>3, <2>4
<1>17. ASSUME NEW p \in Presses, WaitNext(p) PROVE \E q \in Presses : Out(q)'
  BY <1>17 DEF WaitNext, Command, Spawn, Started, TypeOK
<1>18. CASE UNCHANGED vars
  BY <1>2, <1>18, KeepsReports, EventsAreTyped DEF vars
<1>. QED
  BY <1>3, <1>4, <1>5, <1>6, <1>7, <1>8, <1>9, <1>10, <1>11, <1>12, <1>13, <1>14, <1>15,
     <1>16, <1>17, <1>18
  DEF Next, Handle, Calling, CallAnswered, CallRefused, CallTimesOut

(***************************************************************************)
(* The connection is reported once, and what needs it waits for it.        *)
(***************************************************************************)
AboutConnection(e) == e.type \in {"connected", "failed"}

OneOutcome ==
  /\ connector = "calling" => conn = "connecting"
  /\ \A i \in 1 .. Len(events) : AboutConnection(events[i]) =>
       /\ conn = "connecting" /\ connector = "ended"
       /\ \A j \in 1 .. Len(events) : AboutConnection(events[j]) => i = j

NoCall == \A p \in Presses : call[p] = "none"

Linked ==
  /\ conn = "connected" => monitor
  /\ conn # "connected" =>
       /\ mode = "Normal" /\ loop \in {"select", "ended"} /\ fields = {} /\ NoCall
  /\ loop = "fetch" => NoCall /\ fields \subseteq {template}

ConnInv == OneOutcome /\ Linked /\ OneTemplateShown

LEMMA OutcomeKept ==
  ASSUME TypeOK, OneOutcome, UNCHANGED <<conn, connector>>, NEW e \in Events,
         \/ Pushed(e) /\ ~AboutConnection(e)
         \/ Informed \/ Popped \/ UNCHANGED events
  PROVE  OneOutcome'
<1>1. Len(events) \in Nat
  BY LengthIsNat
<1>2. Len(events') \in Nat
  BY <1>1 DEF Pushed, Informed, Popped, TypeOK
<1>. USE DEF AboutConnection
<1>3. CASE Pushed(e) /\ ~AboutConnection(e)
  BY <1>1, <1>3 DEF Pushed, OneOutcome
<1>4. CASE Informed
  <2>1. \A i \in 1 .. Len(events') : AboutConnection(events'[i])
          => i \in 1 .. Len(events) /\ events'[i] = events[i]
    BY <1>1, <1>2, <1>4 DEF Informed, Plain, Event
  <2>. QED  BY <2>1 DEF OneOutcome
<1>5. CASE Popped
  <2>1. \A i \in 1 .. Len(events') :
          i + 1 \in 1 .. Len(events) /\ events'[i] = events[i + 1]
    BY <1>1, <1>5 DEF Popped
  <2>2. \A i, j \in 1 .. Len(events') : i + 1 = j + 1 => i = j
    BY <1>2
  <2>. QED  BY <2>1, <2>2 DEF OneOutcome
<1>6. CASE UNCHANGED events
  BY <1>6 DEF OneOutcome
<1>. QED  BY <1>3, <1>4, <1>5, <1>6

LEMMA OutcomeStep == TypeOK /\ OneOutcome /\ [Next]_vars => OneOutcome'
<1>. SUFFICES ASSUME TypeOK, OneOutcome, [Next]_vars PROVE OneOutcome'
  OBVIOUS
<1>. USE DEF display, control, tasks, calls
<1>1. CASE Interrupt \/ KeyboardEnds \/ FeedEnds \/ FetchStep \/ SubmitReturns \/ Break
           \/ UNCHANGED vars \/ \E p \in Presses : Execute(p) \/ CallGivesUp(p)
  <2>1. UNCHANGED <<conn, connector, events>>
    <3>1. CASE \E p \in Presses : CallGivesUp(p)
      BY <3>1, SilentFacts DEF CallGivesUp, EndCall
    <3>. QED
      BY <1>1, <3>1
      DEF Interrupt, KeyboardEnds, FeedEnds, FetchStep, SubmitReturns, Break, vars, Execute
  <2>. QED  BY <2>1, OutcomeKept, EventsAreTyped
<1>2. ASSUME NEW p \in Presses, Press(p) PROVE OneOutcome'
  <2>1. Event("key", p, 0) \in Events /\ ~AboutConnection(Event("key", p, 0))
    BY EventsAreTyped DEF AboutConnection, Event
  <2>. QED  BY <1>2, <2>1, PushFacts, OutcomeKept DEF Press
<1>3. ASSUME connector = "calling", connector' = "ended", UNCHANGED conn,
             NEW type \in {"connected", "failed"}, events' = events \o <<Plain(type)>>
      PROVE  OneOutcome'
  <2>1. Pushed(Plain(type))
    BY <1>3, EventsAreTyped, PushFacts
  <2>2. \A i \in 1 .. Len(events) : ~AboutConnection(events[i])
    BY <1>3 DEF OneOutcome
  <2>3. conn = "connecting"
    BY <1>3 DEF OneOutcome
  <2>. QED  BY <1>3, <2>1, <2>2, <2>3, LengthIsNat DEF Pushed, OneOutcome
<1>4. CASE Connecting
  <2>1. CASE ConnectSucceeds
    BY <1>3, <2>1 DEF ConnectSucceeds, Connects
  <2>2. CASE ConnectFails \/ ConnectTimesOut
    BY <1>3, <2>2 DEF ConnectFails, ConnectTimesOut, Connects
  <2>3. CASE ConnectGivesUp
    BY <2>3, SilentFacts DEF ConnectGivesUp, Connects, OneOutcome
  <2>. QED  BY <1>4, <2>1, <2>2, <2>3 DEF Connecting
<1>5. CASE InfoEnds
  <2>1. PICK n \in 0 .. MaxInfo : events' = events \o [i \in 1 .. n |-> Plain("result")]
    BY <1>5 DEF InfoEnds
  <2>2. n \in Nat
    BY BoundsAssumption
  <2>. QED  BY <1>5, <2>1, <2>2, InformFacts, OutcomeKept, EventsAreTyped DEF InfoEnds
<1>6. CASE TipChanges
  <2>1. /\ Event("tip", None, fed + 1) \in Events
        /\ ~AboutConnection(Event("tip", None, fed + 1))
    BY EventsAreTyped DEF AboutConnection, Event, TypeOK
  <2>. QED  BY <1>6, <2>1, PushFacts, OutcomeKept DEF TipChanges
<1>7. ASSUME NEW p \in Presses, NEW type \in {"result", "error"},
             EndCall(p, <<Event(type, p, 0)>>)
      PROVE  OneOutcome'
  <2>1. Event(type, p, 0) \in Events /\ ~AboutConnection(Event(type, p, 0))
    BY EventsAreTyped DEF AboutConnection, Event
  <2>. QED  BY <1>7, <2>1, PushFacts, OutcomeKept DEF EndCall
<1>8. CASE HandleConnected \/ HandleConnectionFailed
  <2>1. PICK type \in {"connected", "failed"} : Receive(type)
    BY <1>8 DEF HandleConnected, HandleConnectionFailed
  <2>2. Popped /\ events[1].type = type /\ Len(events) \in Nat
    BY <2>1, PopFacts, LengthIsNat
  <2>3. \A i \in 1 .. Len(events') : ~AboutConnection(events'[i])
    <3>. SUFFICES ASSUME NEW i \in 1 .. Len(events'), AboutConnection(events'[i])
                  PROVE  FALSE
      OBVIOUS
    <3>1. i + 1 \in 1 .. Len(events) /\ events'[i] = events[i + 1] /\ 1 \in 1 .. Len(events)
      BY <2>2 DEF Popped
    <3>2. AboutConnection(events[1]) /\ AboutConnection(events[i + 1])
      BY <2>2, <3>1 DEF AboutConnection
    <3>3. 1 = i + 1
      BY <3>1, <3>2 DEF OneOutcome
    <3>. QED  BY <3>3
  <2>4. connector # "calling" /\ connector' = connector
    <3>1. 1 \in 1 .. Len(events) /\ AboutConnection(events[1])
      BY <2>2 DEF Popped, AboutConnection
    <3>2. connector = "ended"
      BY <3>1 DEF OneOutcome
    <3>. QED  BY <1>8, <3>2 DEF HandleConnected, HandleConnectionFailed
  <2>. QED  BY <2>3, <2>4 DEF OneOutcome
<1>9. CASE HandleTipChange \/ HandleReport \/ \E p \in Presses :
             Quit(p) \/ TypeInForm(p) \/ Ignore(p) \/ MakeCall(p) \/ WaitNext(p) \/ OpenForm(p)
  <2>1. PICK type \in {"tip", "result", "error", "key"} : Receive(type)
    BY <1>9
    DEF HandleTipChange, HandleReport, Quit, TypeInForm, Ignore, MakeCall, WaitNext, OpenForm,
        Command, HandleKey
  <2>2. UNCHANGED <<conn, connector>>
    BY <1>9
    DEF HandleTipChange, HandleReport, Quit, TypeInForm, Ignore, MakeCall, WaitNext, OpenForm,
        Started
  <2>. QED  BY <2>1, <2>2, PopFacts, OutcomeKept, EventsAreTyped
<1>. QED
  BY <1>1, <1>2, <1>4, <1>5, <1>6, <1>7, <1>8, <1>9
  DEF Next, Handle, Calling, CallAnswered, CallRefused, CallTimesOut

LEMMA LinkedKept ==
  ASSUME Linked, UNCHANGED <<conn, monitor, mode, loop, fields, call, template>>
  PROVE  Linked'
BY DEF Linked, NoCall

LEMMA LinkedStep ==
  TypeOK /\ OneOutcome /\ Linked /\ OneTemplateShown /\ [Next]_vars
    => Linked' /\ OneTemplateShown'
<1>. SUFFICES ASSUME TypeOK, OneOutcome, Linked, OneTemplateShown, [Next]_vars
              PROVE  Linked' /\ OneTemplateShown'
  OBVIOUS
<1>. USE DEF display, control, tasks, calls
<1>1. ASSUME UNCHANGED fields PROVE OneTemplateShown'
  BY <1>1 DEF OneTemplateShown
<1>2. CASE Interrupt \/ KeyboardEnds \/ Connecting \/ InfoEnds \/ TipChanges \/ FeedEnds
           \/ HandleTipChange \/ HandleReport \/ UNCHANGED vars
           \/ \E p \in Presses : Press(p) \/ Quit(p) \/ Ignore(p)
  <2>1. UNCHANGED <<conn, monitor, mode, loop, fields, call, template>>
    BY <1>2
    DEF Interrupt, KeyboardEnds, InfoEnds, TipChanges, FeedEnds, HandleTipChange,
        HandleReport, vars, Press, Quit, Ignore, Connecting, ConnectSucceeds, ConnectFails,
        ConnectTimesOut, ConnectGivesUp, Connects
  <2>. QED  BY <1>1, <2>1, LinkedKept
<1>3. ASSUME NEW p \in Presses, Execute(p) PROVE Linked' /\ OneTemplateShown'
  <2>1. ~NoCall
    BY <1>3 DEF Execute, NoCall
  <2>2. conn = "connected" /\ loop # "fetch"
    BY <2>1 DEF Linked
  <2>3. UNCHANGED <<conn, monitor, loop, fields>>
    BY <1>3 DEF Execute
  <2>. QED  BY <1>1, <2>2, <2>3 DEF Linked
<1>4. ASSUME NEW p \in Presses, call[p] = "calling",
             call' = [call EXCEPT ![p] = "ended"],
             UNCHANGED <<conn, monitor, loop, fields>>
      PROVE  Linked' /\ OneTemplateShown'
  <2>1. ~NoCall
    BY <1>4 DEF NoCall
  <2>2. conn = "connected" /\ loop # "fetch"
    BY <2>1 DEF Linked
  <2>. QED  BY <1>1, <1>4, <2>2 DEF Linked
<1>5. ASSUME NEW p \in Presses, NEW sent, EndCall(p, sent)
      PROVE  Linked' /\ OneTemplateShown'
  BY <1>4, <1>5 DEF EndCall
<1>6. CASE HandleConnected
  <2>1. Popped /\ events[1].type = "connected" /\ Len(events) \in Nat
    BY <1>6, PopFacts, LengthIsNat DEF HandleConnected
  <2>2. conn = "connecting"
    <3>1. 1 \in 1 .. Len(events) /\ AboutConnection(events[1])
      BY <2>1 DEF Popped, AboutConnection
    <3>. QED  BY <3>1 DEF OneOutcome
  <2>3. fields = {} /\ NoCall
    BY <2>2 DEF Linked
  <2>4. conn' = "connected" /\ monitor' /\ loop' = "fetch" /\ UNCHANGED <<fields, call>>
    BY <1>6 DEF HandleConnected
  <2>. QED  BY <1>1, <2>3, <2>4 DEF Linked, NoCall
<1>7. CASE HandleConnectionFailed
  <2>1. Popped /\ events[1].type = "failed" /\ Len(events) \in Nat /\ loop = "select"
    BY <1>7, PopFacts, LengthIsNat DEF HandleConnectionFailed, Receive
  <2>2. conn = "connecting"
    <3>1. 1 \in 1 .. Len(events) /\ AboutConnection(events[1])
      BY <2>1 DEF Popped, AboutConnection
    <3>. QED  BY <3>1 DEF OneOutcome
  <2>3. fields = {} /\ NoCall /\ mode = "Normal"
    BY <2>2 DEF Linked
  <2>4. conn' = "failed" /\ UNCHANGED <<mode, fields, loop, call>>
    BY <1>7 DEF HandleConnectionFailed
  <2>. QED  BY <1>1, <2>1, <2>3, <2>4 DEF Linked, NoCall
<1>8. CASE FetchStep
  <2>1. loop = "fetch" /\ fields' \in {fields, fields \cup {template}}
        /\ UNCHANGED <<conn, monitor, call, template>>
    BY <1>8 DEF FetchStep
  <2>2. conn = "connected" /\ NoCall /\ fields \subseteq {template}
    BY <2>1 DEF Linked
  <2>3. fields' \subseteq {template}
    BY <2>1, <2>2
  <2>4. OneTemplateShown'
    BY <2>3 DEF OneTemplateShown
  <2>. QED  BY <2>1, <2>2, <2>3, <2>4 DEF Linked, NoCall
<1>9. ASSUME NEW p \in Presses, TypeInForm(p) PROVE Linked' /\ OneTemplateShown'
  <2>1. mode # "Normal" /\ loop = "select" /\ loop' \in {"select", "submit"}
        /\ UNCHANGED <<conn, monitor, fields>>
    BY <1>9 DEF TypeInForm, HandleKey, Receive
  <2>2. conn = "connected"
    BY <2>1 DEF Linked
  <2>. QED  BY <1>1, <2>1, <2>2 DEF Linked
<1>10. ASSUME NEW p \in Presses, MakeCall(p) \/ WaitNext(p) \/ OpenForm(p)
       PROVE  Linked' /\ OneTemplateShown'
  <2>1. conn = "connected" /\ loop = "select" /\ UNCHANGED <<conn, monitor, loop, fields>>
    BY <1>10 DEF MakeCall, WaitNext, OpenForm, Started, Command, HandleKey, Receive
  <2>. QED  BY <1>1, <2>1 DEF Linked
<1>11. CASE SubmitReturns
  <2>1. loop = "submit" /\ loop' = "select" /\ UNCHANGED <<conn, monitor, fields>>
    BY <1>11 DEF SubmitReturns
  <2>2. conn = "connected"
    BY <2>1 DEF Linked
  <2>. QED  BY <1>1, <2>1, <2>2 DEF Linked
<1>12. CASE Break
  <2>1. loop' = "ended" /\ UNCHANGED <<conn, monitor, mode, fields, call>>
    BY <1>12 DEF Break
  <2>. QED  BY <1>1, <2>1 DEF Linked, NoCall
<1>. QED
  BY <1>2, <1>3, <1>5, <1>6, <1>7, <1>8, <1>9, <1>10, <1>11, <1>12
  DEF Next, Handle, Calling, CallAnswered, CallRefused, CallTimesOut, CallGivesUp

LEMMA ConnectionInvariant == Spec => []ConnInv
<1>1. Init => ConnInv
  <2>1. Init => OneOutcome
    BY DEF Init, OneOutcome
  <2>2. Init => Linked
    BY DEF Init, Linked, NoCall
  <2>. QED  BY <2>1, <2>2 DEF Init, ConnInv, OneTemplateShown
<1>2. TypeOK /\ ConnInv /\ [Next]_vars => ConnInv'
  BY OutcomeStep, LinkedStep DEF ConnInv
<1>. QED  BY <1>1, <1>2, TypeCorrect, PTL DEF Spec

\* The spinner of 'w' never turns without a wait_next behind it, whoever clears
\* it (main.rs:299, main.rs:413).
THEOREM SpinnerIsHonest == Spec => []SpinnerHasCall
<1>1. Init => SpinnerHasCall
  BY DEF Init, SpinnerHasCall
<1>2. ConnInv => (conn = "connected" => monitor)
  BY DEF ConnInv, Linked
<1>. QED  BY <1>1, <1>2, TypeCorrect, ConnectionInvariant, SpinnerStep, PTL DEF Spec

\* A form is open, and a solution is submitted, only where there is a monitor to
\* submit it with (main.rs:340, main.rs:452, main.rs:560).
THEOREM FormsAreBacked == Spec => []FormHasMonitor
<1>1. TypeOK /\ ConnInv => FormHasMonitor
  <2>. SUFFICES ASSUME ConnInv, mode # "Normal" \/ loop = "submit"
                PROVE  conn = "connected" /\ monitor
    BY DEF FormHasMonitor
  <2>1. conn = "connected"
    BY DEF ConnInv, Linked
  <2>. QED  BY <2>1 DEF ConnInv, Linked
<1>. QED  BY <1>1, TypeCorrect, ConnectionInvariant, PTL

\* The template the display shows is one template, whatever its seven fields were
\* asked for between (main.rs:207).
THEOREM TemplateIsOne == Spec => []OneTemplateShown
<1>1. ConnInv => OneTemplateShown
  BY DEF ConnInv
<1>. QED  BY <1>1, ConnectionInvariant, PTL

(***************************************************************************)
(* A press makes one call, and the call reports once.                      *)
(***************************************************************************)
KeysOnce ==
  /\ \A p \in Presses : key[p] = "none" => call[p] = "none"
  /\ \A i \in 1 .. Len(events) : events[i].type = "key" =>
       /\ events[i].press \in Presses
       /\ key[events[i].press] # "none" /\ call[events[i].press] = "none"
       /\ \A j \in 1 .. Len(events) :
            events[j].type = "key" /\ events[j].press = events[i].press => i = j

CallInv == KeysOnce /\ OneReport

CallReport(e) == e.type \in {"result", "error"} /\ e.press # None

LEMMA CallsKept ==
  ASSUME TypeOK, CallInv, UNCHANGED <<key, call>>, NEW e \in Events,
         \/ Pushed(e) /\ e.type # "key" /\ ~CallReport(e)
         \/ Informed \/ Popped \/ UNCHANGED events
  PROVE  CallInv'
<1>1. Len(events) \in Nat
  BY LengthIsNat
<1>. USE DEF CallReport
<1>2. CASE (Pushed(e) /\ e.type # "key" /\ ~CallReport(e)) \/ Informed \/ UNCHANGED events
  <2>1. \A i \in 1 .. Len(events') : events'[i].type = "key" \/ CallReport(events'[i])
          => i \in 1 .. Len(events) /\ events'[i] = events[i]
    <3>1. CASE Pushed(e) /\ e.type # "key" /\ ~CallReport(e)
      BY <1>1, <3>1 DEF Pushed
    <3>2. CASE Informed
      <4>1. Len(events') \in Nat
        BY <3>2 DEF Informed, TypeOK
      <4>2. Plain("result").type = "result" /\ Plain("result").press = None
        BY DEF Plain, Event
      <4>. QED  BY <1>1, <3>2, <4>1, <4>2 DEF Informed
    <3>3. CASE UNCHANGED events
      BY <3>3
    <3>. QED  BY <1>2, <3>1, <3>2, <3>3
  <2>2. KeysOnce'
    BY <2>1 DEF CallInv, KeysOnce
  <2>3. OneReport'
    BY <2>1 DEF CallInv, OneReport
  <2>. QED  BY <2>2, <2>3 DEF CallInv
<1>3. CASE Popped
  <2>1. \A i \in 1 .. Len(events') :
          i + 1 \in 1 .. Len(events) /\ events'[i] = events[i + 1]
    BY <1>1, <1>3 DEF Popped
  <2>2. \A i, j \in 1 .. Len(events') : i + 1 = j + 1 => i = j
    BY <1>1, <1>3 DEF Popped
  <2>3. KeysOnce'
    BY <2>1, <2>2 DEF CallInv, KeysOnce
  <2>4. OneReport'
    BY <2>1, <2>2 DEF CallInv, OneReport
  <2>. QED  BY <2>3, <2>4 DEF CallInv
<1>. QED  BY <1>2, <1>3

LEMMA CallStep == TypeOK /\ CallInv /\ [Next]_vars => CallInv'
<1>. SUFFICES ASSUME TypeOK, CallInv, [Next]_vars PROVE CallInv'
  OBVIOUS
<1>. USE DEF display, control, tasks, calls
<1>1. CASE Interrupt \/ KeyboardEnds \/ FeedEnds \/ FetchStep \/ SubmitReturns \/ Break
           \/ ConnectGivesUp \/ UNCHANGED vars \/ \E p \in Presses : Execute(p)
  <2>1. UNCHANGED <<key, call, events>>
    <3>1. CASE ConnectGivesUp
      BY <3>1, SilentFacts DEF ConnectGivesUp, Connects
    <3>. QED
      BY <1>1, <3>1
      DEF Interrupt, KeyboardEnds, FeedEnds, FetchStep, SubmitReturns, Break, vars, Execute
  <2>. QED  BY <2>1, CallsKept, EventsAreTyped
<1>2. ASSUME NEW p \in Presses, Press(p) PROVE CallInv'
  <2>. DEFINE e == Event("key", p, 0)
  <2>1. e \in Events /\ e.type = "key" /\ e.press = p
    BY EventsAreTyped DEF Event
  <2>. HIDE DEF e
  <2>2. events' = Append(events, e) /\ key[p] = "none" /\ UNCHANGED call
    BY <1>2 DEF Press, e
  <2>3. Pushed(e)
    BY <2>1, <2>2, PushFacts
  <2>4. PICK k \in AllKeys : key' = [key EXCEPT ![p] = k]
    BY <1>2, PressIsKey
  <2>5. key'[p] # "none" /\ \A q \in Presses : q # p => key'[q] = key[q]
    BY <2>4 DEF TypeOK
  <2>6. call[p] = "none"
    BY <2>2 DEF CallInv, KeysOnce
  <2>7. \A i \in 1 .. Len(events) : events[i].type = "key" => events[i].press # p
    BY <2>2 DEF CallInv, KeysOnce
  <2>8. KeysOnce'
    <3>1. \A q \in Presses : key'[q] = "none" => call'[q] = "none"
      BY <2>2, <2>5 DEF CallInv, KeysOnce
    <3>2. ASSUME NEW i \in 1 .. Len(events'), events'[i].type = "key"
          PROVE  /\ events'[i].press \in Presses
                 /\ key'[events'[i].press] # "none" /\ call'[events'[i].press] = "none"
                 /\ \A j \in 1 .. Len(events') :
                      events'[j].type = "key" /\ events'[j].press = events'[i].press => i = j
      <4>1. CASE i = Len(events) + 1
        BY <4>1, <2>1, <2>2, <2>3, <2>5, <2>6, <2>7, <3>2, LengthIsNat DEF Pushed
      <4>2. CASE i # Len(events) + 1
        <5>1. i \in 1 .. Len(events) /\ events'[i] = events[i]
          BY <4>2, <2>3, LengthIsNat DEF Pushed
        <5>2. /\ events[i].press \in Presses /\ events[i].press # p
              /\ key[events[i].press] # "none" /\ call[events[i].press] = "none"
          BY <3>2, <5>1, <2>7 DEF CallInv, KeysOnce
        <5>3. \A j \in 1 .. Len(events) :
                events[j].type = "key" /\ events[j].press = events[i].press => i = j
          BY <3>2, <5>1 DEF CallInv, KeysOnce
        <5>4. \A j \in 1 .. Len(events') :
                \/ j \in 1 .. Len(events) /\ events'[j] = events[j]
                \/ events'[j] = e
          BY <2>3, LengthIsNat DEF Pushed
        <5>. QED  BY <2>1, <2>2, <2>5, <5>1, <5>2, <5>3, <5>4
      <4>. QED  BY <4>1, <4>2
    <3>. QED  BY <3>1, <3>2 DEF KeysOnce
  <2>9. OneReport'
    <3>1. \A i \in 1 .. Len(events') : CallReport(events'[i])
            => i \in 1 .. Len(events) /\ events'[i] = events[i]
      BY <2>1, <2>3, LengthIsNat DEF Pushed, CallReport
    <3>. QED  BY <2>2, <3>1 DEF CallInv, OneReport, CallReport
  <2>. QED  BY <2>8, <2>9 DEF CallInv
<1>3. CASE ConnectSucceeds \/ ConnectFails \/ ConnectTimesOut
  <2>1. PICK type \in {"connected", "failed"} : Connects(<<Plain(type)>>)
    BY <1>3 DEF ConnectSucceeds, ConnectFails, ConnectTimesOut
  <2>2. /\ Plain(type) \in Events /\ Plain(type).type = type
    BY EventsAreTyped DEF Plain, Event
  <2>. QED  BY <2>1, <2>2, PushFacts, CallsKept DEF Connects, CallReport
<1>4. CASE InfoEnds
  <2>1. PICK n \in 0 .. MaxInfo : events' = events \o [i \in 1 .. n |-> Plain("result")]
    BY <1>4 DEF InfoEnds
  <2>2. n \in Nat
    BY BoundsAssumption
  <2>. QED  BY <1>4, <2>1, <2>2, InformFacts, CallsKept, EventsAreTyped DEF InfoEnds
<1>5. CASE TipChanges
  <2>1. /\ Event("tip", None, fed + 1) \in Events
        /\ Event("tip", None, fed + 1).type = "tip"
    BY EventsAreTyped DEF Event, TypeOK
  <2>. QED  BY <1>5, <2>1, PushFacts, CallsKept DEF TipChanges, CallReport
<1>6. ASSUME NEW p \in Presses, call[p] = "calling",
             call' = [call EXCEPT ![p] = "ended"], UNCHANGED key
      PROVE  /\ call'[p] = "ended" /\ \A q \in Presses : q # p => call'[q] = call[q]
             /\ \A i \in 1 .. Len(events) : CallReport(events[i]) =>
                   /\ events[i].press # p
                   /\ events[i].press \in Presses => call'[events[i].press] = "ended"
             /\ \A i \in 1 .. Len(events) : events[i].type = "key" =>
                   events[i].press \in Presses /\ events[i].press # p
             /\ \A q \in Presses : key'[q] = "none" => call'[q] = "none"
  <2>1. call'[p] = "ended" /\ \A q \in Presses : q # p => call'[q] = call[q]
    BY <1>6 DEF TypeOK
  <2>2. \A i \in 1 .. Len(events) : CallReport(events[i]) => call[events[i].press] = "ended"
    BY DEF CallInv, OneReport, CallReport
  <2>3. \A i \in 1 .. Len(events) : events[i].type = "key" =>
           events[i].press \in Presses /\ call[events[i].press] = "none"
    BY DEF CallInv, KeysOnce
  <2>4. \A q \in Presses : key[q] = "none" => call[q] = "none"
    BY DEF CallInv, KeysOnce
  <2>. QED  BY <1>6, <2>1, <2>2, <2>3, <2>4
<1>7. ASSUME NEW p \in Presses, NEW type \in {"result", "error"},
             EndCall(p, <<Event(type, p, 0)>>)
      PROVE  CallInv'
  <2>. DEFINE e == Event(type, p, 0)
  <2>1. e \in Events /\ e.type = type /\ e.press = p
    BY EventsAreTyped DEF Event
  <2>2. /\ call[p] = "calling" /\ call' = [call EXCEPT ![p] = "ended"] /\ UNCHANGED key
        /\ events' = events \o <<e>>
    BY <1>7 DEF EndCall
  <2>. HIDE DEF e
  <2>3. Pushed(e)
    BY <2>1, <2>2, PushFacts
  <2>4. /\ call'[p] = "ended" /\ \A q \in Presses : q # p => call'[q] = call[q]
        /\ \A i \in 1 .. Len(events) : CallReport(events[i]) =>
              /\ events[i].press # p
              /\ events[i].press \in Presses => call'[events[i].press] = "ended"
        /\ \A i \in 1 .. Len(events) : events[i].type = "key" =>
              events[i].press \in Presses /\ events[i].press # p
        /\ \A q \in Presses : key'[q] = "none" => call'[q] = "none"
    BY <1>6, <2>2
  <2>5. KeysOnce'
    <3>1. \A i \in 1 .. Len(events') : events'[i].type = "key"
            => i \in 1 .. Len(events) /\ events'[i] = events[i]
      BY <2>1, <2>3, LengthIsNat DEF Pushed
    <3>2. \A i \in 1 .. Len(events) : events[i].type = "key" =>
            call'[events[i].press] = call[events[i].press]
      BY <2>4
    <3>3. \A i \in 1 .. Len(events') : events'[i].type = "key" =>
            /\ events'[i].press \in Presses
            /\ key'[events'[i].press] # "none" /\ call'[events'[i].press] = "none"
      BY <2>2, <3>1, <3>2 DEF CallInv, KeysOnce
    <3>4. \A i, j \in 1 .. Len(events') :
            /\ events'[i].type = "key" /\ events'[j].type = "key"
            /\ events'[j].press = events'[i].press
            => i = j
      BY <3>1 DEF CallInv, KeysOnce
    <3>. QED  BY <2>4, <3>3, <3>4 DEF KeysOnce
  <2>6. OneReport'
    <3>1. \A i \in 1 .. Len(events') :
            \/ i \in 1 .. Len(events) /\ events'[i] = events[i]
            \/ i = Len(events) + 1 /\ events'[i] = e
      BY <2>3, LengthIsNat DEF Pushed
    <3>2. \A i \in 1 .. Len(events) : CallReport(events[i]) => events[i].press \in Presses
      <4>1. \A i \in 1 .. Len(events) : events[i] \in Events
        BY DEF TypeOK
      <4>. QED  BY <4>1 DEF Events, CallReport
    <3>3. ASSUME NEW i \in 1 .. Len(events'), CallReport(events'[i])
          PROVE  call'[events'[i].press] = "ended"
      BY <2>1, <2>4, <3>1, <3>2, <3>3
    <3>4. ASSUME NEW i \in 1 .. Len(events'), NEW j \in 1 .. Len(events'),
                 CallReport(events'[i]), events'[j].type \in {"result", "error"},
                 events'[j].press = events'[i].press
          PROVE  i = j
      <4>1. CallReport(events'[j])
        BY <3>4 DEF CallReport
      <4>2. CASE i = Len(events) + 1 /\ events'[i] = e
        BY <2>1, <2>4, <3>1, <3>4, <4>1, <4>2
      <4>3. CASE j = Len(events) + 1 /\ events'[j] = e
        BY <2>1, <2>4, <3>1, <3>4, <4>1, <4>3
      <4>4. CASE /\ i \in 1 .. Len(events) /\ events'[i] = events[i]
                 /\ j \in 1 .. Len(events) /\ events'[j] = events[j]
        BY <3>4, <4>4 DEF CallInv, OneReport, CallReport
      <4>. QED  BY <3>1, <4>2, <4>3, <4>4
    <3>. QED  BY <3>3, <3>4 DEF OneReport, CallReport
  <2>. QED  BY <2>5, <2>6 DEF CallInv
<1>8. ASSUME NEW p \in Presses, CallGivesUp(p) PROVE CallInv'
  <2>1. /\ call[p] = "calling" /\ call' = [call EXCEPT ![p] = "ended"] /\ UNCHANGED key
        /\ events' = events
    BY <1>8, SilentFacts DEF CallGivesUp, EndCall
  <2>2. /\ call'[p] = "ended" /\ \A q \in Presses : q # p => call'[q] = call[q]
        /\ \A i \in 1 .. Len(events) : CallReport(events[i]) =>
              /\ events[i].press # p
              /\ events[i].press \in Presses => call'[events[i].press] = "ended"
        /\ \A i \in 1 .. Len(events) : events[i].type = "key" =>
              events[i].press \in Presses /\ events[i].press # p
        /\ \A q \in Presses : key'[q] = "none" => call'[q] = "none"
    BY <1>6, <2>1
  <2>3. KeysOnce'
    BY <2>1, <2>2 DEF CallInv, KeysOnce
  <2>4. \A i \in 1 .. Len(events) : CallReport(events[i]) => events[i].press \in Presses
    <3>1. \A i \in 1 .. Len(events) : events[i] \in Events
      BY DEF TypeOK
    <3>. QED  BY <3>1 DEF Events, CallReport
  <2>5. OneReport'
    BY <2>1, <2>2, <2>4 DEF CallInv, OneReport, CallReport
  <2>. QED  BY <2>3, <2>5 DEF CallInv
<1>9. CASE HandleConnected \/ HandleConnectionFailed \/ HandleTipChange \/ HandleReport
           \/ \E p \in Presses :
                \/ Quit(p) \/ TypeInForm(p) \/ Ignore(p) \/ OpenForm(p)
                \/ WaitNext(p) /\ ~monitor
  <2>1. PICK type : Receive(type)
    BY <1>9
    DEF HandleConnected, HandleConnectionFailed, HandleTipChange, HandleReport, Quit,
        TypeInForm, Ignore, OpenForm, WaitNext, Command, HandleKey
  <2>2. UNCHANGED <<key, call>>
    BY <1>9
    DEF HandleConnected, HandleConnectionFailed, HandleTipChange, HandleReport, Quit,
        TypeInForm, Ignore, OpenForm, WaitNext, Started
  <2>. QED  BY <2>1, <2>2, PopFacts, CallsKept, EventsAreTyped
<1>10. ASSUME NEW p \in Presses, MakeCall(p) \/ (WaitNext(p) /\ monitor) PROVE CallInv'
  <2>1. /\ Receive("key") /\ Head(events).press = p
        /\ call' = [call EXCEPT ![p] = "calling"] /\ UNCHANGED key
    BY <1>10 DEF MakeCall, WaitNext, Spawn, Started, Command, HandleKey
  <2>2. Popped /\ events[1].type = "key" /\ events[1].press = p /\ Len(events) \in Nat
    BY <2>1, PopFacts, LengthIsNat DEF Popped
  <2>3. 1 \in 1 .. Len(events)
    BY <2>2 DEF Popped
  <2>4. key[p] # "none" /\ call[p] = "none"
        /\ \A i \in 1 .. Len(events) :
             events[i].type = "key" /\ events[i].press = p => 1 = i
    BY <2>2, <2>3 DEF CallInv, KeysOnce
  <2>5. \A i \in 1 .. Len(events') :
          i + 1 \in 1 .. Len(events) /\ i + 1 # 1 /\ events'[i] = events[i + 1]
    BY <2>2 DEF Popped
  <2>6. \A i, j \in 1 .. Len(events') : i + 1 = j + 1 => i = j
    BY <2>2 DEF Popped
  <2>7. \A q \in Presses : q # p => call'[q] = call[q]
    BY <2>1 DEF TypeOK
  <2>8. KeysOnce'
    <3>1. \A q \in Presses : key'[q] = "none" => call'[q] = "none"
      BY <2>1, <2>4, <2>7 DEF CallInv, KeysOnce
    <3>2. \A i \in 1 .. Len(events') : events'[i].type = "key" =>
            /\ events'[i].press \in Presses
            /\ key'[events'[i].press] # "none" /\ call'[events'[i].press] = "none"
      BY <2>1, <2>4, <2>5, <2>7 DEF CallInv, KeysOnce
    <3>3. ASSUME NEW i \in 1 .. Len(events'), NEW j \in 1 .. Len(events'),
                 events'[i].type = "key", events'[j].type = "key",
                 events'[j].press = events'[i].press
          PROVE  i = j
      <4>1. /\ i + 1 \in 1 .. Len(events) /\ events'[i] = events[i + 1]
            /\ j + 1 \in 1 .. Len(events) /\ events'[j] = events[j + 1]
        BY <2>5
      <4>2. i + 1 = j + 1
        BY <3>3, <4>1 DEF CallInv, KeysOnce
      <4>. QED  BY <2>6, <4>2
    <3>. QED  BY <3>1, <3>2, <3>3 DEF KeysOnce
  <2>9. OneReport'
    <3>1. \A i \in 1 .. Len(events) : CallReport(events[i]) =>
            /\ events[i].press \in Presses /\ events[i].press # p
            /\ call[events[i].press] = "ended"
      <4>1. \A i \in 1 .. Len(events) : events[i] \in Events
        BY DEF TypeOK
      <4>2. \A i \in 1 .. Len(events) : CallReport(events[i]) => call[events[i].press] = "ended"
        BY DEF CallInv, OneReport, CallReport
      <4>. QED  BY <2>4, <4>1, <4>2 DEF Events, CallReport
    <3>2. \A i \in 1 .. Len(events') : CallReport(events'[i]) =>
            call'[events'[i].press] = "ended"
      BY <2>5, <2>7, <3>1
    <3>3. ASSUME NEW i \in 1 .. Len(events'), NEW j \in 1 .. Len(events'),
                 CallReport(events'[i]), events'[j].type \in {"result", "error"},
                 events'[j].press = events'[i].press
          PROVE  i = j
      <4>1. /\ i + 1 \in 1 .. Len(events) /\ events'[i] = events[i + 1]
            /\ j + 1 \in 1 .. Len(events) /\ events'[j] = events[j + 1]
        BY <2>5
      <4>2. CallReport(events[i + 1]) /\ events[j + 1].type \in {"result", "error"}
            /\ events[j + 1].press = events[i + 1].press
        BY <3>3, <4>1
      <4>3. i + 1 = j + 1
        BY <4>1, <4>2 DEF CallInv, OneReport, CallReport
      <4>. QED  BY <2>6, <4>3
    <3>. QED  BY <3>2, <3>3 DEF OneReport, CallReport
  <2>. QED  BY <2>8, <2>9 DEF CallInv
<1>11. ASSUME NEW p \in Presses, MakeCall(p) \/ WaitNext(p) PROVE CallInv'
  BY <1>9, <1>10, <1>11
<1>. QED
  BY <1>1, <1>2, <1>3, <1>4, <1>5, <1>7, <1>8, <1>9, <1>11
  DEF Next, Handle, Calling, Connecting, CallAnswered, CallRefused, CallTimesOut

\* No call is reported twice or before it is over, whatever comes first of its
\* answer, its timer and the quit key (main.rs:350, main.rs:422).
THEOREM CallsReportOnce == Spec => []OneReport
<1>1. Init => CallInv
  BY DEF Init, CallInv, KeysOnce, OneReport
<1>2. CallInv => OneReport
  BY DEF CallInv
<1>. QED  BY <1>1, <1>2, TypeCorrect, CallStep, PTL DEF Spec
=============================================================================
