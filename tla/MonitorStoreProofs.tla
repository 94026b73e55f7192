------------------------ MODULE MonitorStoreProofs ------------------------
(***************************************************************************)
(* Theorems about MonitorStore, for every set of calls and of requests:    *)
(* what its callers may rely on.  ActorProofs carries them over to Actor.  *)
(***************************************************************************)
EXTENDS MonitorStore, TLAPS

(***************************************************************************)
(* The inductive invariant.                                                *)
(***************************************************************************)
StoreType ==
  /\ cmd \in [Calls -> Requests \cup {NoCmd}]
  /\ made \in Nat
  /\ store \in Seq(Nat)
  /\ got \in [Calls -> Nat]
  /\ closed \in BOOLEAN

\* Nothing is newer than the newest template.
Newest ==
  /\ \A m \in DOMAIN store : store[m] <= made
  /\ \A c \in Calls : got[c] <= made

\* Only a call that was made has taken effect, and only one that has taken
\* effect is answered; when the table is gone every call has.
Answered ==
  /\ settled \subseteq Asked
  /\ closed => settled = Asked
  /\ \A c \in Calls : got[c] # 0 => c \in settled

\* A monitor holds a template at least as new as any told about it.
Current ==
  ~closed =>
    \A c \in Calls : \A m \in DOMAIN store :
      got[c] # 0 /\ Concerns(c, m) => got[c] <= store[m]

\* The monitor that an answer was about is in the table as long as it exists.
Known ==
  ~closed =>
    \A c \in Calls :
      got[c] # 0 /\ cmd[c].kind \in {"read", "submit", "waitNext"} =>
        cmd[c].monitor \in DOMAIN store

SInv == StoreType /\ Newest /\ Answered /\ Current /\ Known

LEMMA StoreInit == Init => SInv
<1>. SUFFICES ASSUME Init PROVE SInv
  OBVIOUS
<1>1. store \in Seq(Nat) /\ DOMAIN store = {}
  BY DEF Init
<1>2. \A c \in Calls : cmd[c] = NoCmd /\ got[c] = 0
  BY DEF Init
<1>3. StoreType
  BY <1>1 DEF Init, StoreType
<1>4. Newest /\ Current /\ Known
  BY <1>1, <1>2, <1>3 DEF Init, Newest, Current, Known
<1>5. Answered
  BY <1>2 DEF Init, Answered, Asked
<1>. QED  BY <1>3, <1>4, <1>5 DEF SInv

\* A caller that asks changes nothing an answer depends on.
LEMMA AskKeeps ==
  ASSUME SInv, NEW c \in Calls, Ask(c), UNCHANGED <<store, made, got, closed>>,
         settled' = (IF closed THEN settled \cup {c} ELSE settled)
  PROVE  SInv'
<1>1. c \notin Asked /\ Asked' = Asked \cup {c}
  BY DEF Ask, Asked, SInv, StoreType
<1>2. StoreType'
  BY DEF Ask, SInv, StoreType
<1>3. Newest'
  BY DEF SInv, Newest
<1>4. Answered'
  BY <1>1 DEF SInv, StoreType, Answered
<1>5. got[c] = 0 /\ \A d \in Calls \ {c} : cmd'[d] = cmd[d]
  BY <1>1 DEF Ask, SInv, Answered
<1>6. Current' /\ Known'
  BY <1>5 DEF SInv, Current, Known, Concerns
<1>. QED  BY <1>2, <1>3, <1>4, <1>6 DEF SInv

\* What a call that takes effect does to the answers.
LEMMA TellFacts ==
  ASSUME SInv, NEW c \in Calls, NEW v \in Nat, c \notin settled, Tell(c, v)
  PROVE  /\ got' \in [Calls -> Nat]
         /\ got[c] = 0 /\ got'[c] \in {0, v}
         /\ \A d \in Calls \ {c} : got'[d] = got[d]
BY DEF SInv, StoreType, Answered, Tell

\* A template newer than all others may go to any of the monitors, if those
\* that the answer is about are among them.
LEMMA RenewKeeps ==
  ASSUME SInv, NEW c \in Calls, Settle(c), Tell(c, made + 1), made' = made + 1,
         store' \in Seq(Nat), DOMAIN store \subseteq DOMAIN store',
         \A m \in DOMAIN store' :
           \/ store'[m] = made + 1
           \/ m \in DOMAIN store /\ store'[m] = store[m] /\ ~Concerns(c, m),
         cmd[c].kind \in {"read", "submit", "waitNext"} => cmd[c].monitor \in DOMAIN store
  PROVE  SInv'
<1>1. made + 1 \in Nat /\ c \notin settled /\ c \in Asked
  BY DEF Settle, SInv, StoreType
<1>2. /\ got' \in [Calls -> Nat] /\ got[c] = 0 /\ got'[c] \in {0, made + 1}
      /\ \A d \in Calls \ {c} : got'[d] = got[d]
  BY <1>1, TellFacts
<1>3. UNCHANGED <<cmd, closed>> /\ ~closed /\ settled' = settled \cup {c} /\ Asked' = Asked
  BY DEF Settle, Asked
<1>4. StoreType'
  BY <1>1, <1>2, <1>3 DEF SInv, StoreType
<1>5. Newest'
  <2>1. ASSUME NEW m \in DOMAIN store' PROVE store'[m] <= made'
    BY <1>1 DEF SInv, StoreType, Newest
  <2>2. ASSUME NEW d \in Calls PROVE got'[d] <= made'
    <3>1. made \in Nat /\ got[d] \in Nat /\ got[d] <= made
      BY DEF SInv, StoreType, Newest
    <3>2. CASE d = c
      BY <1>2, <3>1, <3>2
    <3>3. CASE d # c
      BY <1>2, <3>1, <3>3
    <3>. QED  BY <3>2, <3>3
  <2>. QED  BY <2>1, <2>2 DEF Newest
<1>6. Answered'
  BY <1>1, <1>2, <1>3 DEF SInv, Answered
<1>7. ASSUME NEW d \in Calls, NEW m \in DOMAIN store', got'[d] # 0, Concerns(d, m)
      PROVE  got'[d] <= store'[m]
  <2>1. got'[d] <= made + 1
    BY <1>5 DEF Newest
  <2>2. CASE store'[m] = made + 1
    BY <2>1, <2>2
  <2>3. CASE m \in DOMAIN store /\ store'[m] = store[m] /\ ~Concerns(c, m)
    <3>1. d # c
      BY <1>7, <2>3
    <3>. QED  BY <1>2, <1>3, <1>7, <2>3, <3>1 DEF SInv, Current
  <2>. QED  BY <2>2, <2>3
<1>8. \A d, m : Concerns(d, m)' <=> Concerns(d, m)
  BY <1>3 DEF Concerns
<1>9. Current'
  BY <1>7, <1>8 DEF Current
<1>10. Known'
  BY <1>2, <1>3 DEF SInv, Known
<1>. QED  BY <1>4, <1>5, <1>6, <1>9, <1>10 DEF SInv

LEMMA OpenKeeps ==
  ASSUME SInv, NEW c \in Calls, Open(c)
  PROVE  SInv'
<1>1. store \in Seq(Nat) /\ made + 1 \in Nat
  BY DEF SInv, StoreType
<1>2. /\ Append(store, made + 1) \in Seq(Nat)
      /\ DOMAIN Append(store, made + 1) = DOMAIN store \cup {Len(store) + 1}
      /\ \A m \in DOMAIN store : Append(store, made + 1)[m] = store[m]
      /\ Append(store, made + 1)[Len(store) + 1] = made + 1
  BY <1>1
<1>3. \A m : ~Concerns(c, m)
  BY DEF Open, Concerns
<1>. QED  BY <1>2, <1>3, RenewKeeps DEF Open

LEMMA RenewAllKeeps ==
  ASSUME SInv, NEW c \in Calls, RenewAll(c)
  PROVE  SInv'
<1>1. store \in Seq(Nat) /\ made + 1 \in Nat
  BY DEF SInv, StoreType
<1>2. [m \in DOMAIN store |-> made + 1] \in Seq(Nat)
  BY <1>1
<1>. QED  BY <1>2, RenewKeeps DEF RenewAll

LEMMA AdvanceKeeps ==
  ASSUME SInv, NEW c \in Calls, Advance(c)
  PROVE  SInv'
<1>1. store \in Seq(Nat) /\ made + 1 \in Nat
  BY DEF SInv, StoreType
<1>2. [store EXCEPT ![cmd[c].monitor] = made + 1] \in Seq(Nat)
  BY <1>1 DEF Advance
<1>3. \A m : Concerns(c, m) => m = cmd[c].monitor
  BY DEF Advance, Concerns
<1>. QED  BY <1>2, <1>3, RenewKeeps DEF Advance

LEMMA ReadKeeps ==
  ASSUME SInv, NEW c \in Calls, Read(c)
  PROVE  SInv'
<1>. DEFINE v == store[cmd[c].monitor]
<1>1. v \in Nat /\ v <= made /\ c \notin settled /\ c \in Asked
  BY DEF Read, Settle, SInv, StoreType, Newest
<1>2. Tell(c, v)
  BY DEF Read
<1>. HIDE DEF v
<1>3. /\ got' \in [Calls -> Nat] /\ got[c] = 0 /\ got'[c] \in {0, v}
      /\ \A d \in Calls \ {c} : got'[d] = got[d]
  BY <1>1, <1>2, TellFacts
<1>4. UNCHANGED <<cmd, closed, store, made>> /\ settled' = settled \cup {c} /\ Asked' = Asked
  BY DEF Read, Settle, Asked
<1>5. StoreType' /\ Newest'
  BY <1>1, <1>3, <1>4 DEF SInv, StoreType, Newest
<1>6. Answered'
  BY <1>1, <1>3, <1>4 DEF SInv, Answered, Read, Settle
<1>7. \A m : Concerns(c, m) => store[m] = v
  BY DEF Read, Concerns, v
<1>8. \A d, m : Concerns(d, m)' <=> Concerns(d, m)
  BY <1>4 DEF Concerns
<1>9. Current'
  BY <1>1, <1>3, <1>4, <1>7, <1>8 DEF SInv, Current
<1>10. Known'
  BY <1>3, <1>4 DEF SInv, Known, Read
<1>. QED  BY <1>5, <1>6, <1>9, <1>10 DEF SInv

LEMMA SkipKeeps ==
  ASSUME SInv, NEW c \in Calls, Skip(c)
  PROVE  SInv'
<1>1. UNCHANGED <<cmd, closed, store, made, got>> /\ ~closed /\ settled' = settled \cup {c}
  BY DEF Skip, Settle
<1>2. Asked' = Asked /\ c \in Asked
  BY DEF Skip, Settle, Asked
<1>. QED
  BY <1>1, <1>2 DEF SInv, StoreType, Newest, Answered, Current, Known, Concerns

LEMMA CloseKeeps == SInv /\ Close => SInv'
BY DEF SInv, StoreType, Newest, Answered, Current, Known, Asked, Close

LEMMA StoreInvariance == Spec => []SInv
<1>1. SInv /\ [Next]_storeVars => SInv'
  <2>. SUFFICES ASSUME SInv, [Next]_storeVars PROVE SInv'
    OBVIOUS
  <2>1. ASSUME NEW c \in Calls, Call(c) \/ Refuse(c) PROVE SInv'
    BY <2>1, AskKeeps DEF Call, Refuse
  <2>2. ASSUME NEW c \in Calls, Open(c) \/ RenewAll(c) \/ Advance(c) \/ Read(c) \/ Skip(c)
        PROVE  SInv'
    BY <2>2, OpenKeeps, RenewAllKeeps, AdvanceKeeps, ReadKeeps, SkipKeeps
  <2>3. CASE UNCHANGED storeVars
    BY <2>3 DEF storeVars, SInv, StoreType, Newest, Answered, Current, Known, Concerns, Asked
  <2>. QED  BY <2>1, <2>2, <2>3, CloseKeeps DEF Next
<1>. QED  BY StoreInit, <1>1, PTL DEF Spec

(***************************************************************************)
(* The theorems.                                                           *)
(***************************************************************************)

\* What one step says of the answers.
LEMMA AnswerStep ==
  ASSUME SInv, [Next]_storeVars, NEW c \in Calls, got'[c] # got[c]
  PROVE  /\ got[c] = 0
         /\ \A d \in Calls : Concerns(d, cmd[c].monitor) => got[d] <= got'[c]
<1>. DEFINE Goal == /\ got[c] = 0
                    /\ \A d \in Calls : Concerns(d, cmd[c].monitor) => got[d] <= got'[c]
<1>0. /\ made \in Nat /\ got \in [Calls -> Nat] /\ \A d \in Calls : got[d] <= made
  BY DEF SInv, StoreType, Newest
<1>1. ASSUME NEW e \in Calls, Settle(e), Tell(e, made + 1) PROVE Goal
  <2>1. e \notin settled /\ made + 1 \in Nat
    BY <1>0, <1>1 DEF Settle
  <2>2. /\ got[e] = 0 /\ got'[e] \in {0, made + 1} /\ \A d \in Calls \ {e} : got'[d] = got[d]
    BY <1>1, <2>1, TellFacts
  <2>3. c = e
    BY <2>2
  <2>. QED  BY <1>0, <2>2, <2>3
<1>2. ASSUME NEW e \in Calls, Read(e) PROVE Goal
  <2>. DEFINE m == cmd[e].monitor
              v == store[m]
  <2>1. m \in DOMAIN store /\ v \in Nat /\ e \notin settled /\ Tell(e, v) /\ ~closed
    BY <1>2 DEF Read, Settle, SInv, StoreType
  <2>2. /\ got[e] = 0 /\ got'[e] \in {0, v} /\ \A d \in Calls \ {e} : got'[d] = got[d]
    BY <2>1, TellFacts
  <2>3. c = e /\ got'[c] = v
    BY <2>2
  <2>4. ASSUME NEW d \in Calls, Concerns(d, m) PROVE got[d] <= v
    BY <1>0, <2>1, <2>4 DEF SInv, Current
  <2>. QED  BY <2>2, <2>3, <2>4
<1>3. CASE UNCHANGED got
  BY <1>3
<1>. QED
  BY <1>1, <1>2, <1>3
  DEF Next, Call, Refuse, Open, RenewAll, Advance, Skip, Close, storeVars

\* No caller is told of a template older than one an earlier caller of the same
\* monitor was told of.
THEOREM NeverGoesBack == Spec => AnswersNeverGoBack
<1>1. SInv /\ [Next]_storeVars =>
        [\A c, d \in Calls :
           got'[c] # got[c] /\ Concerns(d, cmd[c].monitor) => got[d] <= got'[c]]_storeVars
  BY AnswerStep
<1>. QED  BY <1>1, StoreInvariance, PTL DEF Spec, AnswersNeverGoBack

\* An answer, once given, stays.
THEOREM OneAnswer == Spec => AnsweredOnce
<1>1. SInv /\ [Next]_storeVars => [\A c \in Calls : got[c] # 0 => got'[c] = got[c]]_storeVars
  BY AnswerStep
<1>. QED  BY <1>1, StoreInvariance, PTL DEF Spec, AnsweredOnce
=============================================================================
